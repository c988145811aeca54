---------------------------- MODULE SessionProofs ---------------------------
(***************************************************************************)
(* The loop stack at the command line: a macro never touches the loops of  *)
(* its caller, and rubout brings back the loops there were, although the   *)
(* tokens of the loop stack index into it without looking.                 *)
(***************************************************************************)
EXTENDS Session, SequenceLemmas

-----------------------------------------------------------------------------
(* Sequences of anything.                                                  *)

IsSeq(s) == s \in Seq(Range(s))

LEMMA SeqIs ==
  ASSUME NEW S, NEW s \in Seq(S)
  PROVE  IsSeq(s) /\ Len(s) \in Nat /\ DOMAIN s = 1 .. Len(s)
<1>1. \A i \in 1 .. Len(s) : s[i] \in Range(s)
  BY DEF Range
<1>2. s = [i \in 1 .. Len(s) |-> s[i]] /\ Len(s) \in Nat
  OBVIOUS
<1>3. s \in [1 .. Len(s) -> Range(s)]
  BY <1>1, <1>2
<1>4. s \in Seq(Range(s))
  BY <1>2, <1>3
<1> QED
  BY <1>4 DEF IsSeq

LEMMA AppendIs ==
  ASSUME NEW s, IsSeq(s), NEW c
  PROVE  /\ IsSeq(Append(s, c)) /\ Len(s) \in Nat /\ Len(Append(s, c)) = Len(s) + 1
         /\ \A j \in 1 .. (Len(s) + 1) : Append(s, c)[j] = IF j = Len(s) + 1 THEN c ELSE s[j]
         /\ Append(s, c) # <<>> /\ Last(Append(s, c)) = c /\ Front(Append(s, c)) = s
<1> DEFINE S == Range(s) \cup {c}
           t == Append(s, c)
<1>1. s \in Seq(S) /\ c \in S
  BY DEF IsSeq
<1> HIDE DEF S
<1>2. t \in Seq(S) /\ Len(t) = Len(s) + 1 /\ Len(s) \in Nat
  BY <1>1
<1>3. \A j \in 1 .. (Len(s) + 1) : t[j] = IF j = Len(s) + 1 THEN c ELSE s[j]
  BY <1>1
<1> HIDE DEF t
<1>4. IsSeq(t)
  BY <1>2, SeqIs
<1>5. t # <<>> /\ Last(t) = c
  BY <1>2, <1>3 DEF Last
<1>6. Front(t) = s
  <2>1. /\ Front(t) \in Seq(S) /\ Len(Front(t)) = Len(t) - 1
        /\ \A j \in 1 .. (Len(t) - 1) : Front(t)[j] = t[j]
    BY <1>2, <1>5, FrontProps
  <2>2. Len(Front(t)) = Len(s) /\ \A j \in 1 .. Len(s) : Front(t)[j] = s[j]
    BY <1>2, <1>3, <2>1
  <2> HIDE DEF t
  <2> QED
    BY <1>1, <2>1, <2>2
<1> QED
  BY <1>2, <1>3, <1>4, <1>5, <1>6 DEF t

LEMMA FrontIs ==
  ASSUME NEW s, IsSeq(s), s # <<>>
  PROVE  /\ IsSeq(Front(s)) /\ Len(s) \in Nat \ {0} /\ Len(Front(s)) = Len(s) - 1
         /\ \A j \in 1 .. (Len(s) - 1) : Front(s)[j] = s[j]
         /\ Last(s) = s[Len(s)] /\ Append(Front(s), Last(s)) = s
<1> DEFINE S == Range(s)
           t == Front(s)
<1>1. s \in Seq(S)
  BY DEF IsSeq
<1>2. /\ t \in Seq(S) /\ Len(t) = Len(s) - 1
      /\ \A j \in 1 .. (Len(s) - 1) : t[j] = s[j]
      /\ Last(s) = s[Len(s)] /\ Len(s) \in 1 .. Len(s) /\ Last(s) \in S
  BY <1>1, FrontProps
<1>3. Len(s) \in Nat
  BY <1>1
<1> HIDE DEF S, t
<1>4. IsSeq(t)
  BY <1>2, SeqIs
<1>5. Append(t, Last(s)) = s
  <2>1. Append(t, Last(s)) \in Seq(S) /\ Len(Append(t, Last(s))) = Len(s)
    BY <1>2, <1>3
  <2>2. \A j \in 1 .. Len(s) : Append(t, Last(s))[j] = s[j]
    BY <1>2, <1>3
  <2> QED
    BY <1>1, <2>1, <2>2
<1> QED
  BY <1>2, <1>3, <1>4, <1>5 DEF t

LEMMA PrefixIs ==
  ASSUME NEW s, IsSeq(s), NEW n \in 0 .. Len(s)
  PROVE  /\ IsSeq(SubSeq(s, 1, n)) /\ Len(SubSeq(s, 1, n)) = n
         /\ \A j \in 1 .. n : SubSeq(s, 1, n)[j] = s[j]
<1>1. s \in Seq(Range(s)) /\ Len(s) \in Nat
  BY DEF IsSeq
<1>2. SubSeq(s, 1, n) \in Seq(Range(s))
  BY <1>1
<1>3. IsSeq(SubSeq(s, 1, n))
  BY <1>2, SeqIs
<1> QED
  BY <1>1, <1>3

LEMMA EqualSeqs ==
  ASSUME NEW s, NEW t, IsSeq(s), IsSeq(t), Len(s) = Len(t), \A j \in 1 .. Len(s) : s[j] = t[j]
  PROVE  s = t
<1> USE DEF IsSeq
<1>1. s = [j \in 1 .. Len(s) |-> s[j]]
  OBVIOUS
<1>2. t = [j \in 1 .. Len(t) |-> t[j]]
  OBVIOUS
<1> QED
  BY <1>1, <1>2

LEMMA ExceptIs ==
  ASSUME NEW s, IsSeq(s), NEW i \in 1 .. Len(s), NEW c
  PROVE  /\ IsSeq([s EXCEPT ![i] = c]) /\ Len([s EXCEPT ![i] = c]) = Len(s)
         /\ \A j \in 1 .. Len(s) : [s EXCEPT ![i] = c][j] = IF j = i THEN c ELSE s[j]
<1>1. s \in Seq(Range(s) \cup {c}) /\ c \in Range(s) \cup {c}
  BY DEF IsSeq
<1>2. /\ [s EXCEPT ![i] = c] \in Seq(Range(s) \cup {c}) /\ Len([s EXCEPT ![i] = c]) = Len(s)
      /\ \A j \in 1 .. Len(s) : [s EXCEPT ![i] = c][j] = IF j = i THEN c ELSE s[j]
  BY <1>1, ExceptProps
<1>3. IsSeq([s EXCEPT ![i] = c])
  BY <1>2, SeqIs
<1> QED
  BY <1>2, <1>3


-----------------------------------------------------------------------------
(* Loop stacks and their tokens.                                           *)

IsCtx(c) == c = [pc |-> c.pc, counter |-> c.counter, brace |-> c.brace, pass |-> c.pass]
LoopStack(s) == IsSeq(s) /\ \A i \in 1 .. Len(s) : IsCtx(s[i])

(* A token is about the entry on top.                                      *)
AtEnd(token, s) ==
  \/ token.op \in {"remove", "set"} /\ s # <<>> /\ token.i = Len(s)
  \/ token.op = "insert" /\ token.i = Len(s) + 1 /\ IsCtx(token.ctx)

(* At any place.                                                           *)
IsToken(token) ==
  \/ token.op \in {"remove", "set"} /\ token.i \in Nat \ {0}
  \/ token.op = "insert" /\ token.i \in Nat \ {0} /\ IsCtx(token.ctx)

(* The loop, with another counter.                                         *)
Counting(s, i, n) == [s EXCEPT ![i].counter = n]

LEMMA CountingIs ==
  ASSUME NEW s, LoopStack(s), NEW i \in 1 .. Len(s), NEW n
  PROVE  /\ LoopStack(Counting(s, i, n)) /\ Len(Counting(s, i, n)) = Len(s)
         /\ \A j \in 1 .. Len(s) : j # i => Counting(s, i, n)[j] = s[j]
         /\ Counting(s, i, n)[i].counter = n
         /\ Counting(Counting(s, i, n), i, s[i].counter) = s
<1> DEFINE c == s[i]
           d == [c EXCEPT !.counter = n]
           t == Counting(s, i, n)
<1>1. IsSeq(s) /\ IsCtx(c)
  BY DEF LoopStack
<1>2. d = [pc |-> c.pc, counter |-> n, brace |-> c.brace, pass |-> c.pass]
  BY <1>1 DEF IsCtx
<1>3. IsCtx(d) /\ d.counter = n /\ [d EXCEPT !.counter = c.counter] = c
  BY <1>1, <1>2 DEF IsCtx
<1>4. t = [s EXCEPT ![i] = d]
  BY DEF Counting
<1>5. Counting(t, i, c.counter) = [t EXCEPT ![i] = [t[i] EXCEPT !.counter = c.counter]]
  BY DEF Counting
<1> HIDE DEF d, t
<1>6. /\ IsSeq(t) /\ Len(t) = Len(s)
      /\ \A j \in 1 .. Len(s) : t[j] = IF j = i THEN d ELSE s[j]
  <2>1. /\ IsSeq([s EXCEPT ![i] = d]) /\ Len([s EXCEPT ![i] = d]) = Len(s)
        /\ \A j \in 1 .. Len(s) : [s EXCEPT ![i] = d][j] = IF j = i THEN d ELSE s[j]
    BY <1>1, ExceptIs
  <2> QED
    BY <1>4, <2>1
<1>7. t[i] = d
  BY <1>6
<1>8. LoopStack(t)
  BY <1>3, <1>6 DEF LoopStack
<1>9. Counting(t, i, c.counter) = s
  <2> DEFINE u == [t EXCEPT ![i] = c]
  <2>1. Counting(t, i, c.counter) = u
    BY <1>3, <1>5, <1>7
  <2>2. IsSeq(u) /\ Len(u) = Len(t) /\ \A j \in 1 .. Len(t) : u[j] = IF j = i THEN c ELSE t[j]
    <3>1. i \in 1 .. Len(t)
      BY <1>6
    <3> QED
      BY <1>6, <3>1, ExceptIs
  <2> HIDE DEF u
  <2>3. \A j \in 1 .. Len(s) : u[j] = s[j]
    BY <1>6, <2>2
  <2>4. u = s
    BY <1>1, <1>6, <2>2, <2>3, EqualSeqs
  <2> QED
    BY <2>1, <2>4
<1> QED
  BY <1>3, <1>6, <1>7, <1>8, <1>9 DEF t

LEMMA AppendStack ==
  ASSUME NEW s, LoopStack(s), NEW c, IsCtx(c)
  PROVE  LoopStack(Append(s, c))
BY AppendIs DEF LoopStack

LEMMA FrontStack ==
  ASSUME NEW s, LoopStack(s), s # <<>>
  PROVE  LoopStack(Front(s)) /\ IsCtx(Last(s))
BY FrontIs DEF LoopStack

LEMMA PrefixStack ==
  ASSUME NEW s, LoopStack(s), NEW n \in 0 .. Len(s)
  PROVE  LoopStack(SubSeq(s, 1, n))
BY PrefixIs DEF LoopStack

LEMMA InsertAtEnd ==
  ASSUME NEW S, NEW s \in Seq(S), NEW c \in S
  PROVE  InsertAt(s, Len(s) + 1, c) = Append(s, c)
<1> DEFINE n == Len(s) + 1
           a == Append(s, c)
           b == InsertAt(s, n, c)
<1>1. n \in 1 .. (Len(s) + 1) /\ Len(s) \in Nat
  OBVIOUS
<1>2. /\ b \in Seq(S) /\ Len(b) = n
      /\ \A j \in 1 .. n : b[j] = IF j < n THEN s[j] ELSE IF j = n THEN c ELSE s[j - 1]
  BY <1>1, InsertAtProps
<1>3. a \in Seq(S) /\ Len(a) = n /\ \A j \in 1 .. n : a[j] = IF j = n THEN c ELSE s[j]
  OBVIOUS
<1> HIDE DEF a, b
<1>4. \A j \in 1 .. n : a[j] = b[j]
  BY <1>1, <1>2, <1>3
<1> HIDE DEF n
<1>5. a = b
  BY <1>1, <1>2, <1>3, <1>4
<1> QED
  BY <1>5 DEF a, b, n

(* A token that is about the entry on top finds it.                        *)
LEMMA AtEndRuns ==
  ASSUME NEW s, LoopStack(s), NEW token, AtEnd(token, s)
  PROVE  /\ Fits(token, s) /\ IsToken(token) /\ LoopStack(RunToken(token, s))
         /\ token.op = "remove" => RunToken(token, s) = Front(s)
         /\ token.op = "set" => RunToken(token, s) = Counting(s, Len(s), token.counter)
         /\ token.op = "insert" => RunToken(token, s) = Append(s, token.ctx)
<1>1. s \in Seq(Range(s)) /\ Len(s) \in Nat /\ IsSeq(s)
  BY DEF LoopStack, IsSeq
<1>2. CASE token.op = "insert"
  <2>1. token.i = Len(s) + 1 /\ IsCtx(token.ctx)
    BY <1>2 DEF AtEnd
  <2>2. Fits(token, s) /\ IsToken(token)
    BY <1>1, <1>2, <2>1 DEF Fits, IsToken
  <2>3. RunToken(token, s) = InsertAt(s, Len(s) + 1, token.ctx)
    BY <1>2, <2>1, <2>2 DEF RunToken
  <2>4. InsertAt(s, Len(s) + 1, token.ctx) = Append(s, token.ctx)
    <3>1. s \in Seq(Range(s) \cup {token.ctx}) /\ token.ctx \in Range(s) \cup {token.ctx}
      BY <1>1
    <3> QED
      BY <3>1, InsertAtEnd
  <2> QED
    BY <1>2, <2>1, <2>2, <2>3, <2>4, AppendStack
<1>3. CASE token.op = "remove"
  <2>1. token.i = Len(s) /\ s # <<>>
    BY <1>3 DEF AtEnd
  <2>2. Fits(token, s) /\ IsToken(token) /\ Len(s) \in 1 .. Len(s)
    BY <1>1, <1>3, <2>1 DEF Fits, IsToken
  <2>3. RunToken(token, s) = RemoveAt(s, Len(s))
    BY <1>3, <2>1, <2>2 DEF RunToken
  <2>4. RemoveAt(s, Len(s)) = Front(s)
    <3> DEFINE b == RemoveAt(s, Len(s))
               a == Front(s)
    <3>1. /\ b \in Seq(Range(s)) /\ Len(b) = Len(s) - 1
          /\ \A j \in 1 .. (Len(s) - 1) : b[j] = IF j < Len(s) THEN s[j] ELSE s[j + 1]
      BY <1>1, <2>2, RemoveAtProps
    <3>2. IsSeq(a) /\ Len(a) = Len(s) - 1 /\ \A j \in 1 .. (Len(s) - 1) : a[j] = s[j]
      BY <1>1, <2>1, FrontIs
    <3> HIDE DEF a, b
    <3>3. \A j \in 1 .. Len(a) : a[j] = b[j]
      BY <1>1, <3>1, <3>2
    <3>4. a = b
      BY <3>1, <3>2, <3>3, SeqIs, EqualSeqs
    <3> QED
      BY <3>4 DEF a, b
  <2> QED
    BY <1>3, <2>1, <2>2, <2>3, <2>4, FrontStack
<1>4. CASE token.op = "set"
  <2>1. token.i = Len(s) /\ s # <<>>
    BY <1>4 DEF AtEnd
  <2>2. Fits(token, s) /\ IsToken(token) /\ Len(s) \in 1 .. Len(s)
    BY <1>1, <1>4, <2>1 DEF Fits, IsToken
  <2>3. RunToken(token, s) = Counting(s, Len(s), token.counter)
    BY <1>4, <2>1, <2>2 DEF RunToken, Counting
  <2> QED
    BY <1>4, <2>2, <2>3, CountingIs
<1> QED
  BY <1>2, <1>3, <1>4 DEF AtEnd


-----------------------------------------------------------------------------
(* Running the tokens.                                                     *)

(* g is the loop stack on its way back: g[k] is what it is when the tokens *)
(* above k have been run.                                                  *)
Back(g, n) == g[Len(tokens)] = loops /\ \A k \in n .. (Len(tokens) - 1) : g[k] = RunToken(tokens[k + 1], g[k + 1])

LEMMA BackIsUnique ==
  ASSUME Len(tokens) \in Nat, NEW n \in 0 .. Len(tokens), NEW g, Back(g, n), NEW f,
         f = [k \in n .. Len(tokens) |->
                IF k = Len(tokens) THEN loops ELSE RunToken(tokens[k + 1], f[k + 1])]
  PROVE  \A k \in n .. Len(tokens) : f[k] = g[k]
<1> DEFINE N == Len(tokens)
           S == {j \in Nat : j <= N - n => f[N - j] = g[N - j]}
<1>1. f[N] = loops /\ g[N] = loops
  BY DEF Back
<1>2. 0 \in S
  BY <1>1
<1>3. ASSUME NEW j \in Nat, j \in S PROVE j + 1 \in S
  <2> SUFFICES ASSUME j + 1 <= N - n PROVE f[N - (j + 1)] = g[N - (j + 1)]
    OBVIOUS
  <2> DEFINE k == N - (j + 1)
  <2>1. k \in n .. (N - 1) /\ k + 1 = N - j /\ k # N /\ k \in n .. N
    OBVIOUS
  <2>2. f[N - j] = g[N - j]
    BY <1>3
  <2> HIDE DEF k
  <2>3. f[k] = RunToken(tokens[k + 1], f[k + 1])
    BY <2>1
  <2>4. g[k] = RunToken(tokens[k + 1], g[k + 1])
    BY <2>1 DEF Back
  <2>5. f[k] = g[k]
    BY <2>1, <2>2, <2>3, <2>4
  <2> QED
    BY <2>5 DEF k
<1> HIDE DEF S
<1>4. Nat \subseteq S
  BY <1>2, <1>3, SetInduction
<1>5. ASSUME NEW k \in n .. N PROVE f[k] = g[k]
  <2>1. N - k \in Nat /\ N - k <= N - n /\ N - (N - k) = k
    OBVIOUS
  <2>2. N - k \in S
    BY <1>4, <2>1
  <2> QED
    BY <2>1, <2>2 DEF S
<1> QED
  BY <1>5

LEMMA BackExists ==
  ASSUME Len(tokens) \in Nat, NEW n \in 0 .. Len(tokens), NEW g, Back(g, n)
  PROVE  \E f : f = [k \in n .. Len(tokens) |->
                       IF k = Len(tokens) THEN loops ELSE RunToken(tokens[k + 1], f[k + 1])]
<1> DEFINE N == Len(tokens)
           f == [k \in n .. N |-> g[k]]
           h == [k \in n .. N |-> IF k = N THEN loops ELSE RunToken(tokens[k + 1], f[k + 1])]
<1>1. ASSUME NEW k \in n .. N PROVE f[k] = h[k]
  <2>1. CASE k = N
    BY <2>1 DEF Back
  <2>2. CASE k # N
    <3>1. k \in n .. (N - 1) /\ k + 1 \in n .. N
      BY <2>2
    <3>2. f[k + 1] = g[k + 1] /\ f[k] = g[k]
      BY <3>1
    <3>3. g[k] = RunToken(tokens[k + 1], g[k + 1])
      BY <3>1 DEF Back
    <3>4. h[k] = RunToken(tokens[k + 1], f[k + 1])
      BY <2>2
    <3> QED
      BY <3>2, <3>3, <3>4
  <2> QED
    BY <2>1, <2>2
<1>2. f = [k \in n .. N |-> f[k]] /\ h = [k \in n .. N |-> h[k]]
  OBVIOUS
<1> HIDE DEF f
<1>3. f = h
  <2> HIDE DEF h
  <2> QED
    BY <1>1, <1>2
<1> QED
  BY <1>3

Undoing(n) == CHOOSE f : f = [k \in n .. Len(tokens) |->
                                IF k = Len(tokens) THEN loops ELSE RunToken(tokens[k + 1], f[k + 1])]

LEMMA UndoingIs ==
  ASSUME Len(tokens) \in Nat, NEW n \in 0 .. Len(tokens), NEW g, Back(g, n)
  PROVE  \A k \in n .. Len(tokens) : Undoing(n)[k] = g[k]
<1> DEFINE F(f) == f = [k \in n .. Len(tokens) |->
                          IF k = Len(tokens) THEN loops ELSE RunToken(tokens[k + 1], f[k + 1])]
           f0 == CHOOSE f : F(f)
<1>1. \E f : F(f)
  BY BackExists
<1> HIDE DEF F
<1>2. F(f0)
  BY <1>1
<1>3. Undoing(n) = f0
  BY DEF Undoing, F
<1> HIDE DEF f0
<1>4. \A k \in n .. Len(tokens) : f0[k] = g[k]
  BY <1>2, BackIsUnique DEF F
<1> QED
  BY <1>3, <1>4

LEMMA UndoneIs ==
  ASSUME Len(tokens) \in Nat, NEW n \in 0 .. Len(tokens), NEW g, Back(g, n)
  PROVE  Undone(n) = g[n]
<1>1. Undone(n) = Undoing(n)[n]
  BY DEF Undone, Undoing
<1> QED
  BY <1>1, UndoingIs

LEMMA FitsAll ==
  ASSUME Len(tokens) \in Nat, NEW g, Back(g, 0), DOMAIN tokens = 1 .. Len(tokens),
         \A k \in 1 .. Len(tokens) : Fits(tokens[k], g[k])
  PROVE  TokensFit
<1>1. TokensFit <=> \A k \in DOMAIN tokens : Fits(tokens[k], Undoing(0)[k])
  BY DEF TokensFit, Undoing
<1>2. 0 \in 0 .. Len(tokens)
  OBVIOUS
<1>3. \A k \in 0 .. Len(tokens) : Undoing(0)[k] = g[k]
  BY <1>2, UndoingIs
<1> QED
  BY <1>1, <1>3

(* Whatever tokens there are, running them leaves a loop stack.            *)
FieldsOf(c) == {c.pc, c.counter, c.brace, c.pass}
Fields ==
  {0, FALSE} \cup (UNION {FieldsOf(loops[i]) : i \in 1 .. Len(loops)})
    \cup (UNION {FieldsOf(tokens[k].ctx) \cup {tokens[k].counter} : k \in 1 .. Len(tokens)})
Contexts == [pc : Fields, counter : Fields, brace : Fields, pass : Fields]

LEMMA RunStaysStack ==
  ASSUME IsSeq(tokens), NEW k \in 1 .. Len(tokens), IsToken(tokens[k]), NEW s \in Seq(Contexts)
  PROVE  RunToken(tokens[k], s) \in Seq(Contexts)
<1> DEFINE t == tokens[k]
<1>1. IsToken(t)
  OBVIOUS
<1> HIDE DEF t
<1>2. {t.ctx.pc, t.ctx.counter, t.ctx.brace, t.ctx.pass, t.counter} \subseteq Fields
  <2>1. FieldsOf(t.ctx) \cup {t.counter} \subseteq Fields
    BY Zenon DEF Fields, t
  <2> QED
    BY <2>1 DEF FieldsOf
<1>3. CASE t.op = "remove"
  <2>1. RunToken(t, s) = IF Fits(t, s) THEN RemoveAt(s, t.i) ELSE s
    BY <1>3 DEF RunToken
  <2>2. t.i \in Nat \ {0}
    BY <1>1, <1>3 DEF IsToken
  <2>3. Fits(t, s) => t.i \in 1 .. Len(s)
    BY <1>3, <2>2 DEF Fits
  <2>4. Fits(t, s) => RemoveAt(s, t.i) \in Seq(Contexts)
    BY <2>3, RemoveAtProps
  <2> QED
    BY <2>1, <2>4 DEF t
<1>4. CASE t.op = "set"
  <2>1. RunToken(t, s) = IF Fits(t, s) THEN [s EXCEPT ![t.i].counter = t.counter] ELSE s
    BY <1>4 DEF RunToken
  <2>2. t.i \in Nat \ {0}
    BY <1>1, <1>4 DEF IsToken
  <2>3. Fits(t, s) => t.i \in 1 .. Len(s)
    BY <1>4, <2>2 DEF Fits
  <2>4. ASSUME Fits(t, s) PROVE [s EXCEPT ![t.i].counter = t.counter] \in Seq(Contexts)
    <3>1. t.counter \in Fields /\ s[t.i] \in Contexts
      BY <1>2, <2>3, <2>4
    <3>2. [s[t.i] EXCEPT !.counter = t.counter] \in Contexts
      BY <3>1 DEF Contexts
    <3>3. [s EXCEPT ![t.i] = [s[t.i] EXCEPT !.counter = t.counter]] \in Seq(Contexts)
      BY <3>2, ExceptProps
    <3> QED
      BY <3>3
  <2> QED
    BY <2>1, <2>4 DEF t
<1>5. CASE t.op = "insert"
  <2>1. RunToken(t, s) = IF Fits(t, s) THEN InsertAt(s, t.i, t.ctx)
                         ELSE s \o [j \in 1..(t.i - 1 - Len(s)) |-> Unknown] \o <<t.ctx>>
    BY <1>5 DEF RunToken
  <2>2. t.i \in Nat \ {0} /\ IsCtx(t.ctx)
    BY <1>1, <1>5 DEF IsToken
  <2>3. t.ctx \in Contexts
    <3>1. [pc |-> t.ctx.pc, counter |-> t.ctx.counter, brace |-> t.ctx.brace, pass |-> t.ctx.pass] \in Contexts
      BY <1>2 DEF Contexts
    <3> QED
      BY <2>2, <3>1 DEF IsCtx
  <2>4. ASSUME Fits(t, s) PROVE InsertAt(s, t.i, t.ctx) \in Seq(Contexts)
    <3>1. t.i \in 1 .. (Len(s) + 1)
      BY <1>5, <2>2, <2>4 DEF Fits
    <3> QED
      BY <2>3, <3>1, InsertAtProps
  <2>5. ASSUME ~Fits(t, s) PROVE s \o [j \in 1..(t.i - 1 - Len(s)) |-> Unknown] \o <<t.ctx>> \in Seq(Contexts)
    <3> DEFINE m == t.i - 1 - Len(s)
               u == [j \in 1..m |-> Unknown]
    <3>1. m \in Nat
      BY <1>5, <2>2, <2>5 DEF Fits
    <3>2. 0 \in Fields /\ FALSE \in Fields
      BY DEF Fields
    <3>3. Unknown \in Contexts
      BY <3>2 DEF Unknown, Contexts
    <3> HIDE DEF m
    <3>4. u \in Seq(Contexts)
      BY <3>1, <3>3
    <3> HIDE DEF u
    <3>5. s \o u \o <<t.ctx>> \in Seq(Contexts)
      BY <2>3, <3>4
    <3> QED
      BY <3>5 DEF u, m
  <2> QED
    BY <2>1, <2>4, <2>5 DEF t
<1> QED
  BY <1>1, <1>3, <1>4, <1>5 DEF IsToken

LEMMA UndoneStack ==
  ASSUME LoopStack(loops), IsSeq(tokens), \A k \in 1 .. Len(tokens) : IsToken(tokens[k]),
         NEW n \in 0 .. Len(tokens)
  PROVE  LoopStack(Undone(n))
<1> DEFINE N == Len(tokens)
           M == N - n
           U == Seq(Contexts)
           G == [m \in 1 .. M |-> [s \in U |-> RunToken(tokens[N - m + 1], s)]]
<1>1. N \in Nat /\ M \in Nat
  BY DEF IsSeq
<1>2. loops \in U
  <2>1. ASSUME NEW i \in 1 .. Len(loops) PROVE loops[i] \in Contexts
    <3>1. {loops[i].pc, loops[i].counter, loops[i].brace, loops[i].pass} \subseteq Fields
      <4>1. FieldsOf(loops[i]) \subseteq Fields
        BY Zenon DEF Fields
      <4> QED
        BY <4>1 DEF FieldsOf
    <3>2. [pc |-> loops[i].pc, counter |-> loops[i].counter, brace |-> loops[i].brace, pass |-> loops[i].pass]
            \in Contexts
      BY <3>1 DEF Contexts
    <3> QED
      BY <3>2 DEF LoopStack, IsCtx
  <2>2. loops = [i \in 1 .. Len(loops) |-> loops[i]] /\ Len(loops) \in Nat
    BY DEF LoopStack, IsSeq
  <2> QED
    BY <2>1, <2>2
<1>3. ASSUME NEW m \in 1 .. M, NEW s \in U PROVE RunToken(tokens[N - m + 1], s) \in U
  <2>1. N - m + 1 \in 1 .. N
    BY <1>1
  <2> QED
    BY <2>1, RunStaysStack
<1> HIDE DEF U
<1>4. G \in [1 .. M -> [U -> U]]
  BY <1>3
<1> HIDE DEF M
<1>5. \A m \in 1 .. M : \A s \in U : G[m][s] = RunToken(tokens[N - m + 1], s)
  OBVIOUS
<1> HIDE DEF G
<1>6. PICK h : Steps(h, U, loops, M, G)
  BY <1>1, <1>2, <1>4, StepsExist
<1>7. h \in [0 .. M -> U] /\ h[0] = loops /\ \A m \in 1 .. M : h[m] = G[m][h[m - 1]]
  BY <1>6 DEF Steps
<1> DEFINE g == [k \in n .. N |-> h[N - k]]
<1>8. g[N] = loops /\ g[n] = h[M] /\ h[M] \in U
  BY <1>1, <1>7 DEF M
<1>9. ASSUME NEW k \in n .. (N - 1) PROVE g[k] = RunToken(tokens[k + 1], g[k + 1])
  <2> DEFINE m == N - k
  <2>1. m \in 1 .. M /\ m - 1 \in 0 .. M /\ N - m + 1 = k + 1 /\ N - (k + 1) = m - 1 /\ k + 1 \in n .. N /\ k \in n .. N
    BY <1>1 DEF M
  <2>2. g[k] = h[m] /\ g[k + 1] = h[m - 1]
    BY <2>1
  <2> HIDE DEF m, g
  <2>3. h[m] = G[m][h[m - 1]] /\ h[m - 1] \in U
    BY <1>7, <2>1
  <2>4. h[m] = RunToken(tokens[N - m + 1], h[m - 1])
    BY <1>5, <2>1, <2>3
  <2> QED
    BY <2>1, <2>2, <2>4
<1> HIDE DEF g
<1>10. Undone(n) = g[n]
  BY <1>1, <1>8, <1>9, UndoneIs DEF Back
<1>11. Undone(n) \in Seq(Contexts)
  BY <1>8, <1>10 DEF U
<1>12. \A c \in Contexts : IsCtx(c)
  BY DEF Contexts, IsCtx
<1> QED
  BY <1>11, <1>12, SeqIs DEF LoopStack


-----------------------------------------------------------------------------
(* What a step does to frames, loops and tokens.                           *)

LikeTop(f) == DOMAIN f = DOMAIN top /\ f.fp = top.fp
TopKept == frames' = frames \/ \E f : LikeTop(f) /\ Put(f)

(* Nothing; a loop is entered; it is left, by ; perhaps without a token;   *)
(* one iteration less; a macro is called; it ends.                         *)
Rests == TopKept /\ UNCHANGED <<loops, tokens>>
Enters ==
  /\ TopKept
  /\ \E c : IsCtx(c) /\ loops' = Append(loops, c)
  /\ tokens' = Append(tokens, [op |-> "remove", i |-> Len(loops) + 1])
Leaves ==
  /\ TopKept /\ InLoop /\ loops' = Front(loops)
  /\ \/ tokens' = Append(tokens, [op |-> "insert", i |-> Len(loops), ctx |-> ctx])
     \/ tokens' = tokens /\ Break /\ err' # "none"
Counts ==
  /\ TopKept /\ InLoop /\ loops' = Counting(loops, Len(loops), ctx.counter - 1)
  /\ tokens' = IF AtCommandLine
               THEN Append(tokens, [op |-> "set", i |-> Len(loops), counter |-> ctx.counter]) ELSE tokens
Calls ==
  /\ \E f, g : /\ LikeTop(f) /\ DOMAIN g = DOMAIN CommandLine /\ g.fp = Len(loops)
               /\ frames' = Append(Append(Front(frames), f), g)
  /\ UNCHANGED <<loops, tokens>>
Ends ==
  /\ Len(frames) > 1 /\ frames' = Front(frames)
  /\ loops' = SubSeq(loops, 1, top.fp) /\ tokens' = tokens
  /\ InLoop => Return /\ err' = "none"

LEMMA PutKeeps ==
  ASSUME NEW f, LikeTop(f), Put(f) PROVE TopKept
BY DEF TopKept

LEMMA FinishKeeps ==
  ASSUME NEW y, NEW f, LikeTop(f), Finish(y, f) PROVE TopKept
BY PutKeeps DEF Finish, TopKept

LEMMA ThrowRests ==
  ASSUME NEW why, Throw(why) PROVE Rests
BY DEF Throw, Rests, TopKept

LEMMA LikeNext ==
  ASSUME "fp" \in DOMAIN top
  PROVE  /\ LikeTop(top) /\ LikeTop(next)
         /\ \A v : LikeTop([next EXCEPT !.colon = v]) /\ LikeTop([next EXCEPT !.mode = v])
         /\ \A v : LikeTop([next EXCEPT !.nest = v]) /\ LikeTop([next EXCEPT !.esc = v])
         /\ \A v : LikeTop([next EXCEPT !.ctlc = v]) /\ LikeTop([top EXCEPT !.ctlc = v])
         /\ \A v : LikeTop([next EXCEPT !.pc = v])
         /\ \A v, w : LikeTop([next EXCEPT !.colon = v, !.mode = w]) /\ LikeTop([next EXCEPT !.pc = v, !.colon = w])
BY DEF LikeTop, next

LEMMA QuietSteps ==
  ASSUME "fp" \in DOMAIN top,
         Calculate \/ Effect \/ Escape \/ Colon \/ Reject \/ Ignore \/ LoopStart \/ SkipLoop
           \/ Condition \/ Skips \/ SkipCondition \/ ControlC \/ Exit \/ PassControlC
  PROVE  Rests
<1>1. CASE Calculate
  <2>1. TopKept /\ UNCHANGED <<loops, tokens>>
    BY <1>1, LikeNext, FinishKeeps DEF Calculate
  <2> QED
    BY <2>1 DEF Rests
<1>2. CASE Effect
  <2>1. TopKept /\ UNCHANGED <<loops, tokens>>
    BY <1>2, LikeNext, FinishKeeps DEF Effect
  <2> QED
    BY <2>1 DEF Rests
<1>3. CASE Escape
  <2>1. TopKept /\ UNCHANGED <<loops, tokens>>
    BY <1>3, LikeNext, PutKeeps DEF Escape
  <2> QED
    BY <2>1 DEF Rests
<1>4. CASE Colon
  <2>1. TopKept /\ UNCHANGED <<loops, tokens>>
    BY <1>4, LikeNext, FinishKeeps DEF Colon
  <2> QED
    BY <2>1 DEF Rests
<1>5. CASE Reject
  BY <1>5, ThrowRests DEF Reject
<1>6. CASE Ignore
  <2>1. TopKept /\ UNCHANGED <<loops, tokens>>
    BY <1>6, LikeNext, PutKeeps DEF Ignore
  <2> QED
    BY <2>1 DEF Rests
<1>7. CASE LoopStart
  <2>1. LikeTop(IF InLoop THEN [next EXCEPT !.pc = ctx.pc, !.colon = 0] ELSE [next EXCEPT !.pc = 1])
    BY LikeNext
  <2>2. TopKept /\ UNCHANGED <<loops, tokens>>
    BY <1>7, <2>1, FinishKeeps DEF LoopStart
  <2> QED
    BY <2>2 DEF Rests
<1>8. CASE SkipLoop
  <2>1. LikeTop(IF cmd = "<" THEN [next EXCEPT !.nest = @ + 1]
                ELSE IF top.nest > 0 THEN [next EXCEPT !.nest = @ - 1] ELSE [next EXCEPT !.mode = "normal"])
    BY LikeNext
  <2>2. TopKept /\ UNCHANGED <<loops, tokens>>
    BY <1>8, <2>1, PutKeeps DEF SkipLoop
  <2> QED
    BY <2>2 DEF Rests
<1>9. CASE Condition
  <2>1. PICK y : \/ ~OK(y) /\ Throw(y.err)
                 \/ OK(y) /\ Args(y) = 0 /\ Throw("Argument expected")
                 \/ /\ OK(y) /\ Args(y) > 0
                    /\ Finish(PopNum(y), [next EXCEPT !.mode = IF TopNum(y) # 0 THEN "normal" ELSE "cond"])
                    /\ UNCHANGED <<loops, skip, backup, trace, tokens>>
    BY <1>9 DEF Condition
  <2>2. CASE \E why : Throw(why)
    BY <2>2, ThrowRests
  <2>3. CASE /\ Finish(PopNum(y), [next EXCEPT !.mode = IF TopNum(y) # 0 THEN "normal" ELSE "cond"])
             /\ UNCHANGED <<loops, skip, backup, trace, tokens>>
    <3>1. LikeTop([next EXCEPT !.mode = IF TopNum(y) # 0 THEN "normal" ELSE "cond"])
      BY LikeNext
    <3>2. TopKept
      BY <2>3, <3>1, FinishKeeps
    <3> QED
      BY <2>3, <3>2 DEF Rests
  <2> QED
    BY <2>1, <2>2, <2>3
<1>10. CASE Skips
  <2> DEFINE m == CASE cmd \in {"|", "F|"} -> "cond" [] cmd = "F'" -> "force" [] OTHER -> "normal"
  <2>1. Finish(X, [next EXCEPT !.mode = m]) /\ UNCHANGED <<loops, tokens>>
    BY <1>10 DEF Skips
  <2> HIDE DEF m
  <2>2. LikeTop([next EXCEPT !.mode = m])
    BY LikeNext
  <2> QED
    BY <2>1, <2>2, FinishKeeps DEF Rests
<1>11. CASE SkipCondition
  <2>1. LikeTop(IF cmd = "?" THEN [next EXCEPT !.nest = @ + 1]
                ELSE IF top.nest > 0 THEN [next EXCEPT !.nest = @ - 1] ELSE [next EXCEPT !.mode = "normal"])
    BY LikeNext
  <2>2. TopKept /\ UNCHANGED <<loops, tokens>>
    BY <1>11, <2>1, PutKeeps DEF SkipCondition
  <2> QED
    BY <2>2 DEF Rests
<1>12. CASE ControlC
  <2>1. CASE Throw("^C is not allowed to terminate command-lines")
    BY <2>1, ThrowRests
  <2>2. CASE Put([next EXCEPT !.ctlc = TRUE]) /\ UNCHANGED <<loops, tokens>>
    BY <2>2, LikeNext, PutKeeps DEF Rests
  <2> QED
    BY <1>12, <2>1, <2>2 DEF ControlC
<1>13. CASE Exit
  <2>1. CASE Throw("^C^C not allowed in interactive mode")
    BY <2>1, ThrowRests
  <2>2. CASE UNCHANGED <<frames, loops, tokens>>
    BY <2>2 DEF Rests, TopKept
  <2> QED
    BY <1>13, <2>1, <2>2 DEF Exit
<1>14. CASE PassControlC
  <2>1. LikeTop([(IF cmd = "^C" THEN next ELSE top) EXCEPT !.ctlc = FALSE])
    <3>1. CASE cmd = "^C"
      BY <3>1, LikeNext
    <3>2. CASE cmd # "^C"
      BY <3>2, LikeNext
    <3> QED
      BY <3>1, <3>2
  <2>2. TopKept /\ UNCHANGED <<loops, tokens>>
    BY <1>14, <2>1, PutKeeps DEF PassControlC
  <2> QED
    BY <2>2 DEF Rests
<1> QED
  BY <1>1, <1>2, <1>3, <1>4, <1>5, <1>6, <1>7, <1>8, <1>9, <1>10, <1>11, <1>12, <1>13, <1>14


LEMMA GotoSteps ==
  ASSUME "fp" \in DOMAIN top, Label \/ Goto \/ GiveUpGoto
  PROVE  Rests
<1>1. CASE Label
  <2> DEFINE l == LabelOf(cmd)
             f == [next EXCEPT !.table[l] = IF top.table[l] = 0 THEN next.pc ELSE @]
             g == IF top.table[l] = 0 /\ skip = l THEN [f EXCEPT !.mode = "normal"] ELSE f
  <2>1. Put(g) /\ UNCHANGED <<loops, tokens>>
    BY <1>1 DEF Label
  <2>2. LikeTop(f)
    BY LikeNext DEF LikeTop
  <2> HIDE DEF f
  <2>3. LikeTop(g)
    BY <2>2 DEF LikeTop
  <2> QED
    BY <2>1, <2>3, PutKeeps DEF Rests
<1>2. CASE Goto
  <2> DEFINE f == [next EXCEPT !.colon = 0]
  <2>1. PICK y : \/ \E why : Throw(why)
                 \/ Finish(y, f) /\ UNCHANGED <<loops, tokens>>
                 \/ \E l : GotoLabel(y, f, l)
    BY <1>2 DEF Goto
  <2>2. LikeTop(f)
    BY LikeNext
  <2> HIDE DEF f
  <2>3. CASE \E why : Throw(why)
    BY <2>3, ThrowRests
  <2>4. CASE Finish(y, f) /\ UNCHANGED <<loops, tokens>>
    BY <2>2, <2>4, FinishKeeps DEF Rests
  <2>5. ASSUME NEW l, GotoLabel(y, f, l) PROVE Rests
    <3>1. CASE Finish(y, [f EXCEPT !.pc = top.table[l]]) /\ UNCHANGED <<loops, tokens>>
      <4>1. LikeTop([f EXCEPT !.pc = top.table[l]])
        BY <2>2 DEF LikeTop
      <4> QED
        BY <3>1, <4>1, FinishKeeps DEF Rests
    <3>2. CASE Finish(y, [f EXCEPT !.mode = "goto"]) /\ UNCHANGED <<loops, tokens>>
      <4>1. LikeTop([f EXCEPT !.mode = "goto"])
        BY <2>2 DEF LikeTop
      <4> QED
        BY <3>2, <4>1, FinishKeeps DEF Rests
    <3>3. CASE Finish(y, f) /\ UNCHANGED <<loops, tokens>>
      BY <2>2, <3>3, FinishKeeps DEF Rests
    <3>4. CASE \E why : Throw(why)
      BY <3>4, ThrowRests
    <3>5. \/ Finish(y, [f EXCEPT !.pc = top.table[l]]) /\ UNCHANGED <<loops, tokens>>
          \/ Finish(y, [f EXCEPT !.mode = "goto"]) /\ UNCHANGED <<loops, tokens>>
          \/ Finish(y, f) /\ UNCHANGED <<loops, tokens>>
          \/ Throw(LabelError(skip))
      BY <2>5, Zenon DEF GotoLabel
    <3> QED
      BY <3>1, <3>2, <3>3, <3>4, <3>5
  <2> QED
    BY <2>1, <2>3, <2>4, <2>5
<1>3. CASE GiveUpGoto
  <2> DEFINE g == [top EXCEPT !.pc = backup, !.esc = FALSE, !.ctlc = FALSE, !.mode = "normal", !.complete = TRUE]
  <2>1. Put(g) /\ UNCHANGED <<loops, tokens>>
    BY <1>3 DEF GiveUpGoto
  <2>2. LikeTop(g)
    BY DEF LikeTop
  <2> HIDE DEF g
  <2> QED
    BY <2>1, <2>2, PutKeeps DEF Rests
<1> QED
  BY <1>1, <1>2, <1>3

LEMMA EnterStep ==
  ASSUME "fp" \in DOMAIN top, LoopOpen
  PROVE  Rests \/ Enters
<1> DEFINE arg == PopNumCalc(X, -1)
           pass == top.colon > 0
<1>1. \/ Throw(arg.x.err)
      \/ /\ Finish(IF pass THEN arg.x ELSE BraceOpen(arg.x), [next EXCEPT !.colon = 0])
         /\ loops' = Append(loops, [pc |-> next.pc, counter |-> arg.n, brace |-> arg.x.level, pass |-> pass])
         /\ Remember([op |-> "remove", i |-> Len(loops) + 1])
      \/ Finish(arg.x, [next EXCEPT !.colon = 0, !.mode = "loop"]) /\ UNCHANGED <<loops, tokens>>
  BY DEF LoopOpen
<1> HIDE DEF arg, pass
<1>2. CASE Throw(arg.x.err)
  BY <1>2, ThrowRests
<1>3. CASE /\ Finish(IF pass THEN arg.x ELSE BraceOpen(arg.x), [next EXCEPT !.colon = 0])
           /\ loops' = Append(loops, [pc |-> next.pc, counter |-> arg.n, brace |-> arg.x.level, pass |-> pass])
           /\ Remember([op |-> "remove", i |-> Len(loops) + 1])
  <2> DEFINE c == [pc |-> next.pc, counter |-> arg.n, brace |-> arg.x.level, pass |-> pass]
  <2>1. TopKept
    BY <1>3, LikeNext, FinishKeeps
  <2>2. tokens' = Append(tokens, [op |-> "remove", i |-> Len(loops) + 1])
    BY <1>3, SessionAssumption DEF Remember
  <2>3. IsCtx(c)
    BY DEF IsCtx
  <2> HIDE DEF c
  <2>4. loops' = Append(loops, c)
    BY <1>3 DEF c
  <2> QED
    BY <2>1, <2>2, <2>3, <2>4 DEF Enters
<1>4. CASE Finish(arg.x, [next EXCEPT !.colon = 0, !.mode = "loop"]) /\ UNCHANGED <<loops, tokens>>
  BY <1>4, LikeNext, FinishKeeps DEF Rests
<1> QED
  BY <1>1, <1>2, <1>3, <1>4

LEMMA TopLoop ==
  ASSUME top.fp \in Nat, LoopStack(loops), InLoop
  PROVE  /\ loops # <<>> /\ Len(loops) \in Nat /\ Len(loops) \in 1 .. Len(loops)
         /\ ctx = loops[Len(loops)] /\ IsCtx(ctx)
<1>1. loops # <<>> /\ IsSeq(loops)
  BY DEF InLoop, LoopStack, IsSeq
<1> QED
  BY <1>1, FrontIs, FrontStack DEF ctx

LEMMA CloseStep ==
  ASSUME "fp" \in DOMAIN top, top.fp \in Nat, LoopStack(loops), NEW f, LikeTop(f), CloseLoop(f)
  PROVE  Rests \/ Leaves \/ Counts
<1>1. CASE \E why : Throw(why)
  BY <1>1, ThrowRests
<1>2. CASE InLoop /\ \E y \in {EndIteration(X)} :
        \/ ~OK(y) /\ Throw(y.err)
        \/ /\ OK(y) /\ ctx.counter = 1
           /\ Finish(y, f)
           /\ loops' = Front(loops)
           /\ Remember([op |-> "insert", i |-> Len(loops), ctx |-> ctx])
           /\ UNCHANGED <<skip, backup, trace>>
        \/ /\ OK(y) /\ ctx.counter # 1
           /\ Finish(y, [next EXCEPT !.pc = ctx.pc, !.colon = 0])
           /\ IF ctx.counter >= 0 THEN CountDown ELSE UNCHANGED <<loops, tokens>>
           /\ UNCHANGED <<skip, backup, trace>>
  <2>1. PICK y : 
        \/ Throw(y.err)
        \/ Finish(y, f) /\ loops' = Front(loops) /\ Remember([op |-> "insert", i |-> Len(loops), ctx |-> ctx])
        \/ /\ Finish(y, [next EXCEPT !.pc = ctx.pc, !.colon = 0])
           /\ CountDown \/ UNCHANGED <<loops, tokens>>
    BY <1>2
  <2>2. CASE Finish(y, f) /\ loops' = Front(loops) /\ Remember([op |-> "insert", i |-> Len(loops), ctx |-> ctx])
    BY <1>2, <2>2, FinishKeeps, SessionAssumption DEF Leaves, Remember
  <2>3. CASE Finish(y, [next EXCEPT !.pc = ctx.pc, !.colon = 0]) /\ CountDown
    <3>1. TopKept
      BY <2>3, LikeNext, FinishKeeps
    <3>2. tokens' = IF AtCommandLine
               THEN Append(tokens, [op |-> "set", i |-> Len(loops), counter |-> ctx.counter]) ELSE tokens
      BY <2>3, SessionAssumption DEF CountDown, Remember
    <3>3. loops' = [loops EXCEPT ![Len(loops)].counter = @ - 1]
      BY <2>3 DEF CountDown
    <3>4. loops' = Counting(loops, Len(loops), ctx.counter - 1)
      <4>1. Len(loops) \in DOMAIN loops /\ ctx = loops[Len(loops)] /\ "counter" \in DOMAIN ctx
        <5>1. Len(loops) \in 1 .. Len(loops) /\ ctx = loops[Len(loops)] /\ IsCtx(ctx)
          BY <1>2, TopLoop
        <5> QED
          BY <5>1 DEF LoopStack, IsSeq, IsCtx
      <4> QED
        BY <3>3, <4>1 DEF Counting
    <3> QED
      BY <1>2, <3>1, <3>2, <3>4 DEF Counts
  <2>4. CASE Finish(y, [next EXCEPT !.pc = ctx.pc, !.colon = 0]) /\ UNCHANGED <<loops, tokens>>
    BY <2>4, LikeNext, FinishKeeps DEF Rests
  <2>5. CASE Throw(y.err)
    BY <2>5, ThrowRests
  <2> QED
    BY <2>1, <2>2, <2>3, <2>4, <2>5
<1> QED
  BY <1>1, <1>2 DEF CloseLoop


LEMMA LeaveSteps ==
  ASSUME "fp" \in DOMAIN top, top.fp \in Nat, LoopStack(loops), LoopClose \/ LoopEnd \/ Break
  PROVE  Rests \/ Leaves \/ Counts
<1>1. CASE LoopClose
  BY <1>1, LikeNext, CloseStep DEF LoopClose
<1>2. CASE LoopEnd
  BY <1>2, LikeNext, CloseStep DEF LoopEnd
<1>3. CASE Break
  <2>1. CASE Throw("; only allowed in loops")
    BY <2>1, ThrowRests
  <2>2. CASE ~Throw("; only allowed in loops")
    <3>1. PICK arg :
       \/ Throw(arg.x.err)
       \/ Finish(arg.x, [next EXCEPT !.colon = 0]) /\ UNCHANGED <<loops, tokens>>
       \/ /\ InLoop /\ loops' = Front(loops)
          /\ \E z : /\ Finish(z, [next EXCEPT !.colon = 0, !.mode = "loop"])
                    /\ IF OK(z) THEN Remember([op |-> "insert", i |-> Len(loops), ctx |-> ctx])
                                ELSE tokens' = tokens
      BY <1>3, <2>2 DEF Break
    <3>2. CASE Throw(arg.x.err)
      BY <3>2, ThrowRests
    <3>3. CASE Finish(arg.x, [next EXCEPT !.colon = 0]) /\ UNCHANGED <<loops, tokens>>
      BY <3>3, LikeNext, FinishKeeps DEF Rests
    <3>4. CASE /\ InLoop /\ loops' = Front(loops)
               /\ \E z : /\ Finish(z, [next EXCEPT !.colon = 0, !.mode = "loop"])
                         /\ IF OK(z) THEN Remember([op |-> "insert", i |-> Len(loops), ctx |-> ctx])
                                     ELSE tokens' = tokens
      <4>1. PICK z : /\ Finish(z, [next EXCEPT !.colon = 0, !.mode = "loop"])
                     /\ IF OK(z) THEN Remember([op |-> "insert", i |-> Len(loops), ctx |-> ctx])
                                 ELSE tokens' = tokens
        BY <3>4
      <4>2. TopKept
        BY <4>1, LikeNext, FinishKeeps
      <4>3. CASE OK(z)
        BY <3>4, <4>1, <4>2, <4>3, SessionAssumption DEF Leaves, Remember
      <4>4. CASE ~OK(z)
        <5>1. err' # "none"
          BY <4>1, <4>4 DEF Finish, OK
        <5> QED
          BY <1>3, <3>4, <4>1, <4>2, <4>4, <5>1 DEF Leaves
      <4> QED
        BY <4>3, <4>4
    <3> QED
      BY <3>1, <3>2, <3>3, <3>4
  <2> QED
    BY <2>1, <2>2
<1> QED
  BY <1>1, <1>2, <1>3

LEMMA CallStep ==
  ASSUME "fp" \in DOMAIN top, Call
  PROVE  Calls
<1>1. PICK text \in Macros :
        frames' = Append(Front(frames), [next EXCEPT !.colon = 0]) \o <<Frame(text)>> /\ UNCHANGED <<loops, tokens>>
  BY DEF Call
<1> DEFINE f == [next EXCEPT !.colon = 0]
           g == Frame(text)
<1>2. LikeTop(f)
  BY LikeNext
<1>3. DOMAIN g = DOMAIN CommandLine /\ g.fp = Len(loops)
  BY DEF Frame, CommandLine
<1>4. Append(Front(frames), f) \o <<g>> = Append(Append(Front(frames), f), g)
  <2> QED OBVIOUS
<1> HIDE DEF f, g
<1>5. frames' = Append(Append(Front(frames), f), g) /\ UNCHANGED <<loops, tokens>>
  BY <1>1, <1>4 DEF f, g
<1> QED
  BY <1>2, <1>3, <1>5 DEF Calls

LEMMA EndSteps ==
  ASSUME frames # <<>>, IsSeq(frames), top.fp \in 0 .. Len(loops), LoopStack(loops), Return \/ EndOfMacro
  PROVE  Rests \/ Ends
<1>1. Len(frames) > 1
  <2>1. ~AtCommandLine
    BY DEF Return, EndOfMacro, Ended
  <2>2. Len(frames) # 1
    <3>1. UndoEnabled
      BY SessionAssumption
    <3> QED
      BY <2>1, <3>1 DEF AtCommandLine
  <2>3. Len(frames) \in Nat /\ Len(frames) >= 1
    BY FrontIs
  <2> DEFINE n == Len(frames)
  <2>4. n \in Nat /\ n # 1 /\ n >= 1
    BY <2>2, <2>3
  <2> HIDE DEF n
  <2>5. n > 1
    BY <2>4
  <2> QED
    BY <2>5 DEF n
<1>2. CASE Return
  <2>1. PICK z : \/ Throw(z.err)
                 \/ /\ loops' = SubSeq(loops, 1, top.fp) /\ frames' = Front(frames)
                    /\ UNCHANGED <<err, tokens>>
    BY <1>2 DEF Return
  <2>2. err = "none"
    BY <1>2 DEF Return, Returns, Running, HasNext, Executes, FollowsControlC
  <2>3. CASE Throw(z.err)
    BY <2>3, ThrowRests
  <2> QED
    BY <1>1, <1>2, <2>1, <2>2, <2>3 DEF Ends
<1>3. CASE EndOfMacro
  <2>1. CASE UNCHANGED <<frames, loops, tokens>>
    BY <2>1 DEF Rests, TopKept
  <2>2. CASE ~InLoop /\ frames' = Front(frames) /\ UNCHANGED <<loops, tokens>>
    <3>1. loops = SubSeq(loops, 1, top.fp)
      <4>1. IsSeq(loops) /\ Len(loops) = top.fp
        BY <2>2 DEF InLoop, LoopStack, IsSeq
      <4>2. IsSeq(SubSeq(loops, 1, top.fp)) /\ Len(SubSeq(loops, 1, top.fp)) = top.fp
            /\ \A j \in 1 .. top.fp : SubSeq(loops, 1, top.fp)[j] = loops[j]
        BY <4>1, PrefixIs
      <4> QED
        BY <4>1, <4>2, EqualSeqs
    <3> QED
      BY <1>1, <2>2, <3>1 DEF Ends
  <2>3. \/ \E why : Throw(why)
        \/ UNCHANGED <<frames, loops, tokens>>
        \/ ~InLoop /\ frames' = Front(frames) /\ UNCHANGED <<loops, tokens>>
    BY <1>3 DEF EndOfMacro
  <2> QED
    BY <2>1, <2>2, <2>3, ThrowRests
<1> QED
  BY <1>2, <1>3

(* Every step is one of these.                                             *)
LEMMA StepKinds ==
  ASSUME frames # <<>>, IsSeq(frames), "fp" \in DOMAIN top, top.fp \in 0 .. Len(loops), LoopStack(loops), Step
  PROVE  Rests \/ Enters \/ Leaves \/ Counts \/ Calls \/ Ends
<1>1. top.fp \in Nat
  BY DEF LoopStack, IsSeq
<1>2. CASE Calculate \/ Effect \/ Escape \/ Colon \/ Reject \/ Ignore \/ LoopStart \/ SkipLoop
           \/ Condition \/ Skips \/ SkipCondition \/ ControlC \/ Exit \/ PassControlC
  BY <1>2, QuietSteps
<1>3. CASE Label \/ Goto \/ GiveUpGoto
  BY <1>3, GotoSteps
<1>4. CASE LoopOpen
  BY <1>4, EnterStep
<1>5. CASE LoopClose \/ LoopEnd \/ Break
  BY <1>1, <1>5, LeaveSteps
<1>6. CASE Call
  BY <1>6, CallStep
<1>7. CASE Return \/ EndOfMacro
  BY <1>7, EndSteps
<1> QED
  BY <1>2, <1>3, <1>4, <1>5, <1>6, <1>7 DEF Step


-----------------------------------------------------------------------------
(* The invariant of the frames.                                            *)

(* Callers have fewer loops than the macros they call, and all frames have *)
(* no more than the n there are; the command line has none.                *)
FramesOK(fs, n) ==
  /\ IsSeq(fs) /\ fs # <<>>
  /\ \A i \in 1 .. Len(fs) : DOMAIN fs[i] = DOMAIN CommandLine /\ fs[i].fp \in 0 .. n
  /\ fs[1].fp = 0
  /\ \A i, j \in 1 .. Len(fs) : i <= j => fs[i].fp <= fs[j].fp

(* Nothing is typed in.                                                    *)
Empty(fs) == Len(fs) = 1 /\ fs[1].text = <<>> /\ fs[1].pc = 1

SessionInv ==
  /\ LoopStack(loops)
  /\ IsSeq(tokens) /\ \A k \in 1 .. Len(tokens) : IsToken(tokens[k])
  /\ FramesOK(frames, Len(loops))
  /\ IsSeq(saved)
  /\ \A i \in 1 .. Len(saved) :
       Len(saved[i].frames) = 1 /\ FramesOK(saved[i].frames, 0) /\ saved[i].tokens \in 0 .. Len(tokens)
  /\ \A i, j \in 1 .. Len(saved) : i <= j => saved[i].tokens <= saved[j].tokens
  /\ IF saved = <<>> THEN err = "none" /\ Empty(frames) ELSE Empty(saved[1].frames)

LEMMA TopFrame ==
  ASSUME NEW n \in Nat, FramesOK(frames, n)
  PROVE  /\ IsSeq(frames) /\ frames # <<>> /\ Len(frames) \in Nat \ {0}
         /\ top = frames[Len(frames)] /\ DOMAIN top = DOMAIN CommandLine /\ "fp" \in DOMAIN top
         /\ top.fp \in 0 .. n
<1>1. IsSeq(frames) /\ frames # <<>>
  BY DEF FramesOK
<1>2. Len(frames) \in Nat \ {0} /\ Last(frames) = frames[Len(frames)]
  BY <1>1, FrontIs
<1>3. Len(frames) \in 1 .. Len(frames)
  BY <1>2
<1>4. DOMAIN frames[Len(frames)] = DOMAIN CommandLine /\ frames[Len(frames)].fp \in 0 .. n
  BY <1>3 DEF FramesOK
<1>5. "fp" \in DOMAIN CommandLine
  BY DEF CommandLine
<1> QED
  BY <1>1, <1>2, <1>4, <1>5 DEF top

(* Another frame on top of the callers.                                    *)
LEMMA PutFrames ==
  ASSUME NEW n \in Nat, FramesOK(frames, n), NEW f, LikeTop(f)
  PROVE  LET fs == Append(Front(frames), f) IN
         /\ IsSeq(fs) /\ Len(fs) = Len(frames) /\ Len(fs) \in Nat \ {0} /\ Last(fs) = f /\ fs # <<>>
         /\ \A i \in 1 .. Len(fs) : DOMAIN fs[i] = DOMAIN CommandLine /\ fs[i].fp = frames[i].fp
<1> DEFINE fs == Append(Front(frames), f)
<1>1. /\ IsSeq(frames) /\ frames # <<>> /\ Len(frames) \in Nat \ {0}
      /\ top = frames[Len(frames)] /\ DOMAIN top = DOMAIN CommandLine
  BY TopFrame
<1>2. /\ IsSeq(Front(frames)) /\ Len(Front(frames)) = Len(frames) - 1
      /\ \A j \in 1 .. (Len(frames) - 1) : Front(frames)[j] = frames[j]
  BY <1>1, FrontIs
<1>3. /\ IsSeq(fs) /\ Len(fs) = Len(Front(frames)) + 1 /\ fs # <<>> /\ Last(fs) = f
      /\ \A j \in 1 .. (Len(Front(frames)) + 1) : fs[j] = IF j = Len(Front(frames)) + 1 THEN f ELSE Front(frames)[j]
  BY <1>2, AppendIs
<1> HIDE DEF fs
<1>4. Len(fs) = Len(frames)
  BY <1>1, <1>2, <1>3
<1>5. ASSUME NEW i \in 1 .. Len(fs) PROVE DOMAIN fs[i] = DOMAIN CommandLine /\ fs[i].fp = frames[i].fp
  <2>1. CASE i = Len(frames)
    <3>1. fs[i] = f
      BY <1>1, <1>2, <1>3, <1>4, <2>1
    <3> QED
      BY <1>1, <2>1, <3>1 DEF LikeTop
  <2>2. CASE i # Len(frames)
    <3>1. i \in 1 .. (Len(frames) - 1) /\ fs[i] = frames[i]
      BY <1>1, <1>2, <1>3, <1>4, <2>2
    <3> QED
      BY <1>4, <3>1 DEF FramesOK
  <2> QED
    BY <2>1, <2>2
<1> QED
  BY <1>1, <1>3, <1>4, <1>5 DEF fs

(* The frames stay right while there are enough loops for the one on top.  *)
LEMMA KeptFrames ==
  ASSUME NEW n \in Nat, FramesOK(frames, n), TopKept, NEW m \in Nat, top.fp <= m
  PROVE  /\ FramesOK(frames', m) /\ Len(frames') = Len(frames)
         /\ \A i \in 1 .. Len(frames) : frames'[i].fp = frames[i].fp
<1>1. /\ IsSeq(frames) /\ frames # <<>> /\ Len(frames) \in Nat \ {0} /\ Len(frames) \in 1 .. Len(frames)
      /\ 1 \in 1 .. Len(frames) /\ top = frames[Len(frames)] /\ top.fp \in 0 .. n
  BY TopFrame
<1>2. \A i \in 1 .. Len(frames) : frames[i].fp \in 0 .. m
  <2> SUFFICES ASSUME NEW i \in 1 .. Len(frames) PROVE frames[i].fp \in 0 .. m
    OBVIOUS
  <2>1. frames[i].fp \in 0 .. n /\ frames[i].fp <= top.fp
    BY <1>1 DEF FramesOK
  <2> QED
    BY <1>1, <2>1
<1>3. CASE frames' = frames
  BY <1>1, <1>2, <1>3 DEF FramesOK
<1>4. CASE \E f : LikeTop(f) /\ Put(f)
  <2>1. PICK f : LikeTop(f) /\ frames' = Append(Front(frames), f)
    BY <1>4 DEF Put
  <2>2. /\ IsSeq(frames') /\ Len(frames') = Len(frames) /\ frames' # <<>>
        /\ \A i \in 1 .. Len(frames') : DOMAIN frames'[i] = DOMAIN CommandLine /\ frames'[i].fp = frames[i].fp
    BY <2>1, PutFrames
  <2>3. frames'[1].fp = 0 /\ \A i, j \in 1 .. Len(frames') : i <= j => frames'[i].fp <= frames'[j].fp
    BY <1>1, <2>2 DEF FramesOK
  <2> QED
    BY <1>2, <2>2, <2>3 DEF FramesOK
<1> QED
  BY <1>3, <1>4 DEF TopKept

(* What is not touched below n stays a loop stack.                         *)
Below(n) == LoopStack(loops') /\ Len(loops') \in Nat /\ n <= Len(loops') /\ \A j \in 1 .. n : loops'[j] = loops[j]

LEMMA StepBelow ==
  ASSUME FramesOK(frames, Len(loops)), LoopStack(loops), Rests \/ Enters \/ Leaves \/ Counts \/ Calls \/ Ends
  PROVE  Below(top.fp)
<1>1. IsSeq(loops) /\ Len(loops) \in Nat /\ top.fp \in 0 .. Len(loops) /\ top.fp \in Nat
  <2>1. IsSeq(loops) /\ Len(loops) \in Nat
    BY DEF LoopStack, IsSeq
  <2> QED
    BY <2>1, TopFrame
<1>2. CASE Rests \/ Calls
  BY <1>1, <1>2 DEF Rests, Calls, Below
<1>3. CASE Enters
  <2>1. PICK c : IsCtx(c) /\ loops' = Append(loops, c)
    BY <1>3 DEF Enters
  <2>2. LoopStack(loops') /\ Len(loops') = Len(loops) + 1
        /\ \A j \in 1 .. (Len(loops) + 1) : loops'[j] = IF j = Len(loops) + 1 THEN c ELSE loops[j]
    BY <1>1, <2>1, AppendStack, AppendIs
  <2> QED
    BY <1>1, <2>2 DEF Below
<1>4. CASE Leaves
  <2>1. loops' = Front(loops) /\ loops # <<>> /\ Len(loops) > top.fp
    BY <1>1, <1>4, TopLoop DEF Leaves, InLoop
  <2>2. LoopStack(loops') /\ Len(loops') = Len(loops) - 1
        /\ \A j \in 1 .. (Len(loops) - 1) : loops'[j] = loops[j]
    BY <1>1, <2>1, FrontStack, FrontIs
  <2> QED
    BY <1>1, <2>1, <2>2 DEF Below
<1>5. CASE Counts
  <2>1. loops' = Counting(loops, Len(loops), ctx.counter - 1) /\ Len(loops) \in 1 .. Len(loops) /\ Len(loops) > top.fp
    BY <1>1, <1>5, TopLoop DEF Counts, InLoop
  <2>2. /\ LoopStack(loops') /\ Len(loops') = Len(loops)
        /\ \A j \in 1 .. Len(loops) : j # Len(loops) => loops'[j] = loops[j]
    BY <1>1, <2>1, CountingIs
  <2> QED
    BY <1>1, <2>1, <2>2 DEF Below
<1>6. CASE Ends
  <2>1. loops' = SubSeq(loops, 1, top.fp)
    BY <1>6 DEF Ends
  <2>2. LoopStack(loops') /\ Len(loops') = top.fp /\ \A j \in 1 .. top.fp : loops'[j] = loops[j]
    BY <1>1, <2>1, PrefixStack, PrefixIs
  <2> QED
    BY <1>1, <2>2 DEF Below
<1> QED
  BY <1>2, <1>3, <1>4, <1>5, <1>6


LEMMA StepFrames ==
  ASSUME FramesOK(frames, Len(loops)), LoopStack(loops), Rests \/ Enters \/ Leaves \/ Counts \/ Calls \/ Ends
  PROVE  FramesOK(frames', Len(loops'))
<1>1. /\ IsSeq(frames) /\ frames # <<>> /\ Len(frames) \in Nat \ {0} /\ Len(loops) \in Nat
      /\ top = frames[Len(frames)] /\ top.fp \in 0 .. Len(loops) /\ Len(frames) \in 1 .. Len(frames)
  <2>1. Len(loops) \in Nat
    BY DEF LoopStack, IsSeq
  <2> QED
    BY <2>1, TopFrame
<1>2. Len(loops') \in Nat /\ top.fp <= Len(loops')
  BY StepBelow DEF Below
<1>3. CASE TopKept
  BY <1>1, <1>2, <1>3, KeptFrames
<1>4. CASE Calls
  <2>1. PICK f, g : /\ LikeTop(f) /\ DOMAIN g = DOMAIN CommandLine /\ g.fp = Len(loops)
                    /\ frames' = Append(Append(Front(frames), f), g) /\ loops' = loops
    BY <1>4 DEF Calls
  <2> DEFINE fs == Append(Front(frames), f)
  <2>2. /\ IsSeq(fs) /\ Len(fs) = Len(frames)
        /\ \A i \in 1 .. Len(fs) : DOMAIN fs[i] = DOMAIN CommandLine /\ fs[i].fp = frames[i].fp
    BY <1>1, <2>1, PutFrames
  <2>3. frames' = Append(fs, g)
    BY <2>1
  <2> HIDE DEF fs
  <2>4. /\ IsSeq(frames') /\ Len(frames') = Len(fs) + 1 /\ frames' # <<>>
        /\ \A j \in 1 .. (Len(fs) + 1) : frames'[j] = IF j = Len(fs) + 1 THEN g ELSE fs[j]
    BY <2>2, <2>3, AppendIs
  <2>5. \A i \in 1 .. Len(frames) : frames'[i].fp = frames[i].fp /\ DOMAIN frames'[i] = DOMAIN CommandLine
    BY <1>1, <2>2, <2>4
  <2>6. frames'[Len(frames) + 1].fp = Len(loops) /\ DOMAIN frames'[Len(frames) + 1] = DOMAIN CommandLine
        /\ Len(frames') = Len(frames) + 1
    BY <1>1, <2>1, <2>2, <2>4
  <2>7. \A i \in 1 .. Len(frames) : frames[i].fp \in 0 .. Len(loops)
    BY DEF FramesOK
  <2>8. \A i \in 1 .. Len(frames') : DOMAIN frames'[i] = DOMAIN CommandLine /\ frames'[i].fp \in 0 .. Len(loops)
    BY <1>1, <2>5, <2>6, <2>7
  <2>9. ASSUME NEW i \in 1 .. Len(frames'), NEW j \in 1 .. Len(frames'), i <= j PROVE frames'[i].fp <= frames'[j].fp
    <3>1. CASE j = Len(frames) + 1
      BY <1>1, <2>6, <2>8, <3>1
    <3>2. CASE j # Len(frames) + 1
      <4>1. i \in 1 .. Len(frames) /\ j \in 1 .. Len(frames)
        BY <1>1, <2>6, <2>9, <3>2
      <4>2. frames[i].fp <= frames[j].fp
        BY <2>9, <4>1 DEF FramesOK
      <4> QED
        BY <2>5, <4>1, <4>2
    <3> QED
      BY <3>1, <3>2
  <2>10. frames'[1].fp = 0
    <3>1. 1 \in 1 .. Len(frames)
      BY <1>1
    <3> QED
      BY <2>5, <3>1 DEF FramesOK
  <2> QED
    BY <2>1, <2>4, <2>8, <2>9, <2>10 DEF FramesOK
<1>5. CASE Ends
  <2>1. frames' = Front(frames) /\ Len(frames) > 1 /\ Len(loops') = top.fp
    BY <1>1, <1>5, PrefixIs DEF Ends, LoopStack
  <2>2. /\ IsSeq(frames') /\ Len(frames') = Len(frames) - 1
        /\ \A j \in 1 .. (Len(frames) - 1) : frames'[j] = frames[j]
    BY <1>1, <2>1, FrontIs
  <2>3. frames' # <<>>
    BY <1>1, <2>1, <2>2
  <2>4. \A j \in 1 .. (Len(frames) - 1) : j \in 1 .. Len(frames) /\ j <= Len(frames)
    BY <1>1
  <2>5. \A j \in 1 .. (Len(frames) - 1) : frames'[j].fp \in 0 .. top.fp /\ DOMAIN frames'[j] = DOMAIN CommandLine
    <3> SUFFICES ASSUME NEW j \in 1 .. (Len(frames) - 1)
                 PROVE  frames'[j].fp \in 0 .. top.fp /\ DOMAIN frames'[j] = DOMAIN CommandLine
      OBVIOUS
    <3>1. frames'[j] = frames[j] /\ j \in 1 .. Len(frames) /\ j <= Len(frames)
      BY <2>2, <2>4
    <3>2. frames[j].fp \in 0 .. Len(loops) /\ frames[j].fp <= top.fp /\ DOMAIN frames[j] = DOMAIN CommandLine
      BY <1>1, <3>1 DEF FramesOK
    <3> QED
      BY <1>1, <3>1, <3>2
  <2>6. frames'[1].fp = 0
    <3>1. 1 \in 1 .. (Len(frames) - 1)
      BY <1>1, <2>1
    <3> QED
      BY <2>2, <3>1 DEF FramesOK
  <2>7. \A i, j \in 1 .. (Len(frames) - 1) : i <= j => frames'[i].fp <= frames'[j].fp
    BY <2>2, <2>4 DEF FramesOK
  <2> QED
    BY <2>1, <2>2, <2>3, <2>5, <2>6, <2>7 DEF FramesOK
<1> QED
  BY <1>3, <1>4, <1>5 DEF Rests, Enters, Leaves, Counts

(* Tokens are only added to those there are, one at most.                  *)
LEMMA StepTokens ==
  ASSUME IsSeq(tokens), LoopStack(loops), top.fp \in Nat, Rests \/ Enters \/ Leaves \/ Counts \/ Calls \/ Ends
  PROVE  \/ tokens' = tokens
         \/ \E t : IsToken(t) /\ tokens' = Append(tokens, t)
<1>1. Len(loops) \in Nat
  BY DEF LoopStack, IsSeq
<1>2. CASE Enters
  <2>1. IsToken([op |-> "remove", i |-> Len(loops) + 1])
    BY <1>1 DEF IsToken
  <2> QED
    BY <1>2, <2>1 DEF Enters
<1>3. CASE Leaves
  <2>1. Len(loops) \in Nat \ {0} /\ IsCtx(ctx)
    BY <1>1, <1>3, TopLoop DEF Leaves
  <2>2. IsToken([op |-> "insert", i |-> Len(loops), ctx |-> ctx])
    BY <2>1 DEF IsToken
  <2> QED
    BY <1>3, <2>2 DEF Leaves
<1>4. CASE Counts
  <2>1. Len(loops) \in Nat \ {0}
    BY <1>1, <1>4, TopLoop DEF Counts
  <2>2. IsToken([op |-> "set", i |-> Len(loops), counter |-> ctx.counter])
    BY <2>1 DEF IsToken
  <2> QED
    BY <1>4, <2>2 DEF Counts
<1> QED
  BY <1>2, <1>3, <1>4 DEF Rests, Calls, Ends

LEMMA MoreTokens ==
  ASSUME IsSeq(tokens), \A k \in 1 .. Len(tokens) : IsToken(tokens[k]),
         tokens' = tokens \/ \E t : IsToken(t) /\ tokens' = Append(tokens, t)
  PROVE  /\ IsSeq(tokens') /\ \A k \in 1 .. Len(tokens') : IsToken(tokens'[k])
         /\ Len(tokens) \in Nat /\ Len(tokens') \in Nat /\ Len(tokens) <= Len(tokens')
         /\ \A k \in 1 .. Len(tokens) : tokens'[k] = tokens[k]
<1>1. Len(tokens) \in Nat
  BY DEF IsSeq
<1>2. CASE tokens' = tokens
  BY <1>1, <1>2
<1>3. CASE \E t : IsToken(t) /\ tokens' = Append(tokens, t)
  <2>1. PICK t : IsToken(t) /\ tokens' = Append(tokens, t)
    BY <1>3
  <2>2. IsSeq(tokens') /\ Len(tokens') = Len(tokens) + 1
        /\ \A j \in 1 .. (Len(tokens) + 1) : tokens'[j] = IF j = Len(tokens) + 1 THEN t ELSE tokens[j]
    BY <2>1, AppendIs
  <2> QED
    BY <1>1, <2>1, <2>2
<1> QED
  BY <1>2, <1>3

(* With nothing typed in, nothing runs.                                    *)
LEMMA NothingRuns ==
  ASSUME Empty(frames), Step \/ Interrupt \/ Terminate
  PROVE  FALSE
<1>1. top.pc = 1 /\ top.text = <<>> /\ Len(frames) = 1
  BY DEF Empty, top, Last
<1>2. (Idle /\ AtCommandLine) \/ err # "none"
  BY <1>1, SessionAssumption DEF Idle, AtCommandLine
<1>3. ~HasNext /\ ~Running /\ ~Ended
  <2>1. ~(top.pc <= Len(top.text))
    BY <1>1
  <2> QED
    BY <1>2, <2>1 DEF HasNext, Running, Ended
<1>4. ~Step
  <2>1. ~FollowsControlC /\ ~Returns /\ \A cs : ~Executes(cs) /\ ~Parses(cs)
    BY <1>3 DEF FollowsControlC, Returns, Executes, Parses
  <2>2. ~Calculate /\ ~Effect /\ ~Escape /\ ~Colon /\ ~Reject /\ ~Ignore
    BY <1>3, <2>1 DEF Calculate, Effect, Escape, Colon, Reject, Ignore
  <2>3. ~LoopOpen /\ ~LoopClose /\ ~Break /\ ~LoopStart /\ ~LoopEnd /\ ~SkipLoop
    BY <1>3, <2>1 DEF LoopOpen, LoopClose, Break, LoopStart, LoopEnd, SkipLoop
  <2>4. ~Condition /\ ~Skips /\ ~SkipCondition /\ ~Label /\ ~Goto /\ ~Call
    BY <1>3, <2>1 DEF Condition, Skips, SkipCondition, Label, Goto, Call
  <2>5. ~ControlC /\ ~Exit /\ ~PassControlC /\ ~Return /\ ~GiveUpGoto /\ ~EndOfMacro
    BY <1>3, <2>1 DEF ControlC, Exit, PassControlC, Return, GiveUpGoto, EndOfMacro
  <2> QED
    BY <2>2, <2>3, <2>4, <2>5 DEF Step
<1>5. ~Terminate
  BY <1>3 DEF Terminate, Returns, Executes, FollowsControlC, Running
<1>6. ~Interrupt
  BY <1>2 DEF Interrupt
<1> QED
  BY <1>4, <1>5, <1>6


-----------------------------------------------------------------------------
(* The invariant holds.                                                    *)

LEMMA FewerLoops ==
  ASSUME NEW fs, NEW m \in Nat, NEW n \in Nat, FramesOK(fs, m), \A i \in 1 .. Len(fs) : fs[i].fp <= n
  PROVE  FramesOK(fs, n)
BY DEF FramesOK

LEMMA OneFrame ==
  ASSUME NEW fs, NEW n \in Nat, FramesOK(fs, n), Len(fs) = 1
  PROVE  FramesOK(fs, 0) /\ \A m \in Nat : FramesOK(fs, m)
<1>1. fs[1].fp = 0
  BY DEF FramesOK
<1> QED
  BY <1>1 DEF FramesOK

LEMMA InitSession ==
  Init => SessionInv
<1> SUFFICES ASSUME Init PROVE SessionInv
  OBVIOUS
<1>1. IsSeq(<<>>) /\ Len(<<>>) = 0
  BY DEF IsSeq
<1>2. LoopStack(loops) /\ Len(loops) = 0
  BY <1>1 DEF Init, LoopStack
<1>3. CommandLine.fp = 0 /\ CommandLine.text = <<>> /\ CommandLine.pc = 1
  BY DEF CommandLine
<1>4. frames \in Seq({CommandLine}) /\ Len(frames) = 1 /\ frames[1] = CommandLine /\ frames # <<>>
  BY DEF Init
<1>5. IsSeq(frames)
  BY <1>4, SeqIs
<1>6. FramesOK(frames, 0) /\ Empty(frames)
  BY <1>3, <1>4, <1>5 DEF FramesOK, Empty
<1>7. tokens = <<>> /\ saved = <<>> /\ err = "none"
  BY DEF Init
<1>8. IsSeq(tokens) /\ IsSeq(saved) /\ Len(tokens) = 0 /\ Len(saved) = 0
  BY <1>1, <1>7
<1>9. FramesOK(frames, Len(loops))
  BY <1>2, <1>6
<1> QED
  BY <1>2, <1>6, <1>7, <1>8, <1>9 DEF SessionInv

LEMMA TypeKeeps ==
  ASSUME SessionInv, Type
  PROVE  SessionInv'
<1> DEFINE r == [x |-> x, frames |-> frames, skip |-> skip, backup |-> backup,
                 trace |-> trace, tokens |-> Len(tokens), loops |-> loops]
<1>1. /\ Len(frames) = 1 /\ err = "none" /\ UNCHANGED <<loops, tokens, err>> /\ saved' = Append(saved, r)
      /\ \E c : Put([top EXCEPT !.text = Append(@, c)])
  BY DEF Type, Idle
<1>2. /\ LoopStack(loops) /\ FramesOK(frames, Len(loops)) /\ IsSeq(saved) /\ IsSeq(tokens)
      /\ Len(loops) \in Nat /\ Len(tokens) \in Nat
  BY DEF SessionInv, LoopStack, IsSeq
<1>3. TopKept /\ top.fp <= Len(loops)
  <2>1. "fp" \in DOMAIN top /\ top.fp \in 0 .. Len(loops)
    BY <1>2, TopFrame
  <2>2. \A v : LikeTop([top EXCEPT !.text = v])
    BY <2>1 DEF LikeTop
  <2>3. PICK c : Put([top EXCEPT !.text = Append(@, c)])
    BY <1>1
  <2>4. LikeTop([top EXCEPT !.text = Append(@, c)])
    BY <2>2
  <2>5. TopKept
    BY <2>3, <2>4, PutKeeps
  <2>6. Len(loops) \in Nat
    BY <1>2
  <2> QED
    BY <2>1, <2>5, <2>6
<1>4. FramesOK(frames', Len(loops))
  BY <1>2, <1>3, KeptFrames
<1>5. FramesOK(frames, 0)
  BY <1>1, <1>2, OneFrame
<1>6. r.frames = frames /\ r.tokens = Len(tokens)
  OBVIOUS
<1> HIDE DEF r
<1>7. /\ IsSeq(saved') /\ Len(saved') = Len(saved) + 1 /\ saved' # <<>> /\ Len(saved) \in Nat
      /\ \A i \in 1 .. (Len(saved) + 1) : saved'[i] = IF i = Len(saved) + 1 THEN r ELSE saved[i]
  BY <1>1, <1>2, AppendIs
<1>8. \A i \in 1 .. Len(saved') :
        Len(saved'[i].frames) = 1 /\ FramesOK(saved'[i].frames, 0) /\ saved'[i].tokens \in 0 .. Len(tokens)
  <2> SUFFICES ASSUME NEW i \in 1 .. Len(saved')
               PROVE  Len(saved'[i].frames) = 1 /\ FramesOK(saved'[i].frames, 0) /\ saved'[i].tokens \in 0 .. Len(tokens)
    OBVIOUS
  <2>1. CASE i = Len(saved) + 1
    BY <1>1, <1>2, <1>5, <1>6, <1>7, <2>1
  <2>2. CASE i # Len(saved) + 1
    <3>1. i \in 1 .. Len(saved) /\ saved'[i] = saved[i]
      BY <1>7, <2>2
    <3> QED
      BY <3>1 DEF SessionInv
  <2> QED
    BY <2>1, <2>2
<1>9. \A i, j \in 1 .. Len(saved') : i <= j => saved'[i].tokens <= saved'[j].tokens
  <2> SUFFICES ASSUME NEW i \in 1 .. Len(saved'), NEW j \in 1 .. Len(saved'), i <= j
               PROVE  saved'[i].tokens <= saved'[j].tokens
    OBVIOUS
  <2>1. CASE j = Len(saved) + 1
    BY <1>2, <1>6, <1>7, <1>8, <2>1
  <2>2. CASE j # Len(saved) + 1
    <3>1. i \in 1 .. Len(saved) /\ j \in 1 .. Len(saved) /\ saved'[i] = saved[i] /\ saved'[j] = saved[j]
      BY <1>7, <2>2
    <3> QED
      BY <3>1 DEF SessionInv
  <2> QED
    BY <2>1, <2>2
<1>10. Empty(saved'[1].frames)
  <2>1. CASE saved = <<>>
    <3>1. saved'[1] = r /\ Empty(frames)
      BY <1>7, <2>1 DEF SessionInv
    <3> QED
      BY <1>6, <3>1
  <2>2. CASE saved # <<>>
    <3>1. 1 \in 1 .. Len(saved)
      BY <1>2, <2>2, FrontIs
    <3>2. saved'[1] = saved[1]
      BY <1>7, <3>1
    <3> QED
      BY <2>2, <3>2 DEF SessionInv
  <2> QED
    BY <2>1, <2>2
<1>11. LoopStack(loops') /\ IsSeq(tokens') /\ \A k \in 1 .. Len(tokens') : IsToken(tokens'[k])
  BY <1>1 DEF SessionInv
<1>12. FramesOK(frames', Len(loops')) /\ tokens' = tokens
  BY <1>1, <1>4
<1> QED
  BY <1>7, <1>8, <1>9, <1>10, <1>11, <1>12 DEF SessionInv

(* A step, or an error: what has been saved stays.                         *)
LEMMA RunKeeps ==
  ASSUME SessionInv, saved' = saved, saved # <<>>, LoopStack(loops'), FramesOK(frames', Len(loops')),
         tokens' = tokens \/ \E t : IsToken(t) /\ tokens' = Append(tokens, t)
  PROVE  SessionInv'
<1>1. /\ IsSeq(tokens') /\ \A k \in 1 .. Len(tokens') : IsToken(tokens'[k])
      /\ Len(tokens) \in Nat /\ Len(tokens') \in Nat /\ Len(tokens) <= Len(tokens')
  <2>1. IsSeq(tokens) /\ \A k \in 1 .. Len(tokens) : IsToken(tokens[k])
    BY DEF SessionInv
  <2> QED
    BY <2>1, MoreTokens
<1>2. \A i \in 1 .. Len(saved) :
        Len(saved[i].frames) = 1 /\ FramesOK(saved[i].frames, 0) /\ saved[i].tokens \in 0 .. Len(tokens')
  <2> SUFFICES ASSUME NEW i \in 1 .. Len(saved)
               PROVE  Len(saved[i].frames) = 1 /\ FramesOK(saved[i].frames, 0) /\ saved[i].tokens \in 0 .. Len(tokens')
    OBVIOUS
  <2>1. Len(saved[i].frames) = 1 /\ FramesOK(saved[i].frames, 0) /\ saved[i].tokens \in 0 .. Len(tokens)
    BY DEF SessionInv
  <2> QED
    BY <1>1, <2>1
<1>3. /\ IsSeq(saved) /\ Empty(saved[1].frames)
      /\ \A i, j \in 1 .. Len(saved) : i <= j => saved[i].tokens <= saved[j].tokens
  BY DEF SessionInv
<1> QED
  BY <1>1, <1>2, <1>3 DEF SessionInv

LEMMA ExecutionKeeps ==
  ASSUME SessionInv, Step, saved' = saved
  PROVE  SessionInv' /\ Below(top.fp) /\ (Rests \/ Enters \/ Leaves \/ Counts \/ Calls \/ Ends)
<1>1. /\ LoopStack(loops) /\ FramesOK(frames, Len(loops)) /\ IsSeq(saved) /\ IsSeq(tokens)
      /\ Len(loops) \in Nat
  BY DEF SessionInv, LoopStack, IsSeq
<1>2. frames # <<>> /\ IsSeq(frames) /\ "fp" \in DOMAIN top /\ top.fp \in 0 .. Len(loops) /\ top.fp \in Nat
  <2>1. frames # <<>> /\ IsSeq(frames) /\ "fp" \in DOMAIN top /\ top.fp \in 0 .. Len(loops)
    BY <1>1, TopFrame
  <2> QED
    BY <1>1, <2>1
<1>3. Rests \/ Enters \/ Leaves \/ Counts \/ Calls \/ Ends
  BY <1>1, <1>2, StepKinds
<1>4. Below(top.fp)
  BY <1>1, <1>3, StepBelow
<1>5. FramesOK(frames', Len(loops'))
  BY <1>1, <1>3, StepFrames
<1>6. tokens' = tokens \/ \E t : IsToken(t) /\ tokens' = Append(tokens, t)
  BY <1>1, <1>2, <1>3, StepTokens
<1>7. saved # <<>>
  BY NothingRuns DEF SessionInv
<1>8. LoopStack(loops')
  BY <1>4 DEF Below
<1> QED
  BY <1>3, <1>4, <1>5, <1>6, <1>7, <1>8, RunKeeps

LEMMA UndoKeeps ==
  ASSUME SessionInv, saved # <<>>, Undo
  PROVE  SessionInv'
<1> DEFINE s == Last(saved)
           n == s.tokens
<1>1. /\ LoopStack(loops) /\ FramesOK(frames, Len(loops)) /\ IsSeq(saved) /\ IsSeq(tokens)
      /\ Len(loops) \in Nat /\ Len(tokens) \in Nat /\ \A k \in 1 .. Len(tokens) : IsToken(tokens[k])
  BY DEF SessionInv, LoopStack, IsSeq
<1>2. /\ loops' = Undone(n) /\ tokens' = SubSeq(tokens, 1, n) /\ frames' = s.frames
      /\ saved' = Front(saved) /\ err' = "none"
  BY DEF Undo
<1>3. /\ IsSeq(Front(saved)) /\ Len(saved) \in Nat \ {0} /\ Len(Front(saved)) = Len(saved) - 1
      /\ \A j \in 1 .. (Len(saved) - 1) : Front(saved)[j] = saved[j]
      /\ s = saved[Len(saved)] /\ Len(saved) \in 1 .. Len(saved)
  <2>1. /\ IsSeq(Front(saved)) /\ Len(saved) \in Nat \ {0} /\ Len(Front(saved)) = Len(saved) - 1
        /\ \A j \in 1 .. (Len(saved) - 1) : Front(saved)[j] = saved[j]
        /\ s = saved[Len(saved)]
    BY <1>1, FrontIs
  <2> QED
    BY <2>1
<1>4. n \in 0 .. Len(tokens) /\ Len(s.frames) = 1 /\ FramesOK(s.frames, 0)
  BY <1>3 DEF SessionInv
<1> HIDE DEF s
<1>5. LoopStack(loops') /\ Len(loops') \in Nat
  <2>1. LoopStack(loops')
    BY <1>1, <1>2, <1>4, UndoneStack
  <2> QED
    BY <2>1 DEF LoopStack, IsSeq
<1>6. FramesOK(frames', Len(loops'))
  BY <1>2, <1>4, <1>5, OneFrame
<1>7. IsSeq(tokens') /\ Len(tokens') = n /\ \A k \in 1 .. Len(tokens') : IsToken(tokens'[k])
  <2>1. IsSeq(tokens') /\ Len(tokens') = n /\ \A k \in 1 .. n : tokens'[k] = tokens[k]
    BY <1>1, <1>2, <1>4, PrefixIs
  <2> QED
    BY <1>1, <1>4, <2>1
<1>8. \A i \in 1 .. Len(saved') : i \in 1 .. Len(saved) /\ i <= Len(saved) /\ saved'[i] = saved[i]
  BY <1>2, <1>3
<1>9. \A i \in 1 .. Len(saved') :
        Len(saved'[i].frames) = 1 /\ FramesOK(saved'[i].frames, 0) /\ saved'[i].tokens \in 0 .. Len(tokens')
  <2> SUFFICES ASSUME NEW i \in 1 .. Len(saved')
               PROVE  Len(saved'[i].frames) = 1 /\ FramesOK(saved'[i].frames, 0) /\ saved'[i].tokens \in 0 .. Len(tokens')
    OBVIOUS
  <2>1. i \in 1 .. Len(saved) /\ i <= Len(saved) /\ saved'[i] = saved[i]
    BY <1>8
  <2>2. /\ Len(saved[i].frames) = 1 /\ FramesOK(saved[i].frames, 0) /\ saved[i].tokens \in 0 .. Len(tokens)
        /\ saved[i].tokens <= saved[Len(saved)].tokens
    BY <1>3, <2>1 DEF SessionInv
  <2> QED
    BY <1>1, <1>3, <1>4, <1>7, <2>1, <2>2
<1>10. \A i, j \in 1 .. Len(saved') : i <= j => saved'[i].tokens <= saved'[j].tokens
  BY <1>8 DEF SessionInv
<1>11. CASE saved' = <<>>
  <2>1. Len(saved) = 1
    BY <1>2, <1>3, <1>11
  <2>2. Empty(frames')
    BY <1>2, <1>3, <2>1 DEF SessionInv
  <2> QED
    BY <1>2, <1>3, <1>5, <1>6, <1>7, <1>9, <1>10, <1>11, <2>2 DEF SessionInv
<1>12. CASE saved' # <<>>
  <2>1. 1 \in 1 .. Len(saved')
    BY <1>2, <1>3, <1>12, FrontIs
  <2>2. Empty(saved'[1].frames)
    BY <1>8, <2>1 DEF SessionInv
  <2> QED
    BY <1>2, <1>3, <1>5, <1>6, <1>7, <1>9, <1>10, <1>12, <2>2 DEF SessionInv
<1> QED
  BY <1>11, <1>12

LEMMA NextKeepsSession ==
  ASSUME SessionInv, [Next]_sessionVars
  PROVE  SessionInv'
<1>1. CASE Type
  BY <1>1, TypeKeeps
<1>2. CASE Execution
  BY <1>2, ExecutionKeeps DEF Execution
<1>3. CASE \E why : Throw(why) /\ saved' = saved /\ saved # <<>>
  <2>1. /\ frames' = frames /\ loops' = loops /\ tokens' = tokens /\ saved' = saved /\ saved # <<>>
    BY <1>3 DEF Throw
  <2>2. LoopStack(loops') /\ FramesOK(frames', Len(loops'))
    BY <2>1 DEF SessionInv
  <2> QED
    BY <2>1, <2>2, RunKeeps
<1>4. CASE Interrupt
  BY <1>3, <1>4, NothingRuns DEF Interrupt, SessionInv
<1>5. CASE RejectKey
  BY <1>5, UndoKeeps DEF RejectKey, SessionInv
<1>6. CASE Rubout
  BY <1>6, UndoKeeps DEF Rubout
<1>7. CASE Terminate
  <2>1. PICK y : \/ ~OK(y) /\ Throw(y.err) /\ UNCHANGED <<saved, lines>>
                 \/ OK(y) /\ StartLine(y)
    BY <1>7 DEF Terminate
  <2>2. CASE Throw(y.err) /\ UNCHANGED <<saved, lines>>
    BY <1>3, <1>7, <2>2, NothingRuns DEF SessionInv
  <2>3. CASE StartLine(y)
    <3> DEFINE f == [top EXCEPT !.text = <<>>, !.pc = 1, !.esc = FALSE, !.table = NoLabels]
    <3>1. /\ loops' = <<>> /\ tokens' = <<>> /\ saved' = <<>> /\ err' = err /\ frames' = <<f>>
      BY <2>3 DEF StartLine
    <3>2. Len(frames) = 1 /\ err = "none"
      BY <1>7 DEF Terminate, AtCommandLine, Returns, Executes, FollowsControlC, Running, HasNext
    <3>3. FramesOK(frames, Len(loops)) /\ Len(loops) \in Nat
      BY DEF SessionInv, LoopStack, IsSeq
    <3>4. top = frames[1] /\ DOMAIN top = DOMAIN CommandLine /\ top.fp = 0
      <4>1. top = frames[1] /\ DOMAIN top = DOMAIN CommandLine
        BY <3>2, <3>3, TopFrame
      <4> QED
        BY <3>3, <4>1 DEF FramesOK
    <3>5. DOMAIN f = DOMAIN CommandLine /\ f.fp = 0 /\ f.text = <<>> /\ f.pc = 1
      BY <3>4 DEF CommandLine
    <3> HIDE DEF f
    <3>6. frames' \in Seq({f}) /\ Len(frames') = 1 /\ frames'[1] = f /\ frames' # <<>>
      BY <3>1
    <3>7. IsSeq(frames')
      BY <3>6, SeqIs
    <3>8. FramesOK(frames', 0) /\ Empty(frames')
      BY <3>5, <3>6, <3>7 DEF FramesOK, Empty
    <3>9. IsSeq(<<>>) /\ Len(<<>>) = 0 /\ LoopStack(<<>>)
      BY DEF IsSeq, LoopStack
    <3> QED
      BY <3>1, <3>2, <3>8, <3>9 DEF SessionInv
  <2> QED
    BY <2>1, <2>2, <2>3
<1>8. CASE UNCHANGED sessionVars
  BY <1>8 DEF SessionInv, sessionVars, vars
<1> QED
  BY <1>1, <1>2, <1>4, <1>5, <1>6, <1>7, <1>8 DEF Next

THEOREM SessionInvariant == Spec => []SessionInv
<1>1. Init => SessionInv
  BY InitSession
<1>2. SessionInv /\ [Next]_sessionVars => SessionInv'
  BY NextKeepsSession
<1> QED
  BY <1>1, <1>2, PTL DEF Spec

(* A macro leaves the loops of its caller alone: whatever it does, an      *)
(* error included, neither removes nor changes a loop below loop_stack_fp  *)
(* of its machine (parser.c, core-commands.c).                             *)
THEOREM CallersLoopsAreSafeProof == Spec => CallersLoopsAreSafe
<1>1. ASSUME SessionInv, Execution
      PROVE  Len(loops') >= top.fp /\ SubSeq(loops', 1, top.fp) = SubSeq(loops, 1, top.fp)
  <2>1. Below(top.fp) /\ LoopStack(loops) /\ FramesOK(frames, Len(loops)) /\ Len(loops) \in Nat
    BY <1>1, ExecutionKeeps DEF Execution, SessionInv, LoopStack, IsSeq
  <2>2. top.fp \in 0 .. Len(loops)
    BY <2>1, TopFrame
  <2>3. LoopStack(loops') /\ Len(loops') \in Nat /\ top.fp <= Len(loops') /\ \A j \in 1 .. top.fp : loops'[j] = loops[j]
    BY <2>1 DEF Below
  <2>4. top.fp \in 0 .. Len(loops') /\ Len(loops') >= top.fp
    BY <2>1, <2>2, <2>3
  <2>5. /\ IsSeq(SubSeq(loops, 1, top.fp)) /\ Len(SubSeq(loops, 1, top.fp)) = top.fp
        /\ \A j \in 1 .. top.fp : SubSeq(loops, 1, top.fp)[j] = loops[j]
    BY <2>1, <2>2, PrefixIs DEF LoopStack
  <2>6. /\ IsSeq(SubSeq(loops', 1, top.fp)) /\ Len(SubSeq(loops', 1, top.fp)) = top.fp
        /\ \A j \in 1 .. top.fp : SubSeq(loops', 1, top.fp)[j] = loops'[j]
    BY <2>3, <2>4, PrefixIs DEF LoopStack
  <2>7. SubSeq(loops', 1, top.fp) = SubSeq(loops, 1, top.fp)
    BY <2>3, <2>5, <2>6, EqualSeqs
  <2> QED
    BY <2>4, <2>7
<1>2. SessionInv /\ [Next]_sessionVars
        => [Len(frames) > 1 /\ Len(frames') > 1 /\ Execution
              => Len(loops') >= top.fp /\ SubSeq(loops', 1, top.fp) = SubSeq(loops, 1, top.fp)]_sessionVars
  BY <1>1
<1> QED
  BY <1>2, SessionInvariant, PTL DEF Spec, CallersLoopsAreSafe

-----------------------------------------------------------------------------
(* The way back.                                                           *)

(* There are two ways to leave a loop whose entry does not come back: a    *)
(* macro that returns from within it, and a ; that fails to close its      *)
(* braces.  Rubout goes on to work when neither happens.                   *)
Left ==
  /\ Return /\ err' = "none" => ~InLoop
  /\ Break /\ err' # "none" => loops' = loops
LoopsAreLeft == [][Left]_sessionVars

(* t leads back from n to m: running the n-th token of tk turns t[n] into  *)
(* t[n - 1], and every token is about the entry on top.                    *)
Trail(tk, t, m, n) ==
  /\ \A k \in m .. n : LoopStack(t[k])
  /\ \A k \in (m + 1) .. n : AtEnd(tk[k], t[k]) /\ t[k - 1] = RunToken(tk[k], t[k])

SameBelow(s, r, n) == \A j \in 1 .. n : s[j] = r[j]
ComesBack(tk, s, m, r) == \E u : u[Len(tk)] = s /\ u[m] = r /\ Trail(tk, u, m, Len(tk))

(* In macros, loops are counted down without a token.  Running the tokens  *)
(* does not bring back what there was in the middle of the macro, but it   *)
(* does what there was before it: the tokens of the macro lead there from  *)
(* any stack that has the same loops of the command line.                  *)
InMacro(m, t) ==
  \A s : LoopStack(s) /\ Len(s) = Len(loops) /\ SameBelow(s, loops, frames[2].fp)
           => ComesBack(tokens, s, m, t[m])

(* The tokens above m are of the macro that runs.                          *)
WayBack(m, t) ==
  /\ Trail(tokens, t, 0, m)
  /\ \A i \in 1 .. Len(saved) : saved[i].tokens <= m /\ t[saved[i].tokens] = saved[i].loops
  /\ IF Len(frames) = 1 THEN m = Len(tokens) /\ t[m] = loops ELSE InMacro(m, t)
RestoringInv == \E m \in 0 .. Len(tokens) : \E t : WayBack(m, t)

LEMMA SameTrail ==
  ASSUME NEW tk, NEW uk, NEW t, NEW m \in Nat, NEW n \in Nat, Trail(tk, t, m, n),
         \A k \in 1 .. n : uk[k] = tk[k]
  PROVE  Trail(uk, t, m, n)
<1>1. \A k \in (m + 1) .. n : k \in 1 .. n /\ uk[k] = tk[k]
  OBVIOUS
<1> QED
  BY <1>1 DEF Trail

LEMMA ShorterTrail ==
  ASSUME NEW tk, NEW t, NEW m \in Nat, NEW n \in Nat, NEW p \in Nat, p <= n, Trail(tk, t, m, n)
  PROVE  Trail(tk, t, m, p)
BY DEF Trail

LEMMA TrailFurther ==
  ASSUME NEW tk, NEW t, NEW m \in Nat, NEW n \in Nat, m <= n, Trail(tk, t, m, n),
         NEW s, LoopStack(s), AtEnd(tk[n + 1], s), RunToken(tk[n + 1], s) = t[n]
  PROVE  \E u : u[n + 1] = s /\ (\A k \in m .. n : u[k] = t[k]) /\ Trail(tk, u, m, n + 1)
<1> DEFINE u == [k \in m .. (n + 1) |-> IF k = n + 1 THEN s ELSE t[k]]
<1>1. u[n + 1] = s /\ \A k \in m .. n : u[k] = t[k]
  OBVIOUS
<1> HIDE DEF u
<1>2. \A k \in m .. (n + 1) : LoopStack(u[k])
  <2> SUFFICES ASSUME NEW k \in m .. (n + 1) PROVE LoopStack(u[k])
    OBVIOUS
  <2>1. CASE k = n + 1
    BY <1>1, <2>1
  <2>2. CASE k # n + 1
    <3>1. k \in m .. n
      BY <2>2
    <3> QED
      BY <1>1, <3>1 DEF Trail
  <2> QED
    BY <2>1, <2>2
<1>3. ASSUME NEW k \in (m + 1) .. (n + 1) PROVE AtEnd(tk[k], u[k]) /\ u[k - 1] = RunToken(tk[k], u[k])
  <2>1. CASE k = n + 1
    <3>1. k - 1 = n /\ n \in m .. n
      BY <2>1
    <3>2. u[k - 1] = t[n] /\ u[k] = s
      BY <1>1, <2>1, <3>1
    <3> QED
      BY <2>1, <3>2
  <2>2. CASE k # n + 1
    <3>1. k \in m .. n /\ k - 1 \in m .. n /\ k \in (m + 1) .. n
      BY <2>2
    <3>2. u[k] = t[k] /\ u[k - 1] = t[k - 1]
      BY <1>1, <3>1
    <3> QED
      BY <3>1, <3>2 DEF Trail
  <2> QED
    BY <2>1, <2>2
<1>4. Trail(tk, u, m, n + 1)
  BY <1>2, <1>3 DEF Trail
<1> QED
  BY <1>1, <1>4

LEMMA JoinedTrails ==
  ASSUME NEW tk, NEW t, NEW u, NEW m \in Nat, NEW n \in Nat, m <= n,
         Trail(tk, t, 0, m), Trail(tk, u, m, n), u[m] = t[m]
  PROVE  \E g : g[n] = u[n] /\ (\A k \in 0 .. m : g[k] = t[k]) /\ Trail(tk, g, 0, n)
<1> DEFINE g == [k \in 0 .. n |-> IF k <= m THEN t[k] ELSE u[k]]
<1>1. (\A k \in 0 .. m : g[k] = t[k]) /\ (\A k \in m .. n : g[k] = u[k])
  <2>1. \A k \in m .. n : g[k] = u[k]
    <3> SUFFICES ASSUME NEW k \in m .. n PROVE g[k] = u[k]
      OBVIOUS
    <3>1. CASE k = m
      BY <3>1
    <3>2. CASE k # m
      <4>1. k \in 0 .. n /\ ~(k <= m)
        BY <3>2
      <4> QED
        BY <4>1
    <3> QED
      BY <3>1, <3>2
  <2>2. \A k \in 0 .. m : k \in 0 .. n /\ k <= m
    OBVIOUS
  <2> QED
    BY <2>1, <2>2
<1> HIDE DEF g
<1>2. ASSUME NEW k \in 0 .. n PROVE LoopStack(g[k])
  <2>1. k \in 0 .. m \/ k \in m .. n
    OBVIOUS
  <2> QED
    BY <1>1, <2>1 DEF Trail
<1>3. ASSUME NEW k \in 1 .. n PROVE AtEnd(tk[k], g[k]) /\ g[k - 1] = RunToken(tk[k], g[k])
  <2>1. CASE k <= m
    <3>1. k \in 0 .. m /\ k - 1 \in 0 .. m /\ k \in (0 + 1) .. m
      BY <2>1
    <3>2. g[k] = t[k] /\ g[k - 1] = t[k - 1]
      BY <1>1, <3>1
    <3> QED
      BY <3>1, <3>2 DEF Trail
  <2>2. CASE ~(k <= m)
    <3>1. k \in m .. n /\ k - 1 \in m .. n /\ k \in (m + 1) .. n
      BY <2>2
    <3>2. g[k] = u[k] /\ g[k - 1] = u[k - 1]
      BY <1>1, <3>1
    <3> QED
      BY <3>1, <3>2 DEF Trail
  <2> QED
    BY <2>1, <2>2
<1>4. Trail(tk, g, 0, n)
  BY <1>2, <1>3 DEF Trail
<1>5. g[n] = u[n]
  BY <1>1
<1> QED
  BY <1>1, <1>4, <1>5

(* At any time, there is a way back from the loops that there are now.     *)
LEMMA AllTheWay ==
  ASSUME SessionInv, NEW m \in 0 .. Len(tokens), NEW t, WayBack(m, t)
  PROVE  \E g : /\ Trail(tokens, g, 0, Len(tokens)) /\ g[Len(tokens)] = loops
                /\ \A k \in 0 .. m : g[k] = t[k]
<1>1. Len(tokens) \in Nat /\ LoopStack(loops) /\ Trail(tokens, t, 0, m) /\ m \in Nat /\ m <= Len(tokens)
  BY DEF SessionInv, IsSeq, WayBack
<1>2. CASE Len(frames) = 1
  BY <1>1, <1>2 DEF WayBack
<1>3. CASE Len(frames) # 1
  <2>1. ComesBack(tokens, loops, m, t[m])
    BY <1>1, <1>3 DEF WayBack, InMacro, SameBelow
  <2>2. PICK u : u[Len(tokens)] = loops /\ u[m] = t[m] /\ Trail(tokens, u, m, Len(tokens))
    BY <2>1 DEF ComesBack
  <2>3. u[m] = t[m] /\ Trail(tokens, u, m, Len(tokens))
    BY <2>2
  <2>4. \E g : /\ g[Len(tokens)] = u[Len(tokens)] /\ (\A k \in 0 .. m : g[k] = t[k])
              /\ Trail(tokens, g, 0, Len(tokens))
    BY <1>1, <2>3, JoinedTrails
  <2> QED
    BY <2>2, <2>4
<1> QED
  BY <1>2, <1>3

LEMMA TrailRestores ==
  ASSUME SessionInv, RestoringInv
  PROVE  RuboutRestoresLoops
<1>1. PICK m, t : m \in 0 .. Len(tokens) /\ WayBack(m, t)
  BY DEF RestoringInv
<1>2. PICK g : /\ Trail(tokens, g, 0, Len(tokens)) /\ g[Len(tokens)] = loops
               /\ \A k \in 0 .. m : g[k] = t[k]
  BY <1>1, AllTheWay
<1>3. Len(tokens) \in Nat /\ DOMAIN tokens = 1 .. Len(tokens) /\ \A i \in 1 .. Len(saved) : saved[i].tokens \in 0 .. Len(tokens)
  BY SeqIs DEF SessionInv, IsSeq
<1>4. \A n \in 0 .. Len(tokens) : Back(g, n)
  <2>1. \A k \in 0 .. (Len(tokens) - 1) : g[k] = RunToken(tokens[k + 1], g[k + 1])
    <3> SUFFICES ASSUME NEW k \in 0 .. (Len(tokens) - 1) PROVE g[k] = RunToken(tokens[k + 1], g[k + 1])
      OBVIOUS
    <3>1. k + 1 \in (0 + 1) .. Len(tokens) /\ (k + 1) - 1 = k
      BY <1>3
    <3> QED
      BY <1>2, <3>1 DEF Trail
  <2> QED
    BY <1>2, <1>3, <2>1 DEF Back
<1>5. \A k \in 1 .. Len(tokens) : Fits(tokens[k], g[k])
  <2> SUFFICES ASSUME NEW k \in 1 .. Len(tokens) PROVE Fits(tokens[k], g[k])
    OBVIOUS
  <2>1. k \in (0 + 1) .. Len(tokens) /\ k \in 0 .. Len(tokens)
    BY <1>3
  <2>2. LoopStack(g[k]) /\ AtEnd(tokens[k], g[k])
    BY <1>2, <2>1 DEF Trail
  <2> QED
    BY <2>2, AtEndRuns
<1>6. TokensFit
  BY <1>3, <1>4, <1>5, FitsAll
<1>7. ASSUME NEW i \in DOMAIN saved PROVE Undone(saved[i].tokens) = saved[i].loops
  <2>1. i \in 1 .. Len(saved)
    BY SeqIs DEF SessionInv, IsSeq
  <2>2. saved[i].tokens \in 0 .. Len(tokens) /\ saved[i].tokens <= m /\ t[saved[i].tokens] = saved[i].loops
    BY <1>1, <1>3, <2>1 DEF WayBack
  <2>3. saved[i].tokens \in 0 .. m
    BY <1>3, <2>2
  <2>4. Undone(saved[i].tokens) = g[saved[i].tokens]
    BY <1>3, <1>4, <2>2, UndoneIs
  <2> QED
    BY <1>2, <2>2, <2>3, <2>4
<1> QED
  BY <1>6, <1>7 DEF RuboutRestoresLoops


-----------------------------------------------------------------------------
(* Every step keeps a way back.                                            *)

(* Another token, about the entry on top of the loops that are now there.  *)
Another(token, s) ==
  /\ LoopStack(loops') /\ tokens' = Append(tokens, token)
  /\ AtEnd(token, loops') /\ RunToken(token, loops') = s

LEMMA NewToken ==
  ASSUME IsSeq(tokens), NEW token, tokens' = Append(tokens, token)
  PROVE  /\ Len(tokens) \in Nat /\ Len(tokens') = Len(tokens) + 1 /\ tokens'[Len(tokens) + 1] = token
         /\ \A k \in 1 .. Len(tokens) : tokens'[k] = tokens[k]
BY AppendIs

(* At the command line.                                                    *)
LEMMA LineRests ==
  ASSUME SessionInv, NEW m \in 0 .. Len(tokens), NEW t, WayBack(m, t), UNCHANGED <<saved, loops, tokens>>,
         Len(frames) = 1, Len(frames') = 1
  PROVE  RestoringInv'
<1>1. Trail(tokens', t, 0, m)
  BY DEF WayBack
<1>2. \A i \in 1 .. Len(saved') : saved'[i].tokens <= m /\ t[saved'[i].tokens] = saved'[i].loops
  BY DEF WayBack
<1>3. m = Len(tokens') /\ t[m] = loops' /\ m \in 0 .. Len(tokens')
  BY DEF WayBack
<1> QED
  BY <1>1, <1>2, <1>3 DEF RestoringInv, WayBack

LEMMA LineGoesOn ==
  ASSUME SessionInv, NEW m \in 0 .. Len(tokens), NEW t, WayBack(m, t), saved' = saved,
         Len(frames) = 1, Len(frames') = 1, NEW token, Another(token, loops)
  PROVE  RestoringInv'
<1>1. /\ IsSeq(tokens) /\ tokens' = Append(tokens, token)
      /\ LoopStack(loops') /\ AtEnd(token, loops') /\ RunToken(token, loops') = loops
  BY DEF SessionInv, Another
<1>2. /\ Len(tokens) \in Nat /\ Len(tokens') = Len(tokens) + 1 /\ tokens'[Len(tokens) + 1] = token
      /\ \A k \in 1 .. Len(tokens) : tokens'[k] = tokens[k]
  BY <1>1, NewToken
<1>3. /\ m = Len(tokens) /\ t[m] = loops /\ Trail(tokens, t, 0, m)
      /\ \A i \in 1 .. Len(saved) : saved[i].tokens <= m /\ t[saved[i].tokens] = saved[i].loops
  BY DEF WayBack
<1>4. Trail(tokens', t, 0, m)
  BY <1>2, <1>3, SameTrail
<1>5. PICK u : u[m + 1] = loops' /\ (\A k \in 0 .. m : u[k] = t[k]) /\ Trail(tokens', u, 0, m + 1)
  <2>1. AtEnd(tokens'[m + 1], loops') /\ RunToken(tokens'[m + 1], loops') = t[m]
    BY <1>1, <1>2, <1>3
  <2>2. m \in Nat /\ 0 <= m /\ LoopStack(loops') /\ 0 \in Nat
    BY <1>1, <1>2, <1>3
  <2> QED
    BY <1>4, <2>1, <2>2, TrailFurther
<1>6. \A i \in 1 .. Len(saved') : saved'[i].tokens <= m + 1 /\ u[saved'[i].tokens] = saved'[i].loops
  <2> SUFFICES ASSUME NEW i \in 1 .. Len(saved)
               PROVE  saved[i].tokens <= m + 1 /\ u[saved[i].tokens] = saved[i].loops
    OBVIOUS
  <2>1. saved[i].tokens \in 0 .. Len(tokens)
    BY DEF SessionInv
  <2>2. saved[i].tokens \in 0 .. m /\ saved[i].tokens <= m + 1
    BY <1>2, <1>3, <2>1
  <2> QED
    BY <1>3, <1>5, <2>2
<1>7. m + 1 \in 0 .. Len(tokens') /\ m + 1 = Len(tokens')
  BY <1>2, <1>3
<1> QED
  BY <1>5, <1>6, <1>7 DEF RestoringInv, WayBack

(* In a macro.                                                             *)
LEMMA MacroGoesOn ==
  ASSUME SessionInv, NEW m \in 0 .. Len(tokens), NEW t, WayBack(m, t), saved' = saved, tokens' = tokens,
         Len(frames) # 1, Len(frames') # 1, frames'[2].fp = frames[2].fp, Len(loops') = Len(loops),
         SameBelow(loops', loops, frames[2].fp)
  PROVE  RestoringInv'
<1>1. Trail(tokens', t, 0, m) /\ m \in 0 .. Len(tokens')
  BY DEF WayBack
<1>2. \A i \in 1 .. Len(saved') : saved'[i].tokens <= m /\ t[saved'[i].tokens] = saved'[i].loops
  BY DEF WayBack
<1>3. ASSUME NEW s, LoopStack(s), Len(s) = Len(loops'), SameBelow(s, loops', frames'[2].fp)
      PROVE  ComesBack(tokens', s, m, t[m])
  <2>1. Len(s) = Len(loops) /\ SameBelow(s, loops, frames[2].fp)
    BY <1>3 DEF SameBelow
  <2>2. InMacro(m, t)
    BY DEF WayBack
  <2>3. ComesBack(tokens, s, m, t[m])
    BY <1>3, <2>1, <2>2 DEF InMacro
  <2> QED
    BY <2>3
<1>4. InMacro(m, t)'
  BY <1>3 DEF InMacro
<1> QED
  BY <1>1, <1>2, <1>4 DEF RestoringInv, WayBack

LEMMA OneTokenMore ==
  ASSUME NEW tk, NEW uk, NEW n, n = Len(tk), n \in Nat, Len(uk) = n + 1, \A k \in 1 .. n : uk[k] = tk[k],
         NEW m \in Nat, m <= n, NEW s, LoopStack(s), AtEnd(uk[n + 1], s),
         NEW r, ComesBack(tk, RunToken(uk[n + 1], s), m, r)
  PROVE  ComesBack(uk, s, m, r)
<1>1. PICK u : u[n] = RunToken(uk[n + 1], s) /\ u[m] = r /\ Trail(tk, u, m, n)
  BY DEF ComesBack
<1>2. Trail(uk, u, m, n)
  BY <1>1, SameTrail
<1>3. PICK v : v[n + 1] = s /\ (\A k \in m .. n : v[k] = u[k]) /\ Trail(uk, v, m, n + 1)
  BY <1>1, <1>2, TrailFurther
<1>4. v[m] = r
  <2>1. m \in m .. n
    OBVIOUS
  <2> QED
    BY <1>1, <1>3, <2>1
<1> QED
  BY <1>3, <1>4 DEF ComesBack

LEMMA MacroGoesFurther ==
  ASSUME SessionInv, NEW m \in 0 .. Len(tokens), NEW t, WayBack(m, t), saved' = saved,
         Len(frames) # 1, Len(frames') # 1, frames'[2].fp = frames[2].fp,
         NEW token, tokens' = Append(tokens, token),
         \A s : LoopStack(s) /\ Len(s) = Len(loops') /\ SameBelow(s, loops', frames[2].fp)
                  => /\ AtEnd(token, s) /\ LoopStack(RunToken(token, s)) /\ Len(RunToken(token, s)) = Len(loops)
                     /\ SameBelow(RunToken(token, s), loops, frames[2].fp)
  PROVE  RestoringInv'
<1>1. IsSeq(tokens) /\ m \in Nat
  BY DEF SessionInv
<1>2. /\ Len(tokens) \in Nat /\ Len(tokens') = Len(tokens) + 1 /\ tokens'[Len(tokens) + 1] = token
      /\ \A k \in 1 .. Len(tokens) : tokens'[k] = tokens[k]
  BY <1>1, NewToken
<1>3. m \in 0 .. Len(tokens') /\ m \in 0 .. Len(tokens) /\ m <= Len(tokens) /\ m \in m .. Len(tokens)
  BY <1>2
<1>4. Trail(tokens', t, 0, m)
  <2>1. Trail(tokens, t, 0, m) /\ \A k \in 1 .. m : tokens'[k] = tokens[k]
    BY <1>2, <1>3 DEF WayBack
  <2> QED
    BY <1>1, <2>1, SameTrail
<1>5. ASSUME NEW s, LoopStack(s), Len(s) = Len(loops'), SameBelow(s, loops', frames'[2].fp)
      PROVE  ComesBack(tokens', s, m, t[m])
  <2> DEFINE r == RunToken(token, s)
  <2>1. AtEnd(token, s) /\ LoopStack(r) /\ Len(r) = Len(loops) /\ SameBelow(r, loops, frames[2].fp)
    BY <1>5
  <2> HIDE DEF r
  <2>2. ComesBack(tokens, r, m, t[m])
    BY <2>1 DEF WayBack, InMacro
  <2> QED
    <3> DEFINE n == Len(tokens)
               p == t[m]
    <3>1. tokens'[n + 1] = token /\ n = Len(tokens)
      BY <1>2
    <3>2. ComesBack(tokens, RunToken(tokens'[n + 1], s), m, p) /\ AtEnd(tokens'[n + 1], s)
      BY <2>1, <2>2, <3>1 DEF r
    <3>3. n \in Nat /\ m <= n /\ m \in Nat /\ Len(tokens') = n + 1 /\ \A k \in 1 .. n : tokens'[k] = tokens[k]
      BY <1>1, <1>2, <1>3
    <3> HIDE DEF n, p
    <3>4. ComesBack(tokens', s, m, p)
      BY <1>5, <3>1, <3>2, <3>3, OneTokenMore
    <3> QED
      BY <3>4 DEF p
<1>6. InMacro(m, t)'
  BY <1>5 DEF InMacro
<1>7. \A i \in 1 .. Len(saved') : saved'[i].tokens <= m /\ t[saved'[i].tokens] = saved'[i].loops
  BY DEF WayBack
<1> QED
  BY <1>3, <1>4, <1>6, <1>7 DEF RestoringInv, WayBack


LEMMA EntryTokens ==
  ASSUME NEW s, LoopStack(s)
  PROVE  /\ s # <<>> => LET token == [op |-> "remove", i |-> Len(s)]
                        IN AtEnd(token, s) /\ RunToken(token, s) = Front(s)
         /\ \A c : IsCtx(c) => LET token == [op |-> "insert", i |-> Len(s) + 1, ctx |-> c]
                               IN AtEnd(token, s) /\ RunToken(token, s) = Append(s, c)
         /\ \A n : s # <<>> => LET token == [op |-> "set", i |-> Len(s), counter |-> n]
                               IN AtEnd(token, s) /\ RunToken(token, s) = Counting(s, Len(s), n)
<1>1. ASSUME s # <<>> PROVE LET token == [op |-> "remove", i |-> Len(s)]
                            IN AtEnd(token, s) /\ RunToken(token, s) = Front(s)
  <2> DEFINE token == [op |-> "remove", i |-> Len(s)]
  <2>1. AtEnd(token, s) /\ token.op = "remove"
    BY <1>1 DEF AtEnd
  <2> HIDE DEF token
  <2>2. RunToken(token, s) = Front(s)
    BY <2>1, AtEndRuns
  <2> QED
    BY <2>1, <2>2 DEF token
<1>2. ASSUME NEW c, IsCtx(c) PROVE LET token == [op |-> "insert", i |-> Len(s) + 1, ctx |-> c]
                                   IN AtEnd(token, s) /\ RunToken(token, s) = Append(s, c)
  <2> DEFINE token == [op |-> "insert", i |-> Len(s) + 1, ctx |-> c]
  <2>1. AtEnd(token, s) /\ token.op = "insert" /\ token.ctx = c
    BY <1>2 DEF AtEnd
  <2> HIDE DEF token
  <2>2. RunToken(token, s) = Append(s, c)
    BY <2>1, AtEndRuns
  <2> QED
    BY <2>1, <2>2 DEF token
<1>3. ASSUME NEW n, s # <<>> PROVE LET token == [op |-> "set", i |-> Len(s), counter |-> n]
                                   IN AtEnd(token, s) /\ RunToken(token, s) = Counting(s, Len(s), n)
  <2> DEFINE token == [op |-> "set", i |-> Len(s), counter |-> n]
  <2>1. AtEnd(token, s) /\ token.op = "set" /\ token.counter = n
    BY <1>3 DEF AtEnd
  <2> HIDE DEF token
  <2>2. RunToken(token, s) = Counting(s, Len(s), n)
    BY <2>1, AtEndRuns
  <2> QED
    BY <2>1, <2>2 DEF token
<1> QED
  BY <1>1, <1>2, <1>3

LEMMA CallFrames ==
  ASSUME FramesOK(frames, Len(loops)), Len(loops) \in Nat, Calls
  PROVE  /\ Len(frames') = Len(frames) + 1 /\ frames'[Len(frames) + 1].fp = Len(loops)
         /\ \A i \in 1 .. Len(frames) : frames'[i].fp = frames[i].fp
<1>1. PICK f, g : /\ LikeTop(f) /\ DOMAIN g = DOMAIN CommandLine /\ g.fp = Len(loops)
                  /\ frames' = Append(Append(Front(frames), f), g)
  BY DEF Calls
<1> DEFINE fs == Append(Front(frames), f)
<1>2. IsSeq(fs) /\ Len(fs) = Len(frames) /\ Len(fs) \in Nat /\ \A i \in 1 .. Len(fs) : fs[i].fp = frames[i].fp
  BY <1>1, PutFrames
<1>3. frames' = Append(fs, g)
  BY <1>1
<1> HIDE DEF fs
<1>4. /\ Len(frames') = Len(fs) + 1
      /\ \A j \in 1 .. (Len(fs) + 1) : frames'[j] = IF j = Len(fs) + 1 THEN g ELSE fs[j]
  BY <1>2, <1>3, AppendIs
<1>5. Len(fs) + 1 \in 1 .. (Len(fs) + 1)
  BY <1>2
<1> QED
  BY <1>1, <1>2, <1>4, <1>5

LEMMA LineSteps ==
  ASSUME SessionInv, NEW m \in 0 .. Len(tokens), NEW t, WayBack(m, t), saved' = saved, Len(frames) = 1, Left,
         Rests \/ Enters \/ Leaves \/ Counts \/ Calls \/ Ends
  PROVE  RestoringInv'
<1>1. /\ LoopStack(loops) /\ IsSeq(loops) /\ FramesOK(frames, Len(loops)) /\ Len(loops) \in Nat
      /\ Len(tokens) \in Nat /\ m = Len(tokens) /\ t[m] = loops
  BY DEF SessionInv, WayBack, LoopStack, IsSeq
<1>2. top.fp \in Nat /\ top.fp <= Len(loops)
  <2>1. top.fp \in 0 .. Len(loops)
    BY <1>1, TopFrame
  <2> QED
    BY <1>1, <2>1
<1>3. TopKept => Len(frames') = 1
  BY <1>1, <1>2, KeptFrames
<1>4. CASE Rests
  <2>1. Len(frames') = 1 /\ UNCHANGED <<loops, tokens, saved>>
    BY <1>3, <1>4 DEF Rests
  <2> QED
    BY <2>1, LineRests
<1>5. CASE Enters
  <2>1. PICK c : IsCtx(c) /\ loops' = Append(loops, c)
    BY <1>5 DEF Enters
  <2>2. /\ LoopStack(loops') /\ loops' # <<>> /\ Len(loops') = Len(loops) + 1 /\ Front(loops') = loops
    BY <1>1, <2>1, AppendStack, AppendIs
  <2> DEFINE token == [op |-> "remove", i |-> Len(loops')]
  <2>3. AtEnd(token, loops') /\ RunToken(token, loops') = loops
    BY <2>2, EntryTokens
  <2>4. tokens' = Append(tokens, token)
    BY <1>5, <2>2 DEF Enters
  <2> HIDE DEF token
  <2>5. Another(token, loops) /\ Len(frames') = 1
    BY <1>3, <1>5, <2>2, <2>3, <2>4 DEF Another, Enters
  <2> QED
    BY <2>5, LineGoesOn
<1>6. CASE Leaves
  <2>1. loops # <<>> /\ IsCtx(ctx) /\ loops' = Front(loops)
    BY <1>1, <1>2, <1>6, TopLoop DEF Leaves
  <2>2. LoopStack(loops') /\ Len(loops') = Len(loops) - 1 /\ Append(loops', ctx) = loops
    BY <1>1, <2>1, FrontStack, FrontIs DEF ctx
  <2> DEFINE token == [op |-> "insert", i |-> Len(loops') + 1, ctx |-> ctx]
  <2>3. AtEnd(token, loops') /\ RunToken(token, loops') = loops
    BY <2>1, <2>2, EntryTokens
  <2>4. tokens' = Append(tokens, token)
    <3>1. ~(Break /\ err' # "none")
      BY <1>1, <2>2 DEF Left
    <3>2. Len(loops') + 1 = Len(loops)
      BY <1>1, <2>2
    <3> QED
      BY <1>6, <3>1, <3>2 DEF Leaves
  <2> HIDE DEF token
  <2>5. Another(token, loops) /\ Len(frames') = 1
    BY <1>3, <1>6, <2>2, <2>3, <2>4 DEF Another, Leaves
  <2> QED
    BY <2>5, LineGoesOn
<1>7. CASE Counts
  <2>1. /\ loops # <<>> /\ Len(loops) \in 1 .. Len(loops) /\ ctx = loops[Len(loops)]
        /\ loops' = Counting(loops, Len(loops), ctx.counter - 1)
    BY <1>1, <1>2, <1>7, TopLoop DEF Counts
  <2>2. LoopStack(loops') /\ Len(loops') = Len(loops) /\ Counting(loops', Len(loops'), ctx.counter) = loops
    BY <1>1, <2>1, CountingIs
  <2>3. loops' # <<>>
    BY <2>1, <2>2
  <2> DEFINE token == [op |-> "set", i |-> Len(loops'), counter |-> ctx.counter]
  <2>4. AtEnd(token, loops') /\ RunToken(token, loops') = loops
    BY <2>2, <2>3, EntryTokens
  <2>5. tokens' = Append(tokens, token)
    <3>1. AtCommandLine
      BY SessionAssumption DEF AtCommandLine
    <3> QED
      BY <1>7, <2>2, <3>1 DEF Counts
  <2> HIDE DEF token
  <2>6. Another(token, loops) /\ Len(frames') = 1
    BY <1>3, <1>7, <2>2, <2>4, <2>5 DEF Another, Counts
  <2> QED
    BY <2>6, LineGoesOn
<1>8. CASE Calls
  <2>1. Len(frames') = 2 /\ frames'[2].fp = Len(loops) /\ UNCHANGED <<loops, tokens>>
    BY <1>1, <1>8, CallFrames DEF Calls
  <2>2. ASSUME NEW s, LoopStack(s), Len(s) = Len(loops'), SameBelow(s, loops', frames'[2].fp)
        PROVE  ComesBack(tokens', s, m, t[m])
    <3>1. IsSeq(s) /\ Len(s) = Len(loops) /\ \A j \in 1 .. Len(s) : s[j] = loops[j]
      BY <2>1, <2>2 DEF SameBelow, LoopStack
    <3>2. s = loops
      BY <1>1, <3>1, EqualSeqs
    <3>3. LoopStack(t[m])
      BY <1>1
    <3>4. Trail(tokens', t, m, Len(tokens'))
      BY <1>1, <2>1, <3>3 DEF Trail
    <3> QED
      BY <1>1, <2>1, <3>2, <3>4 DEF ComesBack
  <2>3. InMacro(m, t)'
    BY <2>2 DEF InMacro
  <2>4. Trail(tokens', t, 0, m) /\ m \in 0 .. Len(tokens')
    BY <2>1 DEF WayBack
  <2>5. \A i \in 1 .. Len(saved') : saved'[i].tokens <= m /\ t[saved'[i].tokens] = saved'[i].loops
    BY DEF WayBack
  <2> QED
    BY <2>1, <2>3, <2>4, <2>5 DEF RestoringInv, WayBack
<1>9. CASE Ends
  BY <1>9 DEF Ends
<1> QED
  BY <1>4, <1>5, <1>6, <1>7, <1>8, <1>9


LEMMA MacroSteps ==
  ASSUME SessionInv, NEW m \in 0 .. Len(tokens), NEW t, WayBack(m, t), saved' = saved, Len(frames) # 1, Left,
         Rests \/ Enters \/ Leaves \/ Counts \/ Calls \/ Ends
  PROVE  RestoringInv'
<1> DEFINE b == frames[2].fp
<1>1. /\ LoopStack(loops) /\ IsSeq(loops) /\ FramesOK(frames, Len(loops)) /\ Len(loops) \in Nat
      /\ Len(tokens) \in Nat
  BY DEF SessionInv, LoopStack, IsSeq
<1>2. IsSeq(frames) /\ frames # <<>> /\ Len(frames) \in Nat \ {0} /\ top = frames[Len(frames)] /\ top.fp \in 0 .. Len(loops)
  BY <1>1, TopFrame
<1>3. 2 \in 1 .. Len(frames) /\ Len(frames) \in 1 .. Len(frames) /\ 2 <= Len(frames)
  <2> DEFINE n == Len(frames)
  <2>1. n \in Nat \ {0} /\ n # 1
    BY <1>2
  <2> HIDE DEF n
  <2>2. 2 \in 1 .. n /\ n \in 1 .. n /\ 2 <= n
    BY <2>1
  <2> QED
    BY <2>2 DEF n
<1>4. b \in Nat /\ b <= top.fp /\ top.fp \in Nat /\ top.fp <= Len(loops)
  BY <1>1, <1>2, <1>3 DEF FramesOK
<1>5. TopKept => Len(frames') # 1 /\ frames'[2].fp = b
  BY <1>1, <1>3, <1>4, KeptFrames
<1> HIDE DEF b
<1>6. CASE Rests
  <2>1. Len(frames') # 1 /\ frames'[2].fp = b /\ loops' = loops /\ tokens' = tokens
    BY <1>5, <1>6 DEF Rests
  <2> QED
    BY <2>1, MacroGoesOn DEF SameBelow, b
<1>7. CASE Calls
  <2>1. Len(frames') # 1 /\ frames'[2].fp = b /\ loops' = loops /\ tokens' = tokens
    BY <1>1, <1>2, <1>3, <1>7, CallFrames DEF Calls, b
  <2> QED
    BY <2>1, MacroGoesOn DEF SameBelow, b
<1>8. CASE Enters
  <2>1. PICK c : IsCtx(c) /\ loops' = Append(loops, c)
    BY <1>8 DEF Enters
  <2>2. /\ Len(loops') = Len(loops) + 1
        /\ \A j \in 1 .. (Len(loops) + 1) : loops'[j] = IF j = Len(loops) + 1 THEN c ELSE loops[j]
    BY <1>1, <2>1, AppendIs
  <2> DEFINE token == [op |-> "remove", i |-> Len(loops')]
  <2>3. tokens' = Append(tokens, token)
    BY <1>8, <2>2 DEF Enters
  <2> HIDE DEF token
  <2>4. ASSUME NEW s, LoopStack(s), Len(s) = Len(loops'), SameBelow(s, loops', b)
        PROVE  /\ AtEnd(token, s) /\ LoopStack(RunToken(token, s)) /\ Len(RunToken(token, s)) = Len(loops)
               /\ SameBelow(RunToken(token, s), loops, b)
    <3>1. s # <<>> /\ IsSeq(s) /\ Len(s) = Len(loops) + 1
      BY <1>1, <2>2, <2>4 DEF LoopStack
    <3>2. AtEnd(token, s) /\ RunToken(token, s) = Front(s)
      BY <2>4, <3>1, EntryTokens DEF token
    <3>3. /\ LoopStack(Front(s)) /\ Len(Front(s)) = Len(loops)
          /\ \A j \in 1 .. (Len(s) - 1) : Front(s)[j] = s[j]
      <4>1. LoopStack(Front(s)) /\ Len(Front(s)) = Len(s) - 1
            /\ \A j \in 1 .. (Len(s) - 1) : Front(s)[j] = s[j]
        BY <2>4, <3>1, FrontIs, FrontStack
      <4> QED
        BY <1>1, <3>1, <4>1
    <3>4. \A j \in 1 .. b : j \in 1 .. Len(loops) /\ j \in 1 .. (Len(s) - 1) /\ j # Len(loops) + 1 /\ j \in 1 .. (Len(loops) + 1)
      BY <1>1, <1>4, <3>1
    <3>5. SameBelow(Front(s), loops, b)
      BY <2>2, <2>4, <3>3, <3>4 DEF SameBelow
    <3> QED
      BY <3>2, <3>3, <3>5
  <2>5. Len(frames') # 1 /\ frames'[2].fp = b
    BY <1>5, <1>8 DEF Enters
  <2> QED
    BY <2>3, <2>4, <2>5, MacroGoesFurther DEF b
<1>9. CASE Leaves
  <2>1. loops # <<>> /\ IsCtx(ctx) /\ loops' = Front(loops) /\ b < Len(loops)
    BY <1>1, <1>4, <1>9, TopLoop DEF Leaves, InLoop
  <2>2. /\ Len(loops') = Len(loops) - 1
        /\ \A j \in 1 .. (Len(loops) - 1) : loops'[j] = loops[j]
    BY <1>1, <2>1, FrontIs
  <2> DEFINE token == [op |-> "insert", i |-> Len(loops), ctx |-> ctx]
  <2>3. tokens' = Append(tokens, token)
    <3>1. ~(Break /\ err' # "none")
      BY <1>1, <2>2 DEF Left
    <3> QED
      BY <1>9, <3>1 DEF Leaves
  <2> HIDE DEF token
  <2>4. ASSUME NEW s, LoopStack(s), Len(s) = Len(loops'), SameBelow(s, loops', b)
        PROVE  /\ AtEnd(token, s) /\ LoopStack(RunToken(token, s)) /\ Len(RunToken(token, s)) = Len(loops)
               /\ SameBelow(RunToken(token, s), loops, b)
    <3>1. IsSeq(s) /\ Len(s) + 1 = Len(loops) /\ Len(s) = Len(loops) - 1
      BY <1>1, <2>2, <2>4 DEF LoopStack
    <3>2. AtEnd(token, s) /\ RunToken(token, s) = Append(s, ctx)
      <4>1. token = [op |-> "insert", i |-> Len(s) + 1, ctx |-> ctx]
        BY <3>1 DEF token
      <4> QED
        BY <2>1, <2>4, <4>1, EntryTokens
    <3>3. /\ LoopStack(Append(s, ctx)) /\ Len(Append(s, ctx)) = Len(loops)
          /\ \A j \in 1 .. (Len(s) + 1) : Append(s, ctx)[j] = IF j = Len(s) + 1 THEN ctx ELSE s[j]
      BY <2>1, <2>4, <3>1, AppendIs, AppendStack
    <3>4. \A j \in 1 .. b : j \in 1 .. (Len(s) + 1) /\ j # Len(s) + 1 /\ j \in 1 .. (Len(loops) - 1)
      <4> DEFINE n == Len(loops)
                 k == Len(s)
      <4>1. n \in Nat /\ k + 1 = n /\ k = n - 1 /\ b \in Nat /\ b < n
        BY <1>1, <1>4, <2>1, <3>1
      <4> HIDE DEF n, k
      <4>2. \A j \in 1 .. b : j \in 1 .. (k + 1) /\ j # k + 1 /\ j \in 1 .. (n - 1)
        BY <4>1
      <4> QED
        BY <4>2 DEF n, k
    <3>5. SameBelow(Append(s, ctx), loops, b)
      BY <2>2, <2>4, <3>3, <3>4 DEF SameBelow
    <3> QED
      BY <3>2, <3>3, <3>5
  <2>5. Len(frames') # 1 /\ frames'[2].fp = b
    BY <1>5, <1>9 DEF Leaves
  <2> QED
    BY <2>3, <2>4, <2>5, MacroGoesFurther DEF b
<1>10. CASE Counts
  <2>1. /\ Len(loops) \in 1 .. Len(loops) /\ loops' = Counting(loops, Len(loops), ctx.counter - 1) /\ b < Len(loops)
    BY <1>1, <1>4, <1>10, TopLoop DEF Counts, InLoop
  <2>2. Len(loops') = Len(loops) /\ \A j \in 1 .. Len(loops) : j # Len(loops) => loops'[j] = loops[j]
    BY <1>1, <2>1, CountingIs
  <2>3. \A j \in 1 .. b : j \in 1 .. Len(loops) /\ j # Len(loops)
    BY <1>1, <1>4, <2>1
  <2>4. SameBelow(loops', loops, b)
    BY <2>2, <2>3 DEF SameBelow
  <2>5. Len(frames') # 1 /\ frames'[2].fp = b /\ tokens' = tokens
    BY <1>5, <1>10 DEF Counts, AtCommandLine
  <2> QED
    BY <2>2, <2>4, <2>5, MacroGoesOn DEF b
<1>11. CASE Ends
  <2>1. frames' = Front(frames) /\ loops' = SubSeq(loops, 1, top.fp) /\ tokens' = tokens /\ Len(loops) = top.fp
    BY <1>1, <1>4, <1>11 DEF Ends, Left, InLoop
  <2>2. loops' = loops
    <3>1. /\ IsSeq(loops') /\ Len(loops') = Len(loops) /\ \A j \in 1 .. Len(loops) : loops'[j] = loops[j]
      BY <1>1, <1>2, <2>1, PrefixIs
    <3> QED
      BY <1>1, <3>1, EqualSeqs
  <2>3. Len(frames') = Len(frames) - 1 /\ \A j \in 1 .. (Len(frames) - 1) : frames'[j] = frames[j]
    BY <1>2, <2>1, FrontIs
  <2>4. CASE Len(frames') # 1
    <3>1. 2 \in 1 .. (Len(frames) - 1)
      BY <1>2, <1>3, <2>3, <2>4
    <3>2. frames'[2].fp = b
      BY <2>3, <3>1 DEF b
    <3> QED
      BY <2>1, <2>2, <2>4, <3>2, MacroGoesOn DEF SameBelow, b
  <2>5. CASE Len(frames') = 1
    <3>1. PICK g : /\ Trail(tokens, g, 0, Len(tokens)) /\ g[Len(tokens)] = loops
                   /\ \A k \in 0 .. m : g[k] = t[k]
      BY AllTheWay
    <3>2. \A i \in 1 .. Len(saved) : saved[i].tokens <= Len(tokens) /\ g[saved[i].tokens] = saved[i].loops
      <4> SUFFICES ASSUME NEW i \in 1 .. Len(saved)
                   PROVE  saved[i].tokens <= Len(tokens) /\ g[saved[i].tokens] = saved[i].loops
        OBVIOUS
      <4>1. saved[i].tokens \in 0 .. Len(tokens) /\ saved[i].tokens <= m /\ t[saved[i].tokens] = saved[i].loops
        BY DEF SessionInv, WayBack
      <4>2. saved[i].tokens \in 0 .. m
        BY <1>1, <4>1
      <4> QED
        BY <1>1, <3>1, <4>1, <4>2
    <3>3. WayBack(Len(tokens), g)'
      BY <2>1, <2>2, <2>5, <3>1, <3>2 DEF WayBack
    <3>4. Len(tokens') \in 0 .. Len(tokens')
      BY <1>1, <2>1
    <3> QED
      BY <3>3, <3>4 DEF RestoringInv
  <2> QED
    BY <2>4, <2>5
<1> QED
  BY <1>6, <1>7, <1>8, <1>9, <1>10, <1>11


LEMMA StepRestores ==
  ASSUME SessionInv, RestoringInv, Step, saved' = saved, Left
  PROVE  RestoringInv'
<1>1. Rests \/ Enters \/ Leaves \/ Counts \/ Calls \/ Ends
  BY ExecutionKeeps
<1>2. PICK m, t : m \in 0 .. Len(tokens) /\ WayBack(m, t)
  BY DEF RestoringInv
<1>3. CASE Len(frames) = 1
  BY <1>1, <1>2, <1>3, LineSteps
<1>4. CASE Len(frames) # 1
  BY <1>1, <1>2, <1>4, MacroSteps
<1> QED
  BY <1>3, <1>4

LEMMA TypeRestores ==
  ASSUME SessionInv, RestoringInv, Type
  PROVE  RestoringInv'
<1> DEFINE r == [x |-> x, frames |-> frames, skip |-> skip, backup |-> backup,
                 trace |-> trace, tokens |-> Len(tokens), loops |-> loops]
<1>1. /\ Len(frames) = 1 /\ UNCHANGED <<loops, tokens>> /\ saved' = Append(saved, r)
      /\ \E c : Put([top EXCEPT !.text = Append(@, c)])
  BY DEF Type, Idle
<1>2. FramesOK(frames, Len(loops)) /\ Len(loops) \in Nat /\ Len(tokens) \in Nat /\ IsSeq(saved)
  BY DEF SessionInv, LoopStack, IsSeq
<1>3. Len(frames') = 1
  <2>1. "fp" \in DOMAIN top
    BY <1>2, TopFrame
  <2>2. \A v : LikeTop([top EXCEPT !.text = v])
    BY <2>1 DEF LikeTop
  <2>3. PICK c : frames' = Append(Front(frames), [top EXCEPT !.text = Append(@, c)])
    BY <1>1 DEF Put
  <2>4. LikeTop([top EXCEPT !.text = Append(@, c)])
    BY <2>2
  <2> QED
    BY <1>1, <1>2, <2>3, <2>4, PutFrames
<1>4. PICK m, t : m \in 0 .. Len(tokens) /\ WayBack(m, t)
  BY DEF RestoringInv
<1>5. r.tokens = Len(tokens) /\ r.loops = loops
  OBVIOUS
<1> HIDE DEF r
<1>6. /\ Len(saved') = Len(saved) + 1 /\ Len(saved) \in Nat
      /\ \A i \in 1 .. (Len(saved) + 1) : saved'[i] = IF i = Len(saved) + 1 THEN r ELSE saved[i]
  BY <1>1, <1>2, AppendIs
<1>7. m = Len(tokens) /\ t[m] = loops /\ Trail(tokens, t, 0, m)
  BY <1>1, <1>4 DEF WayBack
<1>8. \A i \in 1 .. Len(saved') : saved'[i].tokens <= m /\ t[saved'[i].tokens] = saved'[i].loops
  <2> SUFFICES ASSUME NEW i \in 1 .. Len(saved')
               PROVE  saved'[i].tokens <= m /\ t[saved'[i].tokens] = saved'[i].loops
    OBVIOUS
  <2>1. CASE i = Len(saved) + 1
    BY <1>2, <1>5, <1>6, <1>7, <2>1
  <2>2. CASE i # Len(saved) + 1
    <3>1. i \in 1 .. Len(saved) /\ saved'[i] = saved[i]
      BY <1>6, <2>2
    <3> QED
      BY <1>4, <3>1 DEF WayBack
  <2> QED
    BY <2>1, <2>2
<1>9. m = Len(tokens') /\ t[m] = loops' /\ Trail(tokens', t, 0, m) /\ m \in 0 .. Len(tokens')
  BY <1>1, <1>2, <1>7
<1> QED
  BY <1>3, <1>8, <1>9 DEF RestoringInv, WayBack

LEMMA UndoRestores ==
  ASSUME SessionInv, RestoringInv, saved # <<>>, Undo
  PROVE  RestoringInv'
<1> DEFINE s == Last(saved)
           n == s.tokens
<1>1. /\ IsSeq(saved) /\ IsSeq(tokens) /\ Len(tokens) \in Nat
  BY DEF SessionInv, IsSeq
<1>2. /\ loops' = Undone(n) /\ tokens' = SubSeq(tokens, 1, n) /\ frames' = s.frames /\ saved' = Front(saved)
  BY DEF Undo
<1>3. /\ Len(saved) \in Nat \ {0} /\ Len(Front(saved)) = Len(saved) - 1
      /\ \A j \in 1 .. (Len(saved) - 1) : Front(saved)[j] = saved[j]
      /\ s = saved[Len(saved)]
  BY <1>1, FrontIs
<1>4. Len(saved) \in 1 .. Len(saved) /\ Len(saved) \in DOMAIN saved
  BY <1>1, <1>3, SeqIs DEF IsSeq
<1>5. n \in 0 .. Len(tokens) /\ Len(s.frames) = 1 /\ n \in Nat
  BY <1>1, <1>3, <1>4 DEF SessionInv
<1>6. PICK m, t : m \in 0 .. Len(tokens) /\ WayBack(m, t)
  BY DEF RestoringInv
<1>7. n <= m /\ t[n] = s.loops /\ Trail(tokens, t, 0, m) /\ m \in Nat
  BY <1>1, <1>3, <1>4, <1>6 DEF WayBack
<1>8. loops' = t[n]
  <2>1. Undone(saved[Len(saved)].tokens) = saved[Len(saved)].loops
    BY <1>4, TrailRestores DEF RuboutRestoresLoops
  <2> QED
    BY <1>2, <1>3, <1>7, <2>1
<1> HIDE DEF s
<1>9. Len(tokens') = n /\ \A k \in 1 .. n : tokens'[k] = tokens[k]
  BY <1>1, <1>2, <1>5, PrefixIs
<1>10. Trail(tokens', t, 0, n)
  <2>1. Trail(tokens, t, 0, n)
    BY <1>5, <1>7, ShorterTrail
  <2> QED
    BY <1>5, <1>9, <2>1, SameTrail
<1>11. \A i \in 1 .. Len(saved') : saved'[i].tokens <= n /\ t[saved'[i].tokens] = saved'[i].loops
  <2> SUFFICES ASSUME NEW i \in 1 .. Len(saved')
               PROVE  saved'[i].tokens <= n /\ t[saved'[i].tokens] = saved'[i].loops
    OBVIOUS
  <2>1. i \in 1 .. Len(saved) /\ i <= Len(saved) /\ saved'[i] = saved[i]
    BY <1>2, <1>3
  <2>2. saved[i].tokens <= saved[Len(saved)].tokens
    BY <1>4, <2>1 DEF SessionInv
  <2> QED
    BY <1>3, <1>6, <2>1, <2>2 DEF WayBack
<1>12. n \in 0 .. Len(tokens') /\ Len(frames') = 1 /\ n = Len(tokens')
  BY <1>2, <1>5, <1>9
<1> QED
  BY <1>8, <1>10, <1>11, <1>12 DEF RestoringInv, WayBack

LEMMA EmptyRestores ==
  ASSUME loops = <<>>, tokens = <<>>, saved = <<>>, Len(frames) = 1
  PROVE  RestoringInv
<1> DEFINE t == [k \in 0 .. 0 |-> <<>>]
<1>1. Len(tokens) = 0 /\ Len(saved) = 0 /\ LoopStack(<<>>)
  BY DEF LoopStack, IsSeq
<1>2. t[0] = <<>>
  OBVIOUS
<1> HIDE DEF t
<1>3. Trail(tokens, t, 0, 0)
  BY <1>1, <1>2 DEF Trail
<1>4. WayBack(0, t)
  BY <1>1, <1>2, <1>3 DEF WayBack
<1> QED
  BY <1>1, <1>4 DEF RestoringInv

LEMMA NextRestores ==
  ASSUME SessionInv, RestoringInv, [Next]_sessionVars, Left \/ UNCHANGED sessionVars
  PROVE  RestoringInv'
<1>1. CASE UNCHANGED sessionVars
  BY <1>1 DEF RestoringInv, WayBack, InMacro, sessionVars, vars
<1>2. CASE Type
  BY <1>2, TypeRestores
<1>3. CASE Execution
  <2>1. CASE Left
    BY <1>3, <2>1, StepRestores DEF Execution
  <2> QED
    BY <1>1, <2>1
<1>4. CASE \E why : Throw(why) /\ saved' = saved
  BY <1>4 DEF Throw, RestoringInv, WayBack, InMacro
<1>5. CASE Interrupt
  BY <1>4, <1>5 DEF Interrupt
<1>6. CASE RejectKey
  BY <1>6, UndoRestores DEF RejectKey, SessionInv
<1>7. CASE Rubout
  BY <1>7, UndoRestores DEF Rubout
<1>8. CASE Terminate
  <2>1. PICK y : \/ Throw(y.err) /\ saved' = saved
                 \/ StartLine(y)
    BY <1>8 DEF Terminate
  <2>2. CASE StartLine(y)
    <3>1. loops' = <<>> /\ tokens' = <<>> /\ saved' = <<>> /\ Len(frames') = 1
      BY <2>2 DEF StartLine
    <3>2. (loops = <<>> /\ tokens = <<>> /\ saved = <<>> /\ Len(frames) = 1 => RestoringInv)'
      BY EmptyRestores, PTL
    <3> QED
      BY <3>1, <3>2
  <2> QED
    BY <1>4, <2>1, <2>2
<1> QED
  BY <1>1, <1>2, <1>3, <1>5, <1>6, <1>7, <1>8 DEF Next

(* Rubout and error recovery bring back the loops that there were before a *)
(* command was typed, whatever has been done since, in macros too: every   *)
(* undo token finds the entry that it is about (undo.c, core-commands.c).  *)
(* That is under the hypothesis that no macro returns from within an open  *)
(* loop and no ; fails to close its braces: the code loses a loop then.    *)
THEOREM RuboutRestoresLoopsProof == Spec /\ LoopsAreLeft => []RuboutRestoresLoops
<1>1. Init => RestoringInv
  <2> SUFFICES ASSUME Init PROVE RestoringInv
    OBVIOUS
  <2>1. loops = <<>> /\ tokens = <<>> /\ saved = <<>> /\ Len(frames) = 1
    BY DEF Init
  <2> QED
    BY <2>1, EmptyRestores
<1>2. SessionInv /\ RestoringInv /\ [Next]_sessionVars /\ [Left]_sessionVars => RestoringInv'
  BY NextRestores
<1>3. SessionInv /\ RestoringInv => RuboutRestoresLoops
  BY TrailRestores
<1> QED
  BY <1>1, <1>2, <1>3, SessionInvariant, PTL DEF Spec, LoopsAreLeft
=============================================================================
