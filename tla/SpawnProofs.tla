---------------------------- MODULE SpawnProofs -----------------------------
(***************************************************************************)
(* A command that pipes a range through a process works on what it has     *)
(* found: whatever has been written to the document or the register while  *)
(* the process ran, the tokens of the command restore both when it fails,  *)
(* and when it is rubbed out.  And what the process reads is the range,    *)
(* whatever pieces it arrives in.                                          *)
(***************************************************************************)
EXTENDS Spawn, SequenceLemmas

-----------------------------------------------------------------------------
(* The inductive invariant.                                                *)

Characters == {"r", "CR", "LF"} \cup ToSet(Text) \cup UNION {ToSet(bytes) : bytes \in Chunks}
Texts == Seq(Characters)
Docs == [text : Texts, dot : Nat, undo : Seq(Texts), dirty : BOOLEAN, ranges : Seq(Int)]
Regs == [text : Texts, eol : EolStyles]
Writers == [halfway : BOOLEAN, last : Characters \cup {"none"}, seq : {EolSeq(e) : e \in EolStyles}]
Readers == [block : Texts, off : Nat, piece : Nat, last : Characters \cup {"none", "CRLF"},
            style : EolStyles \cup {"none"}, mixed : BOOLEAN]
Contexts == [from : Int, to : Int, start : Int, added : BOOLEAN, interrupted : BOOLEAN,
             error : {"none", "pipe", "memory", "exit", "signal"}, rc : {0, 1},
             argument : {"none", "q"}, quit : BOOLEAN, turn : SUBSET {"stdin", "stdout"},
             writer : Writers, reader : Readers]

(* The piece that was returned last is within the block.                   *)
WithinBlock(r) ==
  /\ r.off + r.piece <= Len(r.block)
  /\ ~AutoEol => r.off + r.piece = Len(r.block)

TypeOK ==
  /\ doc \in Docs /\ doc.dot <= Len(doc.text)
  /\ reg \in Regs
  /\ spawn \in Contexts /\ WithinBlock(spawn.reader)
  /\ loop \in {"idle", "running", "flushing", "reading", "reaping"}
  /\ process \in [status : {"none", "running", "exited", "failed", "killed"},
                  read : Texts, written : Texts, eof : BOOLEAN]
  /\ pipes \in [buffer : Texts, in : Texts, out : Texts, open : BOOLEAN, watched : BOOLEAN]
  /\ Len(pipes.buffer) <= BufferSize /\ Len(pipes.in) <= PipeSize
  /\ interrupted \in BOOLEAN
  /\ result \in [kind : {"none", "error", "failure", "success"}, value : {-1, 0, 1}]
  /\ before \in [doc : Docs, reg : Regs, target : {"none", "q"}]
  /\ before.doc.dot <= Len(before.doc.text)
  /\ count \in Nat

(* Between commands: the tokens restore what the last command has found.   *)
Restored(argument) ==
  [doc |-> before.doc, reg |-> before.reg, spawn |-> [spawn EXCEPT !.argument = argument]]
Settled ==
  /\ \E argument \in {"none", "q"} : Undone(Now, tokens) = Restored(argument)
  /\ result.kind = "error" => doc = before.doc /\ reg = before.reg

(* During a command: what of the document and the register is still what   *)
(* the command has found, and the tokens for what is not.                  *)
InText ==
  /\ 0 <= spawn.from /\ spawn.from <= spawn.start /\ spawn.start <= spawn.to
  /\ spawn.to <= Len(before.doc.text)
  /\ spawn.writer.halfway => AutoEol /\ spawn.start < spawn.to
OnDocument ==
  /\ reg = before.reg
  /\ doc.undo = before.doc.undo /\ doc.dirty = before.doc.dirty /\ doc.ranges = before.doc.ranges
  /\ spawn.to <= doc.dot
  /\ SubSeq(doc.text, 1, spawn.to) = SubSeq(before.doc.text, 1, spawn.to)
  /\ ~spawn.added => doc.text = before.doc.text
  /\ tokens = <<Token("SCI_GOTOPOS", before.doc.dot)>>
OnRegister ==
  /\ doc = before.doc /\ reg.eol = before.reg.eol
  /\ ~spawn.added => reg = before.reg
  /\ \E ts \in {<<>>, <<Token("argument", "none")>>, <<Token("argument", "q")>>} :
       tokens = IF spawn.added THEN Append(ts, Token("register", before.reg.text)) ELSE ts
Busy ==
  /\ result.kind = "none" /\ InText
  /\ IF spawn.argument = "none" THEN OnDocument ELSE OnRegister

IInv == TypeOK /\ IF Running THEN Busy ELSE Settled

-----------------------------------------------------------------------------
(* Running tokens.                                                         *)

(* The last token is run first.                                            *)
LEMMA UndoneAppend ==
  ASSUME NEW T, NEW ts \in Seq(T), NEW t \in T, NEW s
  PROVE  Undone(s, <<>>) = s /\ Undone(s, Append(ts, t)) = Undone(RunToken(s, t), ts)
<1> DEFINE Is(f, x, qs) == f = [n \in 0 .. Len(qs) |-> IF n = Len(qs) THEN x ELSE RunToken(f[n + 1], qs[n + 1])]
<1>1. ASSUME NEW x, NEW qs \in Seq(T)
      PROVE  \E f : Is(f, x, qs) /\ Undone(x, qs) = f[0]
  <2> DEFINE N == Len(qs)
             S == {k \in Nat : k <= N =>
                     \E f : f = [n \in (N - k) .. N |-> IF n = N THEN x ELSE RunToken(f[n + 1], qs[n + 1])]}
  <2>0. N \in Nat
    OBVIOUS
  <2>1. Undone(x, qs) = (CHOOSE f : Is(f, x, qs))[0]
    BY DEF Undone
  <2>2. 0 \in S
    <3> DEFINE f == [n \in N .. N |-> x]
    <3>1. f = [n \in (N - 0) .. N |-> IF n = N THEN x ELSE RunToken(f[n + 1], qs[n + 1])]
      BY <2>0
    <3> HIDE DEF f
    <3> QED
      BY <3>1
  <2>3. ASSUME NEW k \in Nat, k \in S PROVE k + 1 \in S
    <3> SUFFICES ASSUME k + 1 <= N
                 PROVE  \E g : g = [n \in (N - (k + 1)) .. N |-> IF n = N THEN x ELSE RunToken(g[n + 1], qs[n + 1])]
      OBVIOUS
    <3>1. PICK f : f = [n \in (N - k) .. N |-> IF n = N THEN x ELSE RunToken(f[n + 1], qs[n + 1])]
      BY <2>3
    <3> DEFINE m == N - (k + 1)
               y == RunToken(f[m + 1], qs[m + 1])
               g == [n \in m .. N |-> IF n = m THEN y ELSE f[n]]
    <3>2. m \in Int /\ m < N /\ m + 1 = N - k /\ m + 1 <= N
      BY <2>0
    <3> HIDE DEF m, N
    <3>3. \A n \in m .. N : g[n] = IF n = N THEN x ELSE RunToken(g[n + 1], qs[n + 1])
      <4> SUFFICES ASSUME NEW n \in m .. N
                   PROVE  g[n] = IF n = N THEN x ELSE RunToken(g[n + 1], qs[n + 1])
        OBVIOUS
      <4> HIDE DEF y
      <4>1. CASE n = m
        <5>1. g[n] = y /\ g[m + 1] = f[m + 1] /\ n # N
          BY <2>0, <3>2, <4>1
        <5> QED
          BY <4>1, <5>1 DEF y
      <4>2. CASE n # m
        <5>1. n \in (N - k) .. N /\ g[n] = f[n]
          BY <2>0, <3>2, <4>2
        <5>2. f[n] = IF n = N THEN x ELSE RunToken(f[n + 1], qs[n + 1])
          BY <3>1, <5>1
        <5>3. n # N => g[n + 1] = f[n + 1]
          BY <2>0, <3>2, <4>2
        <5> QED
          BY <5>1, <5>2, <5>3
      <4> QED
        BY <4>1, <4>2
    <3>4. g = [n \in m .. N |-> g[n]]
      OBVIOUS
    <3> HIDE DEF g
    <3>5. g = [n \in m .. N |-> IF n = N THEN x ELSE RunToken(g[n + 1], qs[n + 1])]
      BY <3>3, <3>4
    <3> QED
      BY <3>5 DEF m
  <2> HIDE DEF S
  <2>4. N \in S
    <3>1. Nat \subseteq S
      BY <2>2, <2>3, SetInduction
    <3> QED
      BY <2>0, <3>1
  <2>5. \E f : Is(f, x, qs)
    <3>1. N - N = 0
      BY <2>0
    <3>2. \E f : f = [n \in (N - N) .. N |-> IF n = N THEN x ELSE RunToken(f[n + 1], qs[n + 1])]
      BY <2>4 DEF S
    <3> QED
      BY <3>1, <3>2
  <2> QED
    BY <2>1, <2>5
<1>2. Undone(s, <<>>) = s
  <2> DEFINE z == <<>>
  <2>1. z \in Seq(T) /\ Len(z) = 0
    OBVIOUS
  <2> HIDE DEF z, Is
  <2>2. PICK f : Is(f, s, z) /\ Undone(s, z) = f[0]
    BY <1>1, <2>1
  <2> QED
    BY <2>1, <2>2 DEF Is, z
<1> DEFINE q == Append(ts, t)
           N == Len(ts)
<1>3. /\ q \in Seq(T) /\ Len(q) = N + 1 /\ N \in Nat /\ q[N + 1] = t
      /\ \A i \in 1 .. N : q[i] = ts[i]
  BY AppendProperties
<1>4. PICK f : Is(f, s, q) /\ Undone(s, q) = f[0]
  BY <1>1, <1>3
<1>5. PICK g : Is(g, RunToken(s, t), ts) /\ Undone(RunToken(s, t), ts) = g[0]
  BY <1>1
<1> DEFINE y == RunToken(s, t)
<1>6. f = [n \in 0 .. (N + 1) |-> IF n = N + 1 THEN s ELSE RunToken(f[n + 1], q[n + 1])]
  BY <1>3, <1>4
<1>7. g = [n \in 0 .. N |-> IF n = N THEN y ELSE RunToken(g[n + 1], ts[n + 1])]
  BY <1>5
<1> HIDE DEF q, N, Is
<1> DEFINE S == {k \in Nat : k <= N => f[N - k] = g[N - k]}
<1>8. 0 \in S
  <2>1. f[N + 1] = s /\ f[N] = RunToken(f[N + 1], q[N + 1]) /\ g[N] = y
    BY <1>3, <1>6, <1>7
  <2>2. N - 0 = N
    BY <1>3
  <2> QED
    BY <1>3, <2>1, <2>2
<1>9. ASSUME NEW k \in Nat, k \in S PROVE k + 1 \in S
  <2> SUFFICES ASSUME k + 1 <= N PROVE f[N - (k + 1)] = g[N - (k + 1)]
    OBVIOUS
  <2> DEFINE m == N - (k + 1)
  <2>1. m \in 0 .. N /\ m # N /\ m # N + 1 /\ m \in 0 .. (N + 1) /\ m + 1 = N - k /\ k <= N /\ m + 1 \in 1 .. N
    BY <1>3
  <2> HIDE DEF m
  <2>2. f[m] = RunToken(f[m + 1], q[m + 1]) /\ g[m] = RunToken(g[m + 1], ts[m + 1])
    BY <1>6, <1>7, <2>1
  <2>3. f[m + 1] = g[m + 1] /\ q[m + 1] = ts[m + 1]
    BY <1>3, <1>9, <2>1
  <2> QED
    BY <2>2, <2>3 DEF m
<1> HIDE DEF S
<1>10. N \in S
  <2>1. Nat \subseteq S
    BY <1>8, <1>9, SetInduction
  <2> QED
    BY <1>3, <2>1
<1>11. f[0] = g[0]
  <2>1. N - N = 0
    BY <1>3
  <2> QED
    BY <1>3, <1>10, <2>1 DEF S
<1> QED
  BY <1>2, <1>4, <1>5, <1>11 DEF q

-----------------------------------------------------------------------------
(* Types of what the reader and the writer return.                         *)

LEMMA EolTypes ==
  /\ \A r \in Readers : \A i \in (r.off + 1) .. Len(r.block) : EolAt(r, i) \in EolStyles \cup {"none"}
  /\ \A w \in Writers : w.seq \in Texts /\ Len(w.seq) \in 1 .. 2 /\ w.halfway \in BOOLEAN
<1>1. ASSUME NEW r, NEW i PROVE EolAt(r, i) \in EolStyles \cup {"none"}
  BY DEF EolAt, EolStyles
<1>2. ASSUME NEW w \in Writers PROVE w.seq \in Texts /\ Len(w.seq) \in 1 .. 2
  <2>1. w.seq \in {<<"CR", "LF">>, <<"CR">>, <<"LF">>}
    BY DEF Writers, EolSeq, EolStyles
  <2>2. "CR" \in Characters /\ "LF" \in Characters
    BY DEF Characters
  <2> DEFINE C == Characters
  <2> HIDE DEF C
  <2>3. "CR" \in C /\ "LF" \in C
    BY <2>2 DEF C
  <2>4. <<"CR", "LF">> \in Seq(C) /\ <<"CR">> \in Seq(C) /\ <<"LF">> \in Seq(C)
    BY <2>3
  <2>5. w.seq \in Seq(C) /\ Len(w.seq) \in 1 .. 2
    <3>1. CASE w.seq = <<"CR", "LF">>
      BY <2>4, <3>1
    <3>2. CASE w.seq = <<"CR">>
      BY <2>4, <3>2
    <3>3. CASE w.seq = <<"LF">>
      BY <2>4, <3>3
    <3> QED
      BY <2>1, <3>1, <3>2, <3>3
  <2> QED
    BY <2>5 DEF Texts, C
<1> QED
  BY <1>1, <1>2 DEF Writers

(* A piece lies between what has been returned and the end of the block.   *)
LEMMA TranslateTypes ==
  ASSUME NEW r \in Readers, r.piece = 0, r.off <= Len(r.block), ~AutoEol => r.off = 0
  PROVE  /\ Translate(r) \in Readers /\ WithinBlock(Translate(r))
         /\ Piece(Translate(r)) \in Texts /\ Len(Piece(Translate(r))) = Translate(r).piece
<1> DEFINE t == Translate(r)
           N == Len(r.block)
           C == Characters
<1>0. "CR" \in C /\ "LF" \in C
  BY DEF Characters
<1> HIDE DEF C
<1>1. /\ r.block \in Seq(C) /\ N \in Nat /\ r.off \in Nat /\ \A i \in 1 .. N : r.block[i] \in C
      /\ r.last \in C \cup {"none", "CRLF"} /\ r.style \in EolStyles \cup {"none"} /\ r.mixed \in BOOLEAN
      /\ r.off <= N
  BY DEF Readers, Texts, C
<1>2. PieceEnd(r) = 0 \/ PieceEnd(r) \in (r.off + 1) .. N
  <2> DEFINE q == [i \in 1 .. Len(r.block) |-> i > r.off /\ EolAt(r, i) = "CRLF"]
             I == {i \in 1 .. Len(q) : q[i]}
  <2>1. PieceEnd(r) = IF I # {} THEN Min(I) ELSE 0
    BY DEF PieceEnd, SelectInSeq
  <2>2. \A i \in I : i \in (r.off + 1) .. N
    <3>1. Len(q) = N
      BY <1>1
    <3>2. \A i \in 1 .. N : q[i] => i > r.off
      OBVIOUS
    <3> HIDE DEF q
    <3> QED
      BY <1>1, <3>1, <3>2
  <2>3. I \in SUBSET Nat
    BY <1>1, <2>2
  <2> HIDE DEF I
  <2> QED
    BY <2>1, <2>2, <2>3, MinLemma
<1>3. PICK e \in Nat : e = PieceEnd(r) /\ (e = 0 \/ e \in (r.off + 1) .. N)
  BY <1>1, <1>2
<1> DEFINE s == FoundAll(r)
<1>4. /\ s \in [block : Seq(C), off : Nat, piece : Nat, last : C \cup {"none", "CRLF"},
                style : EolStyles \cup {"none"}, mixed : BOOLEAN]
      /\ s.block = r.block /\ s.off = r.off /\ s.piece = 0 /\ s.last = r.last
  <2> DEFINE ends == LineEndsSeen(r)
             style == IF r.style = "none" /\ ends # {} THEN EolAt(r, Min(ends)) ELSE r.style
             mixed == r.mixed \/ \E i \in ends : EolAt(r, i) # style
  <2>1. ends \in SUBSET Nat /\ \A i \in ends : EolAt(r, i) \in EolStyles
    <3>1. ends \in SUBSET ((r.off + 1) .. N) /\ \A i \in ends : EolAt(r, i) # "none"
      BY <1>1, <1>3 DEF LineEndsSeen
    <3> QED
      BY <1>1, <3>1, EolTypes
  <2>2. s = [r EXCEPT !.style = style, !.mixed = mixed]
    BY DEF FoundAll
  <2> HIDE DEF ends
  <2>3. style \in EolStyles \cup {"none"}
    BY <1>1, <2>1, MinLemma
  <2>4. mixed \in BOOLEAN
    BY Zenon
  <2> HIDE DEF style, mixed, s
  <2> QED
    BY <2>2, <2>3, <2>4 DEF Readers, Texts, C
<1> HIDE DEF s
<1>5. /\ t \in [block : Seq(C), off : Nat, piece : Nat, last : C \cup {"none", "CRLF"},
                style : EolStyles \cup {"none"}, mixed : BOOLEAN]
      /\ t.block = r.block /\ t.off = r.off /\ t.off + t.piece <= N
      /\ ~AutoEol => t.off + t.piece = N
  <2>1. CASE ~AutoEol
    <3>1. t = [r EXCEPT !.piece = N]
      BY <2>1 DEF Translate
    <3>2. r \in [block : Seq(C), off : Nat, piece : Nat, last : C \cup {"none", "CRLF"},
                 style : EolStyles \cup {"none"}, mixed : BOOLEAN]
      BY DEF Readers, Texts, C
    <3> HIDE DEF t, N
    <3> QED
      BY <1>1, <2>1, <3>1, <3>2
  <2>2. CASE AutoEol /\ e > 0
    <3> DEFINE k == e - 1 - r.off
    <3>1. t = [s EXCEPT !.piece = k, !.last = "CRLF"]
      BY <1>3, <2>2 DEF Translate, s
    <3>2. k \in Nat /\ r.off + k <= N
      BY <1>1, <1>3, <2>2
    <3> HIDE DEF t, N, k
    <3> QED
      BY <1>1, <1>4, <2>2, <3>1, <3>2
  <2>3. CASE AutoEol /\ e = 0
    <3> DEFINE k == N - r.off
               l == IF NeedsBlock(r) THEN s.last ELSE Last(r.block)
    <3>1. t = [s EXCEPT !.piece = k, !.last = l]
      BY <1>3, <2>3 DEF Translate, s
    <3>2. k \in Nat /\ r.off + k <= N
      BY <1>1
    <3>3. l \in C \cup {"none", "CRLF"}
      BY <1>1, <1>4 DEF NeedsBlock, Last
    <3> HIDE DEF t, N, k, l
    <3> QED
      BY <1>1, <1>4, <2>3, <3>1, <3>2, <3>3
  <2> QED
    BY <1>3, <2>1, <2>2, <2>3
<1>6. t \in Readers /\ WithinBlock(t)
  <2> HIDE DEF t
  <2> QED
    BY <1>5 DEF Readers, Texts, C, WithinBlock
<1>7. Piece(t) \in Seq(C) /\ Len(Piece(t)) = t.piece
  <2> HIDE DEF t
  <2>1. \A i \in 1 .. t.piece : t.off + i \in 1 .. N /\ t.block[t.off + i] \in C
    BY <1>1, <1>5
  <2>2. t.piece \in Nat
    BY <1>5
  <2> DEFINE p == [i \in 1 .. t.piece |-> IF AutoEol /\ t.block[t.off + i] = "CR" THEN "LF" ELSE t.block[t.off + i]]
  <2>3. \A i \in 1 .. t.piece : (IF AutoEol /\ t.block[t.off + i] = "CR" THEN "LF" ELSE t.block[t.off + i]) \in C
    BY <1>0, <2>1
  <2>4. p \in Seq(C) /\ Len(p) = t.piece
    BY <2>2, <2>3
  <2> QED
    BY <2>4 DEF Piece
<1> QED
  BY <1>6, <1>7 DEF Texts, C

-----------------------------------------------------------------------------
(* The writer.                                                             *)

(* The conversions under way.                                              *)
Conversions == [w : Writers, out : Texts, taken : Nat, room : Nat, stuck : BOOLEAN]

LEMMA ConvertCharTypes ==
  ASSUME NEW s \in Conversions, NEW c \in Characters
  PROVE  /\ ConvertChar(s, c) \in Conversions
         /\ s.stuck => ConvertChar(s, c) = s
         /\ ~s.stuck => LET t == ConvertChar(s, c) IN
              \/ t.stuck /\ t.taken = s.taken
              \/ ~t.stuck /\ t.taken = s.taken + 1 /\ t.w.halfway = s.w.halfway
<1> DEFINE C == Characters
           t == ConvertChar(s, c)
           W == [halfway : BOOLEAN, last : C \cup {"none"}, seq : {EolSeq(e) : e \in EolStyles}]
           D == [w : W, out : Seq(C), taken : Nat, room : Nat, stuck : BOOLEAN]
<1>0. "CR" \in C /\ "LF" \in C /\ c \in C
  BY DEF Characters
<1>d. D = Conversions
  BY DEF Conversions, Writers, Texts
<1>w. /\ s.w \in Writers /\ s.w.seq \in Seq(C) /\ Len(s.w.seq) \in 1 .. 2
      /\ s.out \in Seq(C) /\ s.room \in Nat /\ s.taken \in Nat /\ s.stuck \in BOOLEAN
  BY EolTypes DEF Conversions, Texts
<1> HIDE DEF C
<1>s. s \in D
  <2> HIDE DEF D
  <2> QED
    BY <1>d
<1> DEFINE Taken(bytes) == After(Take(s, bytes), c)
<1>1. ASSUME NEW bytes \in Seq(C), Len(bytes) <= s.room
      PROVE  /\ Taken(bytes) \in D /\ Taken(bytes).stuck = s.stuck /\ Taken(bytes).taken = s.taken + 1
             /\ Taken(bytes).w.halfway = s.w.halfway
  <2> DEFINE o == s.out \o bytes
             m == s.room - Len(bytes)
  <2>1. o \in Seq(C) /\ m \in Nat
    BY <1>1 DEF Conversions, Texts, C
  <2>2. s \in D
    BY <1>s
  <2> HIDE DEF o, m
  <2> SUFFICES /\ After([s EXCEPT !.out = o, !.room = m, !.taken = @ + 1], c) \in D
               /\ After([s EXCEPT !.out = o, !.room = m, !.taken = @ + 1], c).stuck = s.stuck
               /\ After([s EXCEPT !.out = o, !.room = m, !.taken = @ + 1], c).taken = s.taken + 1
               /\ After([s EXCEPT !.out = o, !.room = m, !.taken = @ + 1], c).w.halfway = s.w.halfway
    BY DEF Take, o, m
  <2> DEFINE w == [s.w EXCEPT !.last = c]
  <2>3. w \in W /\ w.halfway = s.w.halfway
    BY <1>0, <2>2
  <2> DEFINE x == [s EXCEPT !.out = o, !.room = m, !.taken = @ + 1]
  <2>4. x \in D /\ x.w = s.w /\ x.taken = s.taken + 1 /\ x.stuck = s.stuck
    <3> DEFINE n == s.taken + 1
    <3>1. n \in Nat
      BY <1>w
    <3>2. x = [s EXCEPT !.out = o, !.room = m, !.taken = n]
      BY <2>2
    <3> HIDE DEF n, x, W, w
    <3>3. x \in D /\ x.w = s.w /\ x.taken = n /\ x.stuck = s.stuck
      BY <2>1, <2>2, <3>1, <3>2
    <3> QED
      BY <3>3 DEF n
  <2>5. After(x, c) = [x EXCEPT !.w = w]
    BY <2>4 DEF After
  <2> HIDE DEF x, w, W
  <2>6. /\ [x EXCEPT !.w = w] \in D /\ [x EXCEPT !.w = w].stuck = x.stuck
        /\ [x EXCEPT !.w = w].taken = x.taken /\ [x EXCEPT !.w = w].w = w
    BY <2>3, <2>4
  <2> QED
    BY <2>3, <2>4, <2>5, <2>6 DEF x
<1>2. Stuck(s) \in D /\ Stuck(s).stuck /\ Stuck(s).taken = s.taken
  BY <1>d DEF Stuck
<1> DEFINE half == Stuck([s EXCEPT !.out = Append(@, "CR"), !.room = 0, !.w.halfway = TRUE])
<1>3. half \in D /\ half.stuck /\ half.taken = s.taken
  <2> DEFINE o == Append(s.out, "CR")
  <2>1. o \in Seq(C)
    BY <1>0, <1>w, AppendProperties
  <2>2. half = Stuck([s EXCEPT !.out = o, !.room = 0, !.w.halfway = TRUE])
    BY <2>1
  <2> HIDE DEF o, half
  <2> QED
    BY <1>s, <2>1, <2>2 DEF Stuck
<1> HIDE DEF D, half, Taken
<1>4. CASE s.stuck
  <2>1. t = s
    BY <1>4 DEF ConvertChar
  <2> QED
    BY <1>4, <2>1
<1>5. CASE ~s.stuck
  <2> DEFINE r == s.room
  <2>0. r \in Nat
    BY DEF Conversions
  <2>1. /\ <<>> \in Seq(C) /\ Len(<<>>) <= r /\ s.room = r
        /\ r # 0 => <<c>> \in Seq(C) /\ Len(<<c>>) <= r
    BY <1>0, <2>0
  <2>2. \/ t = Taken(<<>>)
        \/ t = Stuck(s)
        \/ r # 0 /\ t = Taken(<<c>>)
        \/ t = half
        \/ r >= Len(s.w.seq) /\ t = Taken(s.w.seq)
    <3>1. CASE c \notin {"CR", "LF"}
      BY <1>5, <3>1 DEF ConvertChar, Taken
    <3>2. CASE c = "LF" /\ s.w.last = "CR"
      BY <1>5, <3>2 DEF ConvertChar, Taken
    <3>3. CASE c \in {"CR", "LF"} /\ ~(c = "LF" /\ s.w.last = "CR")
      <4>1. t = ConvertLineEnd(s, c)
        BY <1>5, <3>3 DEF ConvertChar
      <4> DEFINE n == Len(s.w.seq)
      <4>2. n \in 1 .. 2
        BY <1>w
      <4> HIDE DEF n, r, t
      <4>3. r = 0 \/ (r # 0 /\ r \in 1 .. (n - 1)) \/ (r \notin 1 .. (n - 1) /\ r # 0 /\ r >= n)
        BY <2>0, <4>2
      <4>4. CASE r = 0
        <5>1. ~(r >= n) /\ r \notin 1 .. (n - 1)
          BY <4>2, <4>4
        <5> QED
          BY <4>1, <4>4, <5>1 DEF ConvertLineEnd, r, n
      <4>5. CASE r # 0 /\ r \in 1 .. (n - 1)
        <5>1. ~(r >= n)
          BY <4>2, <4>5
        <5> QED
          BY <4>1, <4>5, <5>1 DEF ConvertLineEnd, r, n, half
      <4>6. CASE r \notin 1 .. (n - 1) /\ r # 0 /\ r >= n
        BY <4>1, <4>6 DEF ConvertLineEnd, r, n, Taken
      <4> QED
        BY <4>3, <4>4, <4>5, <4>6 DEF n
    <3> QED
      BY <3>1, <3>2, <3>3
  <2> HIDE DEF t, r
  <2>8. /\ t \in D
        /\ \/ t.stuck /\ t.taken = s.taken
           \/ ~t.stuck /\ t.taken = s.taken + 1 /\ t.w.halfway = s.w.halfway
    <3>1. CASE t = Taken(<<>>)
      BY <1>1, <1>5, <2>1, <3>1
    <3>2. CASE t = Stuck(s)
      BY <1>2, <1>5, <3>2
    <3>3. CASE r # 0 /\ t = Taken(<<c>>)
      BY <1>1, <1>5, <2>1, <3>3
    <3>4. CASE t = half
      BY <1>3, <1>5, <3>4
    <3>5. CASE r >= Len(s.w.seq) /\ t = Taken(s.w.seq)
      <4>1. Len(s.w.seq) <= s.room
        BY <1>w, <2>0, <2>1, <3>5
      <4> QED
        BY <1>1, <1>5, <1>w, <3>5, <4>1
    <3> QED
      BY <2>2, <3>1, <3>2, <3>3, <3>4, <3>5
  <2> QED
    BY <1>d, <1>5, <2>8 DEF t
<1> QED
  BY <1>4, <1>5

(* A conversion goes from character to character.                          *)
Stages(f, s, text) ==
  /\ f \in [0 .. Len(text) -> Conversions] /\ f[0] = s /\ f[Len(text)] = ConvertAll(s, text)
  /\ \A n \in 1 .. Len(text) : f[n] = ConvertChar(f[n - 1], text[n])

LEMMA ConvertAllStages ==
  ASSUME NEW s \in Conversions, NEW text \in Texts
  PROVE  \E f : Stages(f, s, text)
<1> DEFINE N == Len(text)
           U == Conversions
           G == [n \in 1 .. N |-> [x \in U |-> ConvertChar(x, text[n])]]
           Is(f) == f = [n \in 0 .. N |-> IF n = 0 THEN s ELSE ConvertChar(f[n - 1], text[n])]
           done == CHOOSE f : Is(f)
<1>1. N \in Nat /\ s \in U /\ \A n \in 1 .. N : text[n] \in Characters
  BY DEF Texts
<1>2. \A n \in 1 .. N : \A x \in U : ConvertChar(x, text[n]) \in U
  BY <1>1, ConvertCharTypes
<1>3. ConvertAll(s, text) = done[N]
  BY DEF ConvertAll
<1> HIDE DEF U, N
<1>4. G \in [1 .. N -> [U -> U]] /\ \A n \in 1 .. N : \A x \in U : G[n][x] = ConvertChar(x, text[n])
  BY <1>2
<1> HIDE DEF G
<1>5. PICK f : Steps(f, U, s, N, G)
  BY <1>1, <1>4, StepsExist
<1>6. /\ f \in [0 .. N -> U] /\ f[0] = s
      /\ \A n \in 1 .. N : f[n] = ConvertChar(f[n - 1], text[n])
  <2>1. f \in [0 .. N -> U] /\ f[0] = s /\ \A n \in 1 .. N : f[n] = G[n][f[n - 1]]
    BY <1>5 DEF Steps
  <2>2. \A n \in 1 .. N : n - 1 \in 0 .. N
    BY <1>1
  <2> QED
    BY <1>4, <2>1, <2>2
<1>7. Is(f)
  <2>1. f = [n \in 0 .. N |-> f[n]]
    BY <1>6
  <2>2. \A n \in 0 .. N : f[n] = IF n = 0 THEN s ELSE ConvertChar(f[n - 1], text[n])
    BY <1>1, <1>6
  <2> QED
    BY <2>1, <2>2
<1>8. Is(done)
  <2> HIDE DEF Is
  <2> QED
    BY <1>7
<1>9. /\ done = [n \in 0 .. N |-> IF n = 0 THEN s ELSE ConvertChar(done[n - 1], text[n])]
  BY <1>8
<1> HIDE DEF done, Is
<1> DEFINE T == {n \in Nat : n <= N => done[n] = f[n]}
<1>10. 0 \in T
  BY <1>1, <1>6, <1>9
<1>11. ASSUME NEW n \in Nat, n \in T PROVE n + 1 \in T
  <2> SUFFICES ASSUME n + 1 <= N PROVE done[n + 1] = f[n + 1]
    OBVIOUS
  <2>1. n + 1 \in 0 .. N /\ n + 1 \in 1 .. N /\ n + 1 # 0 /\ (n + 1) - 1 = n /\ n <= N
    BY <1>1
  <2>2. done[n + 1] = ConvertChar(done[n], text[n + 1])
    BY <1>9, <2>1
  <2>3. f[n + 1] = ConvertChar(f[n], text[n + 1])
    BY <1>6, <2>1
  <2> QED
    BY <1>11, <2>1, <2>2, <2>3
<1> HIDE DEF T
<1>12. N \in T
  <2>1. Nat \subseteq T
    BY <1>10, <1>11, SetInduction
  <2> QED
    BY <1>1, <2>1
<1>13. f[N] = ConvertAll(s, text)
  BY <1>1, <1>3, <1>12 DEF T
<1> QED
  BY <1>6, <1>13 DEF Stages, U, N

(* It takes no more characters than there are, and half a line end only    *)
(* in front of one that it has not taken.                                  *)
Taken(s, n, N) ==
  s \in Conversions /\ s.taken <= n /\ (s.w.halfway => s.stuck) /\ (s.stuck => s.taken < N)

LEMMA ConvertAllTypes ==
  ASSUME NEW text \in Texts, NEW n \in Nat, NEW N \in Nat, NEW s, Taken(s, n, N), n + Len(text) <= N
  PROVE  Taken(ConvertAll(s, text), n + Len(text), N)
<1>1. PICK f : Stages(f, s, text)
  BY ConvertAllStages DEF Taken
<1> DEFINE L == Len(text)
           S == {k \in Nat : k <= L => Taken(f[k], n + k, N)}
<1>2. /\ f \in [0 .. L -> Conversions] /\ f[0] = s /\ f[L] = ConvertAll(s, text)
      /\ \A k \in 1 .. L : f[k] = ConvertChar(f[k - 1], text[k])
      /\ L \in Nat /\ n + L <= N /\ \A k \in 1 .. L : text[k] \in Characters
  BY <1>1 DEF Stages, Texts
<1> HIDE DEF L
<1>3. 0 \in S
  BY <1>2
<1>4. ASSUME NEW k \in Nat, k \in S PROVE k + 1 \in S
  <2> SUFFICES ASSUME k + 1 <= L PROVE Taken(f[k + 1], n + (k + 1), N)
    OBVIOUS
  <2> DEFINE c == text[k + 1]
             x == f[k]
             y == ConvertChar(x, c)
  <2>1. /\ k + 1 \in 1 .. L /\ (k + 1) - 1 = k /\ c \in Characters /\ k <= L /\ k \in 0 .. L
        /\ f[k + 1] = ConvertChar(f[k], c)
    BY <1>2
  <2>2. Taken(x, n + k, N)
    BY <1>4, <2>1
  <2>3. x \in Conversions /\ f[k + 1] = y
    BY <1>2, <2>1
  <2>4. /\ y \in Conversions
        /\ x.stuck => y = x
        /\ ~x.stuck => \/ y.stuck /\ y.taken = x.taken
                       \/ ~y.stuck /\ y.taken = x.taken + 1 /\ y.w.halfway = x.w.halfway
    BY <2>1, <2>3, ConvertCharTypes
  <2> HIDE DEF x, y, c
  <2>5. x.taken \in Nat /\ y.taken \in Nat
    BY <2>3, <2>4 DEF Conversions
  <2>6. CASE x.stuck
    BY <1>2, <2>2, <2>3, <2>4, <2>5, <2>6 DEF Taken
  <2>7. CASE ~x.stuck /\ y.stuck /\ y.taken = x.taken
    BY <1>2, <2>1, <2>2, <2>3, <2>4, <2>5, <2>7 DEF Taken
  <2>8. CASE ~x.stuck /\ ~y.stuck /\ y.taken = x.taken + 1 /\ y.w.halfway = x.w.halfway
    BY <1>2, <2>1, <2>2, <2>3, <2>4, <2>5, <2>8 DEF Taken
  <2> QED
    BY <2>4, <2>6, <2>7, <2>8
<1> HIDE DEF S
<1>5. L \in S
  <2>1. Nat \subseteq S
    BY <1>3, <1>4, SetInduction
  <2> QED
    BY <1>2, <2>1
<1> QED
  BY <1>2, <1>5 DEF S, L

LEMMA ConvertTypes ==
  ASSUME NEW w \in Writers, NEW text \in Texts, NEW room \in Nat, w.halfway => text # <<>>
  PROVE  LET c == Convert(w, text, room) IN
         /\ c.w \in Writers /\ c.out \in Texts /\ c.taken \in 0 .. Len(text)
         /\ AutoEol /\ c.w.halfway => c.taken < Len(text)
         /\ ~AutoEol => c.w = w
<1> DEFINE c == Convert(w, text, room)
           N == Len(text)
           s == Conversion(w, room)
<1>0. N \in Nat /\ w.halfway \in BOOLEAN
  BY DEF Texts, Writers
<1>1. s \in Conversions /\ s.w = w /\ s.taken = 0 /\ ~s.stuck /\ s.room = room /\ s.out = <<>>
  BY DEF Conversion, Conversions, Texts
<1>2. CASE ~AutoEol
  <2> DEFINE n == IF N < room THEN N ELSE room
             o == SubSeq(text, 1, n)
  <2>1. n \in 0 .. N
    BY <1>0
  <2> HIDE DEF n
  <2>2. o \in Texts
    BY <2>1 DEF Texts
  <2>3. c = [s EXCEPT !.out = o, !.taken = n]
    BY <1>2 DEF Convert, n
  <2> HIDE DEF o, c, s
  <2>4. c.w = w /\ c.out = o /\ c.taken = n
    BY <1>1, <2>3 DEF Conversions
  <2> QED
    BY <1>0, <1>2, <2>1, <2>2, <2>4 DEF c
<1>3. ASSUME NEW x, NEW n \in Nat, n <= N, Taken(x, n, N), AutoEol, c = x
      PROVE  /\ c.w \in Writers /\ c.out \in Texts /\ c.taken \in 0 .. Len(text)
             /\ AutoEol /\ c.w.halfway => c.taken < Len(text)
             /\ ~AutoEol => c.w = w
  BY <1>0, <1>3, AutoEolAssumption DEF Taken, Conversions
<1>4. CASE AutoEol /\ ~w.halfway
  <2>1. Taken(s, 0, N)
    BY <1>0, <1>1, <1>4 DEF Taken
  <2>2. Taken(ConvertAll(s, text), 0 + N, N)
    BY <1>0, <2>1, ConvertAllTypes
  <2>3. c = ConvertAll(s, text)
    BY <1>4 DEF Convert
  <2> HIDE DEF c, s
  <2>4. 0 + N = N
    BY <1>0
  <2> QED
    BY <1>0, <1>3, <1>4, <2>2, <2>3, <2>4 DEF c
<1>5. CASE AutoEol /\ w.halfway
  <2> DEFINE x == Complete(s)
             rest == Tail(text)
  <2>1. /\ rest \in Texts /\ Len(rest) = N - 1 /\ N # 0
    BY <1>5 DEF Texts
  <2>2. c = ConvertAll(x, rest)
    BY <1>5 DEF Convert
  <2>3. Taken(x, 1, N)
    <3>1. CASE room = 0
      <4>1. x = Stuck(s)
        BY <1>1, <3>1 DEF Complete
      <4>2. Stuck(s) \in Conversions /\ Stuck(s).taken = 0 /\ Stuck(s).stuck
        BY <1>1 DEF Stuck, Conversions
      <4> QED
        BY <1>0, <2>1, <4>1, <4>2 DEF Taken
    <3>2. CASE room # 0
      <4> DEFINE k == [s EXCEPT !.w.halfway = FALSE]
                 o == k.out \o <<"LF">>
                 m == k.room - Len(<<"LF">>)
                 d == k.taken + 1
      <4>1. x = [k EXCEPT !.out = o, !.room = m, !.taken = d]
        <5>1. x = Take(k, <<"LF">>)
          BY <1>1, <3>2 DEF Complete
        <5> QED
          BY <5>1 DEF Take
      <4>2. k \in Conversions /\ ~k.w.halfway /\ ~k.stuck /\ k.taken = 0 /\ k.room = room /\ k.out = <<>>
        <5> DEFINE v == [s.w EXCEPT !.halfway = FALSE]
        <5>1. v \in Writers /\ ~v.halfway
          BY <1>1 DEF Writers
        <5>2. k = [s EXCEPT !.w = v]
          OBVIOUS
        <5> HIDE DEF v, s, k
        <5> QED
          BY <1>1, <5>1, <5>2 DEF Conversions
      <4> HIDE DEF k
      <4>3. o \in Texts /\ m \in Nat /\ d = 1
        <5>1. "LF" \in Characters
          BY DEF Characters
        <5> DEFINE C == Characters
        <5> HIDE DEF C
        <5>2. <<"LF">> \in Seq(C) /\ Len(<<"LF">>) = 1 /\ <<>> \o <<"LF">> = <<"LF">>
          BY <5>1 DEF C
        <5> QED
          BY <3>2, <4>2, <5>2 DEF Texts, C
      <4> HIDE DEF o, m, d, x
      <4>4. x \in Conversions /\ x.taken = 1 /\ ~x.stuck /\ ~x.w.halfway
        BY <4>1, <4>2, <4>3 DEF Conversions
      <4> QED
        BY <4>4 DEF Taken
    <3> QED
      BY <3>1, <3>2
  <2>4. 1 + Len(rest) = N /\ 1 \in Nat
    BY <1>0, <2>1
  <2> HIDE DEF x, rest, c, s
  <2>5. Taken(ConvertAll(x, rest), 1 + Len(rest), N)
    BY <1>0, <2>1, <2>3, <2>4, ConvertAllTypes
  <2> QED
    BY <1>0, <1>3, <1>5, <2>2, <2>4, <2>5 DEF c
<1> QED
  BY <1>2, <1>4, <1>5, <1>0, AutoEolAssumption

-----------------------------------------------------------------------------
(* What the tokens undo.                                                   *)

States == [doc : Docs, reg : Regs, spawn : Contexts]

(* The tokens restore a document and a register from a state.              *)
Restores(s, ts, d, g) ==
  \E a \in {"none", "q"} : Undone(s, ts) = [doc |-> d, reg |-> g, spawn |-> [s.spawn EXCEPT !.argument = a]]

LEMMA RunTokens ==
  \A s \in States : \A v :
    /\ RunToken(s, Token("argument", v)) = [s EXCEPT !.spawn = [s.spawn EXCEPT !.argument = v]]
    /\ RunToken(s, Token("SCI_GOTOPOS", v)) = [s EXCEPT !.doc = [s.doc EXCEPT !.dot = v]]
    /\ RunToken(s, Token("register", v)) = [s EXCEPT !.reg = [s.reg EXCEPT !.text = v]]
    /\ RunToken(s, Token("eol mode", v)) = [s EXCEPT !.reg = [s.reg EXCEPT !.eol = v]]
    /\ RunToken(s, Token("dirty", v)) = [s EXCEPT !.doc = [s.doc EXCEPT !.dirty = v]]
    /\ RunToken(s, Token("ranges", v)) = [s EXCEPT !.doc = [s.doc EXCEPT !.ranges = v]]
    /\ RunToken(s, Token("SCI_UNDO", 0))
         = [s EXCEPT !.doc = [s.doc EXCEPT !.text = Last(s.doc.undo), !.undo = Front(s.doc.undo),
                                           !.dot = Len(Last(s.doc.undo))]]
<1> SUFFICES ASSUME NEW s \in States, NEW v
             PROVE  /\ RunToken(s, Token("argument", v)) = [s EXCEPT !.spawn = [s.spawn EXCEPT !.argument = v]]
                    /\ RunToken(s, Token("SCI_GOTOPOS", v)) = [s EXCEPT !.doc = [s.doc EXCEPT !.dot = v]]
                    /\ RunToken(s, Token("register", v)) = [s EXCEPT !.reg = [s.reg EXCEPT !.text = v]]
                    /\ RunToken(s, Token("eol mode", v)) = [s EXCEPT !.reg = [s.reg EXCEPT !.eol = v]]
                    /\ RunToken(s, Token("dirty", v)) = [s EXCEPT !.doc = [s.doc EXCEPT !.dirty = v]]
                    /\ RunToken(s, Token("ranges", v)) = [s EXCEPT !.doc = [s.doc EXCEPT !.ranges = v]]
                    /\ RunToken(s, Token("SCI_UNDO", 0))
                         = [s EXCEPT !.doc = [s.doc EXCEPT !.text = Last(s.doc.undo), !.undo = Front(s.doc.undo),
                                                           !.dot = Len(Last(s.doc.undo))]]
  BY Zenon
<1>1. RunToken(s, Token("argument", v)) = [s EXCEPT !.spawn = [s.spawn EXCEPT !.argument = v]]
  BY DEF RunToken, Token
<1>2. RunToken(s, Token("SCI_GOTOPOS", v)) = [s EXCEPT !.doc = [s.doc EXCEPT !.dot = v]]
  BY DEF RunToken, Token
<1>3. RunToken(s, Token("register", v)) = [s EXCEPT !.reg = [s.reg EXCEPT !.text = v]]
  BY DEF RunToken, Token
<1>4. RunToken(s, Token("eol mode", v)) = [s EXCEPT !.reg = [s.reg EXCEPT !.eol = v]]
  BY DEF RunToken, Token
<1>5. RunToken(s, Token("dirty", v)) = [s EXCEPT !.doc = [s.doc EXCEPT !.dirty = v]]
  BY DEF RunToken, Token
<1>6. RunToken(s, Token("ranges", v)) = [s EXCEPT !.doc = [s.doc EXCEPT !.ranges = v]]
  BY DEF RunToken, Token
<1>7. RunToken(s, Token("SCI_UNDO", 0))
        = [s EXCEPT !.doc = [s.doc EXCEPT !.text = Last(s.doc.undo), !.undo = Front(s.doc.undo),
                                          !.dot = Len(Last(s.doc.undo))]]
  BY DEF RunToken, Token
<1> QED
  BY <1>1, <1>2, <1>3, <1>4, <1>5, <1>6, <1>7, Zenon

(* The same argument changes nothing, and the last one counts.             *)
LEMMA Arguing ==
  ASSUME NEW c \in Contexts
  PROVE  [c EXCEPT !.argument = c.argument] = c /\ c.argument \in {"none", "q"}
  BY DEF Contexts

LEMMA ArgumentSet ==
  \A c \in Contexts : \A a \in {"none", "q"} :
    /\ [c EXCEPT !.argument = a] \in Contexts
    /\ [c EXCEPT !.argument = a].reader = c.reader
    /\ [c EXCEPT !.argument = a].argument = a
    /\ \A b \in {"none", "q"} : [[c EXCEPT !.argument = a] EXCEPT !.argument = b] = [c EXCEPT !.argument = b]
<1> SUFFICES ASSUME NEW c \in Contexts, NEW a \in {"none", "q"}, NEW b \in {"none", "q"}
             PROVE  /\ [c EXCEPT !.argument = a] \in Contexts
                    /\ [c EXCEPT !.argument = a].reader = c.reader
                    /\ [c EXCEPT !.argument = a].argument = a
                    /\ [[c EXCEPT !.argument = a] EXCEPT !.argument = b] = [c EXCEPT !.argument = b]
  OBVIOUS
<1>1. [c EXCEPT !.argument = a] \in Contexts
  BY DEF Contexts
<1>2. [c EXCEPT !.argument = a].reader = c.reader /\ [c EXCEPT !.argument = a].argument = a
  BY DEF Contexts
<1>3. [[c EXCEPT !.argument = a] EXCEPT !.argument = b] = [c EXCEPT !.argument = b]
  OBVIOUS
<1> QED
  BY <1>1, <1>2, <1>3

LEMMA StateFields ==
  ASSUME NEW s \in States
  PROVE  /\ s.doc \in Docs /\ s.reg \in Regs /\ s.spawn \in Contexts
         /\ s = [doc |-> s.doc, reg |-> s.reg, spawn |-> s.spawn]
  BY DEF States

(* EGq names the register, which is undone like everything else.           *)
LEMMA NamingRestores ==
  ASSUME NEW s \in States, NEW target \in {"none", "q"}, spawn \in Contexts
  PROVE  Restores(s, Naming(target), s.doc, s.reg)
<1>0. spawn.argument \in {"none", "q"}
  BY Arguing
<1> DEFINE t == Token("argument", spawn.argument)
<1>1. CASE target = "none"
  <2>1. Naming(target) = <<>> /\ Undone(s, <<>>) = s
    <3>1. t \in {t} /\ <<>> \in Seq({t})
      OBVIOUS
    <3> HIDE DEF t
    <3> QED
      BY <1>1, <3>1, UndoneAppend DEF Naming
  <2>2. s.spawn = [s.spawn EXCEPT !.argument = s.spawn.argument] /\ s.spawn.argument \in {"none", "q"}
    BY StateFields, Arguing
  <2> QED
    BY <2>1, <2>2, StateFields DEF Restores
<1>2. CASE target = "q"
  <2>1. Naming(target) = Append(<<>>, t)
    BY <1>2 DEF Naming
  <2>2. t \in {t} /\ <<>> \in Seq({t})
    OBVIOUS
  <2>3. RunToken(s, t) = [s EXCEPT !.spawn = [s.spawn EXCEPT !.argument = spawn.argument]]
    BY RunTokens, ZenonT(40)
  <2> HIDE DEF t
  <2>4. Undone(s, Append(<<>>, t)) = RunToken(s, t)
    <3> DEFINE z == <<>>
    <3> HIDE DEF z
    <3>1. /\ Undone(RunToken(s, t), z) = RunToken(s, t)
          /\ Undone(s, Append(z, t)) = Undone(RunToken(s, t), z)
      BY <2>2, UndoneAppend DEF z
    <3> QED
      BY <3>1 DEF z
  <2> DEFINE c == [s.spawn EXCEPT !.argument = spawn.argument]
  <2> HIDE DEF c
  <2>5. [s EXCEPT !.spawn = c] = [doc |-> s.doc, reg |-> s.reg, spawn |-> c]
    BY DEF States
  <2> QED
    BY <1>0, <2>1, <2>3, <2>4, <2>5 DEF Restores, c
<1> QED
  BY <1>1, <1>2

(* A command that fails has left no trace.                                 *)
LEMMA FailSettles ==
  ASSUME NEW s \in States, NEW ts, Fail(s, ts), Restores(s, ts, before'.doc, before'.reg),
         WithinBlock(s.spawn.reader)
  PROVE  /\ Settled' /\ doc' = before'.doc /\ reg' = before'.reg
         /\ spawn' \in Contexts /\ WithinBlock(spawn'.reader)
         /\ result' = [kind |-> "error", value |-> 0]
<1>1. PICK a \in {"none", "q"} :
        Undone(s, ts) = [doc |-> before'.doc, reg |-> before'.reg, spawn |-> [s.spawn EXCEPT !.argument = a]]
  BY DEF Restores
<1> DEFINE c == [s.spawn EXCEPT !.argument = a]
<1>2. c \in Contexts /\ c.reader = s.spawn.reader /\ c.argument = a /\ [c EXCEPT !.argument = c.argument] = c
  <2>1. s.spawn \in Contexts
    BY StateFields
  <2>2. c \in Contexts /\ c.reader = s.spawn.reader /\ c.argument = a
    BY <2>1, ArgumentSet
  <2> HIDE DEF c
  <2> QED
    BY <2>2, Arguing
<1> HIDE DEF c
<1>3. /\ doc' = before'.doc /\ reg' = before'.reg /\ spawn' = c /\ tokens' = <<>>
      /\ result' = [kind |-> "error", value |-> 0]
  BY <1>1 DEF Fail, c
<1>4. Undone(Now, tokens)' = Now'
  <2>1. \A x : Undone(x, <<>>) = x
    <3>1. <<>> \in Seq({0}) /\ 0 \in {0}
      OBVIOUS
    <3> QED
      BY <3>1, UndoneAppend
  <2>2. Undone(Now, tokens)' = Undone(Now', tokens')
    BY DEF Undone, RunToken
  <2> QED
    BY <1>3, <2>1, <2>2
<1>5. Now' = Restored(spawn.argument)'
  BY <1>2, <1>3 DEF Now, Restored
<1>6. spawn'.argument \in {"none", "q"}
  BY <1>2, <1>3
<1>7. \E argument \in {"none", "q"} : Undone(Now, tokens)' = Restored(argument)'
  BY <1>4, <1>5, <1>6
<1> QED
  BY <1>2, <1>3, <1>7 DEF Settled

(* A command that ends can be rubbed out.                                  *)
LEMMA EndSettles ==
  ASSUME NEW s \in States, NEW T, NEW ts \in Seq(T), NEW r,
         End(s, ts, r), Restores(s, ts, before'.doc, before'.reg), WithinBlock(s.spawn.reader),
         r.kind # "error"
  PROVE  /\ Settled' /\ spawn' \in Contexts /\ WithinBlock(spawn'.reader)
         /\ doc' = s.doc /\ reg' = s.reg /\ result' = r
<1>1. PICK a \in {"none", "q"} :
        Undone(s, ts) = [doc |-> before'.doc, reg |-> before'.reg, spawn |-> [s.spawn EXCEPT !.argument = a]]
  BY DEF Restores
<1> DEFINE c == [s.spawn EXCEPT !.argument = "none"]
           t == Token("argument", s.spawn.argument)
<1>2. /\ c \in Contexts /\ c.reader = s.spawn.reader
      /\ [c EXCEPT !.argument = s.spawn.argument] = s.spawn
      /\ [c EXCEPT !.argument = a] = [s.spawn EXCEPT !.argument = a]
  <2>1. s.spawn \in Contexts /\ "none" \in {"none", "q"}
    BY StateFields
  <2>2. c \in Contexts /\ c.reader = s.spawn.reader
    BY <2>1, ArgumentSet
  <2>3. [c EXCEPT !.argument = a] = [s.spawn EXCEPT !.argument = a]
    BY <2>1, ArgumentSet
  <2>4. s.spawn.argument \in {"none", "q"} /\ [s.spawn EXCEPT !.argument = s.spawn.argument] = s.spawn
    BY <2>1, Arguing
  <2>5. [c EXCEPT !.argument = s.spawn.argument] = [s.spawn EXCEPT !.argument = s.spawn.argument]
    BY <2>1, <2>4, ArgumentSet
  <2> QED
    BY <2>2, <2>3, <2>4, <2>5
<1>3. doc' = s.doc /\ reg' = s.reg /\ spawn' = c /\ tokens' = Append(ts, t) /\ result' = r
  BY DEF End
<1> DEFINE n == [doc |-> s.doc, reg |-> s.reg, spawn |-> c]
<1> HIDE DEF c
<1>4. n \in States /\ n.doc = s.doc /\ n.reg = s.reg /\ n.spawn = c
  BY <1>2, StateFields DEF States
<1>5. Now' = n
  BY <1>3 DEF Now
<1>6. RunToken(n, t) = s
  <2>1. RunToken(n, t) = [n EXCEPT !.spawn = [c EXCEPT !.argument = s.spawn.argument]]
    BY <1>4, RunTokens, ZenonT(30)
  <2>2. RunToken(n, t) = [n EXCEPT !.spawn = s.spawn]
    BY <1>2, <2>1
  <2>3. [n EXCEPT !.spawn = s.spawn] = [doc |-> s.doc, reg |-> s.reg, spawn |-> s.spawn]
    BY <1>4 DEF States
  <2> QED
    BY <2>2, <2>3, StateFields
<1>7. Undone(n, Append(ts, t)) = Undone(s, ts)
  <2> DEFINE U == T \cup {t}
  <2>1. ts \in Seq(U) /\ t \in U
    OBVIOUS
  <2> HIDE DEF U, n, t
  <2> QED
    BY <1>6, <2>1, UndoneAppend
<1>8. Undone(Now, tokens)' = Undone(Now', tokens')
  BY DEF Undone, RunToken
<1>9. Undone(Now, tokens)' = Restored(a)'
  <2>1. Restored(a)' = [doc |-> before'.doc, reg |-> before'.reg, spawn |-> [spawn' EXCEPT !.argument = a]]
    BY DEF Restored
  <2> QED
    BY <1>1, <1>2, <1>3, <1>5, <1>7, <1>8, <2>1
<1> QED
  BY <1>2, <1>3, <1>9 DEF Settled

-----------------------------------------------------------------------------
(* Ranges of the document.                                                 *)

(* A valid argument is a range of the document.                            *)
LEMMA RangeTypes ==
  ASSUME doc \in Docs, doc.dot <= Len(doc.text), NEW a \in Arguments, InRange(a)
  PROVE  /\ PipedRange(a)[1] \in Int /\ PipedRange(a)[2] \in Int
         /\ 0 <= PipedRange(a)[1] /\ PipedRange(a)[1] <= PipedRange(a)[2]
         /\ PipedRange(a)[2] <= Len(doc.text)
<1>0. doc.dot \in Nat /\ Len(doc.text) \in Nat
  BY DEF Docs, Texts
<1>1. CASE a.kind = "none"
  <2>1. PipedRange(a) = <<doc.dot, doc.dot>>
    BY <1>1 DEF PipedRange
  <2> QED
    BY <1>0, <2>1
<1>2. CASE a.kind = "lines"
  <2> DEFINE p == CHOOSE p \in LinesAway(a.n) : TRUE
  <2>1. LinesAway(a.n) # {}
    BY <1>2 DEF InRange
  <2>2. p \in LineStarts
    BY <2>1 DEF LinesAway, p
  <2> HIDE DEF p
  <2>3. p \in 0 .. Len(doc.text)
    <3>1. DOMAIN doc.text = 1 .. Len(doc.text)
      BY DEF Docs, Texts
    <3> QED
      BY <1>0, <2>2, <3>1 DEF LineStarts
  <2>4. PipedRange(a) = IF p < doc.dot THEN <<p, doc.dot>> ELSE <<doc.dot, p>>
    BY <1>2 DEF PipedRange, p
  <2> QED
    BY <1>0, <2>3, <2>4
<1>3. CASE a.kind = "chars"
  <2>1. PipedRange(a) = <<a.from, a.to>> /\ a.from <= a.to /\ {a.from, a.to} \subseteq 0 .. Len(doc.text)
    BY <1>3 DEF PipedRange, InRange
  <2> QED
    BY <1>0, <2>1
<1> QED
  BY <1>1, <1>2, <1>3, SpawnAssumption

LEMMA AppendedTokens ==
  \A T : \A ts \in Seq(T) : \A a, b, c \in T :
    /\ ts \o <<>> = ts /\ ts \o <<a>> = Append(ts, a)
    /\ ts \o (<<a>> \o <<>>) = Append(ts, a)
    /\ ts \o (<<a>> \o <<b, c>>) = Append(Append(Append(ts, a), b), c)
  OBVIOUS

LEMMA Concatenated ==
  \A C : \A p, q \in Seq(C) :
    /\ p \o q \in Seq(C) /\ Len(p \o q) = Len(p) + Len(q)
    /\ \A i \in 1 .. Len(p) : (p \o q)[i] = p[i]
    /\ \A i \in 1 .. Len(q) : (p \o q)[Len(p) + i] = q[i]
  OBVIOUS

(* What is in front of what has been replaced is as it was.                *)
LEMMA ReplaceProps ==
  ASSUME NEW text \in Texts, NEW from \in Nat, NEW to \in Nat, from <= to, to <= Len(text),
         NEW new \in Texts
  PROVE  /\ Replace(text, from, to, new) \in Texts
         /\ Len(Replace(text, from, to, new)) = Len(text) - (to - from) + Len(new)
         /\ \A k \in 0 .. from : SubSeq(Replace(text, from, to, new), 1, k) = SubSeq(text, 1, k)
         /\ from = to /\ new = <<>> => Replace(text, from, to, new) = text
<1> DEFINE C == Characters
           N == Len(text)
           front == SubSeq(text, 1, from)
           back == SubSeq(text, to + 1, N)
           r == front \o new \o back
<1> HIDE DEF C
<1>0. text \in Seq(C) /\ new \in Seq(C) /\ N \in Nat /\ Len(new) \in Nat
  BY DEF Texts, C
<1>1. /\ front \in Seq(C) /\ Len(front) = from /\ \A i \in 1 .. from : front[i] = text[i]
      /\ back \in Seq(C) /\ Len(back) = N - to /\ \A i \in 1 .. (N - to) : back[i] = text[to + i]
  BY <1>0
<1> HIDE DEF front, back
<1> DEFINE m == front \o new
<1>2. /\ m \in Seq(C) /\ Len(m) = from + Len(new) /\ \A i \in 1 .. from : m[i] = text[i]
      /\ r \in Seq(C) /\ Len(r) = from + Len(new) + (N - to)
      /\ \A i \in 1 .. from : r[i] = m[i]
      /\ \A i \in 1 .. (N - to) : r[from + Len(new) + i] = text[to + i]
  <2>1. m \in Seq(C) /\ Len(m) = from + Len(new) /\ \A i \in 1 .. from : m[i] = front[i]
    <3>1. new \in Seq(C) /\ front \in Seq(C)
      BY <1>0, <1>1
    <3>2. /\ m \in Seq(C) /\ Len(m) = Len(front) + Len(new)
          /\ \A i \in 1 .. Len(front) : m[i] = front[i]
      BY <3>1, Concatenated
    <3> HIDE DEF m
    <3> QED
      BY <1>1, <3>2
  <2> HIDE DEF m
  <2>2. r = m \o back
    BY DEF m
  <2> HIDE DEF r
  <2>3. /\ r \in Seq(C) /\ Len(r) = Len(m) + Len(back)
        /\ \A i \in 1 .. Len(m) : r[i] = m[i]
        /\ \A i \in 1 .. Len(back) : r[Len(m) + i] = back[i]
    <3>1. back \in Seq(C)
      BY <1>1
    <3>2. m \in Seq(C)
      BY <2>1
    <3> QED
      BY <2>2, <3>1, <3>2, Concatenated
  <2>4. 1 .. from \subseteq 1 .. Len(m)
    BY <1>0, <2>1
  <2> QED
    BY <1>0, <1>1, <2>1, <2>3, <2>4
<1>3. \A i \in 1 .. from : r[i] = text[i]
  BY <1>2
<1>4. from = to /\ new = <<>> => r = text
  <2> SUFFICES ASSUME from = to, new = <<>> PROVE r = text
    OBVIOUS
  <2>1. Len(new) = 0
    OBVIOUS
  <2>2. \A i \in 1 .. N : r[i] = text[i]
    <3> HIDE DEF r
    <3> SUFFICES ASSUME NEW i \in 1 .. N PROVE r[i] = text[i]
      OBVIOUS
    <3>1. CASE i <= from
      <4>1. i \in 1 .. from
        BY <3>1
      <4> QED
        BY <1>3, <4>1
    <3>2. CASE i > from
      <4>1. i - from \in 1 .. (N - to) /\ from + Len(new) + (i - from) = i /\ to + (i - from) = i
        BY <1>0, <1>1, <2>1, <3>2
      <4> QED
        BY <1>2, <4>1
    <3>3. i <= from \/ i > from
      BY <1>0
    <3> QED
      BY <3>1, <3>2, <3>3
  <2>3. Len(r) = N
    BY <1>0, <1>2, <2>1
  <2> HIDE DEF r
  <2> QED
    BY <1>0, <1>2, <2>2, <2>3
<1>5. \A k \in 0 .. from : SubSeq(r, 1, k) = SubSeq(text, 1, k)
  <2> SUFFICES ASSUME NEW k \in 0 .. from PROVE SubSeq(r, 1, k) = SubSeq(text, 1, k)
    OBVIOUS
  <2> HIDE DEF r
  <2> QED
    BY <1>0, <1>2, <1>3
<1>6. Replace(text, from, to, new) = r
  BY DEF Replace, front, back
<1> HIDE DEF r
<1> QED
  BY <1>0, <1>2, <1>4, <1>5, <1>6 DEF Texts, C

-----------------------------------------------------------------------------
(* The end of a command.                                                   *)

LEMMA StateSet ==
  ASSUME NEW s \in States
  PROVE  /\ \A x \in Docs : /\ [s EXCEPT !.doc = x] \in States /\ [s EXCEPT !.doc = x].doc = x
                            /\ [s EXCEPT !.doc = x].reg = s.reg /\ [s EXCEPT !.doc = x].spawn = s.spawn
         /\ \A x \in Regs : /\ [s EXCEPT !.reg = x] \in States /\ [s EXCEPT !.reg = x].reg = x
                            /\ [s EXCEPT !.reg = x].doc = s.doc /\ [s EXCEPT !.reg = x].spawn = s.spawn
         /\ \A x \in Contexts : /\ [s EXCEPT !.spawn = x] \in States /\ [s EXCEPT !.spawn = x].spawn = x
                                /\ [s EXCEPT !.spawn = x].doc = s.doc /\ [s EXCEPT !.spawn = x].reg = s.reg
<1> DEFINE D == Docs
           R == Regs
           C == Contexts
<1> HIDE DEF D, R, C
<1>0. s \in [doc : D, reg : R, spawn : C]
  BY DEF States, D, R, C
<1>1. ASSUME NEW x \in D
      PROVE  /\ [s EXCEPT !.doc = x] \in [doc : D, reg : R, spawn : C] /\ [s EXCEPT !.doc = x].doc = x
             /\ [s EXCEPT !.doc = x].reg = s.reg /\ [s EXCEPT !.doc = x].spawn = s.spawn
  BY <1>0
<1>2. ASSUME NEW x \in R
      PROVE  /\ [s EXCEPT !.reg = x] \in [doc : D, reg : R, spawn : C] /\ [s EXCEPT !.reg = x].reg = x
             /\ [s EXCEPT !.reg = x].doc = s.doc /\ [s EXCEPT !.reg = x].spawn = s.spawn
  BY <1>0
<1>3. ASSUME NEW x \in C
      PROVE  /\ [s EXCEPT !.spawn = x] \in [doc : D, reg : R, spawn : C] /\ [s EXCEPT !.spawn = x].spawn = x
             /\ [s EXCEPT !.spawn = x].doc = s.doc /\ [s EXCEPT !.spawn = x].reg = s.reg
  BY <1>0
<1> QED
  BY <1>1, <1>2, <1>3 DEF States, D, R, C

(* What remains of a document when a token has restored a part of it.      *)
DocIs(d, text, dot, undo, dirty, ranges) ==
  d \in Docs /\ d.text = text /\ d.dot = dot /\ d.undo = undo /\ d.dirty = dirty /\ d.ranges = ranges

LEMMA DocSet ==
  \A d \in Docs :
         /\ \A b \in BOOLEAN : DocIs([d EXCEPT !.dirty = b], d.text, d.dot, d.undo, b, d.ranges)
         /\ \A r \in Seq(Int) : DocIs([d EXCEPT !.ranges = r], d.text, d.dot, d.undo, d.dirty, r)
         /\ \A p \in Nat : DocIs([d EXCEPT !.dot = p], d.text, p, d.undo, d.dirty, d.ranges)
         /\ \A text \in Texts, undo \in Seq(Texts), p \in Nat :
              DocIs([d EXCEPT !.text = text, !.undo = undo, !.dot = p], text, p, undo, d.dirty, d.ranges)
<1> SUFFICES ASSUME NEW d \in Docs
             PROVE  /\ \A b \in BOOLEAN : DocIs([d EXCEPT !.dirty = b], d.text, d.dot, d.undo, b, d.ranges)
                    /\ \A r \in Seq(Int) : DocIs([d EXCEPT !.ranges = r], d.text, d.dot, d.undo, d.dirty, r)
                    /\ \A p \in Nat : DocIs([d EXCEPT !.dot = p], d.text, p, d.undo, d.dirty, d.ranges)
                    /\ \A text \in Texts, undo \in Seq(Texts), p \in Nat :
                         DocIs([d EXCEPT !.text = text, !.undo = undo, !.dot = p], text, p, undo, d.dirty, d.ranges)
  BY Zenon
<1> DEFINE T == Texts
           U == Seq(Texts)
           R == Seq(Int)
<1> HIDE DEF T, U, R
<1>0. d \in [text : T, dot : Nat, undo : U, dirty : BOOLEAN, ranges : R]
  BY DEF Docs, T, U, R
<1>1. Docs = [text : T, dot : Nat, undo : U, dirty : BOOLEAN, ranges : R]
  BY DEF Docs, T, U, R
<1>2. ASSUME NEW b \in BOOLEAN PROVE DocIs([d EXCEPT !.dirty = b], d.text, d.dot, d.undo, b, d.ranges)
  BY <1>0, <1>1 DEF DocIs
<1>3. ASSUME NEW r \in R PROVE DocIs([d EXCEPT !.ranges = r], d.text, d.dot, d.undo, d.dirty, r)
  BY <1>0, <1>1 DEF DocIs
<1>4. ASSUME NEW p \in Nat PROVE DocIs([d EXCEPT !.dot = p], d.text, p, d.undo, d.dirty, d.ranges)
  BY <1>0, <1>1 DEF DocIs
<1>5. ASSUME NEW text \in T, NEW undo \in U, NEW p \in Nat
      PROVE  DocIs([d EXCEPT !.text = text, !.undo = undo, !.dot = p], text, p, undo, d.dirty, d.ranges)
  BY <1>0, <1>1 DEF DocIs
<1> QED
  BY <1>2, <1>3, <1>4, <1>5 DEF T, U, R

LEMMA SameDocs ==
  ASSUME NEW d \in Docs, NEW e \in Docs,
         d.text = e.text, d.dot = e.dot, d.undo = e.undo, d.dirty = e.dirty, d.ranges = e.ranges
  PROVE  d = e
<1>1. /\ d = [text |-> d.text, dot |-> d.dot, undo |-> d.undo, dirty |-> d.dirty, ranges |-> d.ranges]
      /\ e = [text |-> e.text, dot |-> e.dot, undo |-> e.undo, dirty |-> e.dirty, ranges |-> e.ranges]
  BY DEF Docs
<1> QED
  BY <1>1

(* SCI_UNDO takes back the last action.                                    *)
LEMMA UndoActions ==
  ASSUME NEW text \in Texts, NEW undo \in Seq(Texts)
  PROVE  /\ Append(undo, text) \in Seq(Texts)
         /\ Last(Append(undo, text)) = text /\ Front(Append(undo, text)) = undo
<1> DEFINE T == Texts
<1> HIDE DEF T
<1>1. text \in T /\ undo \in Seq(T)
  BY DEF T
<1>2. /\ Append(undo, text) \in Seq(T) /\ Len(Append(undo, text)) = Len(undo) + 1
      /\ Append(undo, text)[Len(undo) + 1] = text
      /\ \A i \in 1 .. Len(undo) : Append(undo, text)[i] = undo[i]
  BY <1>1, AppendProperties
<1>3. Last(Append(undo, text)) = text
  BY <1>2 DEF Last
<1>4. Front(Append(undo, text)) = undo
  <2> DEFINE a == Append(undo, text)
  <2>1. Front(a) = SubSeq(a, 1, Len(a) - 1)
    BY DEF Front
  <2> HIDE DEF a
  <2>2. Len(a) - 1 = Len(undo) /\ a \in Seq(T) /\ \A i \in 1 .. Len(undo) : a[i] = undo[i]
    BY <1>1, <1>2 DEF a
  <2>3. Front(a) \in Seq(T) /\ Len(Front(a)) = Len(undo) /\ \A i \in 1 .. Len(undo) : Front(a)[i] = undo[i]
    BY <1>1, <1>2, <2>1, <2>2 DEF a
  <2>4. Front(a) = undo
    BY <1>1, <2>3
  <2> QED
    BY <2>4 DEF a
<1> QED
  BY <1>2, <1>3, <1>4 DEF T

LEMMA EndedOnDocument ==
  ASSUME TypeOK, InText, OnDocument, spawn.argument = "none"
  PROVE  /\ Ended \in States /\ Ended.spawn = spawn /\ Ended.doc.dot <= Len(Ended.doc.text)
         /\ \E S : tokens \o EndTokens \in Seq(S)
         /\ Restores(Ended, tokens \o EndTokens, before.doc, before.reg)
<1> DEFINE d == before.doc
           N == Len(doc.text)
           text == Replace(doc.text, spawn.from, spawn.to, <<>>)
           dot == doc.dot - (spawn.to - spawn.from)
           undo == IF text = d.text /\ ~Changed THEN doc.undo ELSE Append(doc.undo, d.text)
           dirty == doc.dirty \/ Changed
           ranges == <<spawn.from, dot>>
           e == [text |-> text, dot |-> dot, ranges |-> ranges, undo |-> undo, dirty |-> dirty]
           s == [doc |-> e, reg |-> reg, spawn |-> spawn]
<1>0. /\ doc \in Docs /\ reg \in Regs /\ spawn \in Contexts /\ d \in Docs
      /\ doc.dot <= N /\ N \in Nat /\ doc.dot \in Nat /\ doc.undo \in Seq(Texts) /\ doc.dirty \in BOOLEAN
      /\ doc.text \in Texts /\ d.text \in Texts /\ d.dot \in Nat
      /\ doc.undo = d.undo /\ doc.dirty = d.dirty /\ doc.ranges = d.ranges /\ doc.ranges \in Seq(Int)
      /\ spawn.from \in Int /\ spawn.to \in Int /\ 0 <= spawn.from /\ spawn.from <= spawn.to
      /\ spawn.to <= doc.dot /\ reg = before.reg
  <2>1. doc \in Docs /\ reg \in Regs /\ spawn \in Contexts /\ d \in Docs /\ doc.dot <= N
    BY DEF TypeOK
  <2>2. /\ N \in Nat /\ doc.dot \in Nat /\ doc.undo \in Seq(Texts) /\ doc.dirty \in BOOLEAN
        /\ doc.text \in Texts /\ d.text \in Texts /\ d.dot \in Nat /\ doc.ranges \in Seq(Int)
    <3>1. doc.text \in Texts
      BY <2>1 DEF Docs
    <3>2. N \in Nat
      BY <3>1 DEF Texts
    <3> QED
      BY <2>1, <3>1, <3>2 DEF Docs
  <2>3. spawn.from \in Int /\ spawn.to \in Int /\ spawn.start \in Int
    BY <2>1 DEF Contexts
  <2>4. 0 <= spawn.from /\ spawn.from <= spawn.to
    BY <2>3 DEF InText
  <2> QED
    BY <2>1, <2>2, <2>3, <2>4 DEF OnDocument
<1>1. /\ text \in Texts /\ Len(text) = N - (spawn.to - spawn.from)
      /\ spawn.from = spawn.to => text = doc.text
  <2> DEFINE z == <<>>
  <2>1. z \in Texts /\ Len(z) = 0 /\ spawn.from \in Nat /\ spawn.to \in Nat /\ spawn.to <= Len(doc.text)
    BY <1>0 DEF Texts
  <2> HIDE DEF z
  <2>2. /\ Replace(doc.text, spawn.from, spawn.to, z) \in Texts
        /\ Len(Replace(doc.text, spawn.from, spawn.to, z)) = N - (spawn.to - spawn.from) + Len(z)
        /\ spawn.from = spawn.to /\ z = <<>> => Replace(doc.text, spawn.from, spawn.to, z) = doc.text
    <3>1. doc.text \in Texts /\ spawn.from <= spawn.to
      BY <1>0
    <3>2. spawn.to <= Len(doc.text)
      BY <2>1
    <3> HIDE DEF N
    <3> QED
      BY <2>1, <3>1, <3>2, ReplaceProps DEF N
  <2> QED
    BY <1>0, <2>1, <2>2 DEF z
<1>2. dot \in Nat /\ ranges \in Seq(Int) /\ dot <= Len(text)
  BY <1>0, <1>1
<1>3. Changed \in BOOLEAN /\ dirty \in BOOLEAN
  BY <1>0 DEF Changed, Contexts
<1>4. undo \in Seq(Texts) /\ (Changed => undo = Append(doc.undo, d.text)) /\ (~Changed => undo = doc.undo /\ text = d.text)
  <2>1. ~Changed => text = d.text
    BY <1>1 DEF Changed, OnDocument
  <2> HIDE DEF text
  <2> QED
    BY <1>0, <2>1, UndoActions
<1>5. Ended = s
  BY DEF Ended, Now
<1> HIDE DEF text, dot, undo, dirty, ranges
<1>6. e \in Docs /\ e.text = text /\ e.dot = dot /\ e.undo = undo /\ e.dirty = dirty /\ e.ranges = ranges
  <2> DEFINE T == Texts
             U == Seq(Texts)
             R == Seq(Int)
  <2>1. text \in T /\ undo \in U /\ ranges \in R /\ dot \in Nat /\ dirty \in BOOLEAN
    BY <1>1, <1>2, <1>3, <1>4
  <2> HIDE DEF T, U, R
  <2>2. e \in [text : T, dot : Nat, undo : U, dirty : BOOLEAN, ranges : R]
    BY <2>1
  <2> QED
    BY <2>2 DEF Docs, T, U, R
<1> HIDE DEF e
<1>7. s \in States /\ s.doc = e /\ s.reg = reg /\ s.spawn = spawn
  BY <1>0, <1>6 DEF States
<1> HIDE DEF s
<1> DEFINE g == Token("SCI_GOTOPOS", d.dot)
           r == Token("ranges", d.ranges)
           u == Token("SCI_UNDO", 0)
           b == Token("dirty", d.dirty)
<1> DEFINE T == {g, r, u, b}
           t1 == Append(<<g>>, r)
           t2 == Append(t1, u)
           t3 == Append(t2, b)
<1>t. <<g>> \in Seq(T) /\ g \in T /\ r \in T /\ u \in T /\ b \in T
  <2> HIDE DEF g, r, u, b
  <2> QED
    OBVIOUS
<1>8. tokens \o EndTokens = IF Changed THEN t3 ELSE t1
  <2>1. tokens = <<g>> /\ EndTokens = <<r>> \o (IF Changed THEN <<u, b>> ELSE <<>>)
    BY <1>0 DEF OnDocument, EndTokens
  <2> HIDE DEF g, r, u, b, T
  <2>2. tokens \in Seq(T)
    BY <1>t, <2>1
  <2>3. tokens \o (<<r>> \o <<u, b>>) = t3 /\ tokens \o (<<r>> \o <<>>) = t1
    BY <1>t, <2>1, <2>2, AppendedTokens
  <2> QED
    BY <1>3, <2>1, <2>3
<1>8a. t1 \in Seq(T) /\ t2 \in Seq(T) /\ t3 \in Seq(T)
  <2> HIDE DEF g, r, u, b, T
  <2> QED
    BY <1>t
<1>9. ASSUME NEW x \in States, x.doc.text = d.text, x.doc.undo = d.undo, x.doc.dirty = d.dirty,
             x.reg = reg, x.spawn = spawn
      PROVE  Undone(x, t1) = [doc |-> d, reg |-> before.reg, spawn |-> [spawn EXCEPT !.argument = spawn.argument]]
  <2> DEFINE x1 == [x EXCEPT !.doc = [x.doc EXCEPT !.ranges = d.ranges]]
             x2 == [x1 EXCEPT !.doc = [x1.doc EXCEPT !.dot = d.dot]]
  <2>1. RunToken(x, r) = x1
    BY RunTokens, ZenonT(30)
  <2>2. /\ x1 \in States /\ x1.doc.text = d.text /\ x1.doc.undo = d.undo /\ x1.doc.dirty = d.dirty
        /\ x1.doc.ranges = d.ranges /\ x1.reg = reg /\ x1.spawn = spawn
    <3> DEFINE y == [x.doc EXCEPT !.ranges = d.ranges]
    <3>1. x.doc \in Docs /\ d.ranges \in Seq(Int)
      BY <1>0, <1>9, StateFields
    <3>1a. DocIs(y, x.doc.text, x.doc.dot, x.doc.undo, x.doc.dirty, d.ranges)
      BY <3>1, DocSet
    <3>2. y \in Docs /\ y.ranges = d.ranges /\ y.text = x.doc.text /\ y.undo = x.doc.undo /\ y.dirty = x.doc.dirty
      BY <3>1a DEF DocIs
    <3> HIDE DEF y
    <3>3. x1 \in States /\ x1.doc = y /\ x1.reg = x.reg /\ x1.spawn = x.spawn
      BY <1>9, <3>2, StateSet DEF y
    <3> QED
      BY <1>9, <3>2, <3>3
  <2> HIDE DEF x1
  <2>3. RunToken(x1, g) = x2
    BY <2>2, RunTokens, ZenonT(40)
  <2>4. /\ x2 \in States /\ x2.doc.text = d.text /\ x2.doc.undo = d.undo /\ x2.doc.dirty = d.dirty
        /\ x2.doc.ranges = d.ranges /\ x2.doc.dot = d.dot /\ x2.reg = reg /\ x2.spawn = spawn
    <3> DEFINE y == [x1.doc EXCEPT !.dot = d.dot]
    <3>1. x1.doc \in Docs /\ d.dot \in Nat
      BY <1>0, <2>2, StateFields
    <3>2. /\ y \in Docs /\ y.dot = d.dot /\ y.text = x1.doc.text /\ y.undo = x1.doc.undo
          /\ y.dirty = x1.doc.dirty /\ y.ranges = x1.doc.ranges
      <4>1. DocIs(y, x1.doc.text, d.dot, x1.doc.undo, x1.doc.dirty, x1.doc.ranges)
        BY <3>1, DocSet
      <4> QED
        BY <4>1 DEF DocIs
    <3> HIDE DEF y
    <3>3. x2 \in States /\ x2.doc = y /\ x2.reg = x1.reg /\ x2.spawn = x1.spawn
      BY <2>2, <3>2, StateSet DEF y
    <3> QED
      BY <2>2, <3>2, <3>3
  <2> HIDE DEF x2
  <2>5. x2.doc = d
    BY <1>0, <2>4, StateFields, SameDocs
  <2>6. x2 = [doc |-> d, reg |-> reg, spawn |-> spawn]
    BY <2>4, <2>5, StateFields
  <2>7. Undone(x, t1) = x2
    <3> DEFINE z == <<>>
               z1 == <<g>>
    <3>0. z1 = Append(z, g) /\ z \in Seq(T)
      OBVIOUS
    <3>1. Undone(x2, z) = x2
      BY <1>t, <3>0, UndoneAppend
    <3> HIDE DEF g, r, T, z, z1
    <3>2. Undone(x1, Append(z, g)) = Undone(RunToken(x1, g), z)
      BY <1>t, <3>0, UndoneAppend
    <3>3. Undone(x, Append(z1, r)) = Undone(RunToken(x, r), z1)
      BY <1>t, UndoneAppend DEF z1
    <3> QED
      BY <2>1, <2>3, <3>0, <3>1, <3>2, <3>3 DEF z1
  <2>8. [spawn EXCEPT !.argument = spawn.argument] = spawn
    BY <1>0, Arguing
  <2> QED
    BY <1>0, <2>6, <2>7, <2>8
<1>10. Undone(s, tokens \o EndTokens)
         = [doc |-> d, reg |-> before.reg, spawn |-> [spawn EXCEPT !.argument = spawn.argument]]
  <2>1. CASE ~Changed
    BY <1>0, <1>3, <1>4, <1>6, <1>7, <1>8, <1>9, <2>1 DEF dirty
  <2>2. CASE Changed
    <3> DEFINE s1 == [s EXCEPT !.doc = [s.doc EXCEPT !.dirty = d.dirty]]
               s2 == [s1 EXCEPT !.doc = [s1.doc EXCEPT !.text = Last(s1.doc.undo), !.undo = Front(s1.doc.undo),
                                                       !.dot = Len(Last(s1.doc.undo))]]
    <3>1. RunToken(s, b) = s1
      BY <1>7, RunTokens, ZenonT(30)
    <3>2. s1 \in States /\ s1.doc.undo = undo /\ s1.doc.dirty = d.dirty /\ s1.reg = reg /\ s1.spawn = spawn
      <4> DEFINE y == [s.doc EXCEPT !.dirty = d.dirty]
      <4>1. s.doc \in Docs /\ d.dirty \in BOOLEAN
        BY <1>0, <1>7, StateFields
      <4>2. y \in Docs /\ y.dirty = d.dirty /\ y.undo = s.doc.undo
        <5>1. DocIs(y, s.doc.text, s.doc.dot, s.doc.undo, d.dirty, s.doc.ranges)
          BY <4>1, DocSet
        <5> QED
          BY <5>1 DEF DocIs
      <4> HIDE DEF y
      <4>3. s1 \in States /\ s1.doc = y /\ s1.reg = s.reg /\ s1.spawn = s.spawn
        BY <1>7, <4>2, StateSet DEF y
      <4> QED
        BY <1>6, <1>7, <4>2, <4>3
    <3> HIDE DEF s1
    <3>3. RunToken(s1, u) = s2
      BY <3>2, RunTokens, ZenonT(30)
    <3>4. Last(s1.doc.undo) = d.text /\ Front(s1.doc.undo) = d.undo /\ Len(d.text) \in Nat /\ d.undo \in Seq(Texts)
      <4>1. s1.doc.undo = Append(d.undo, d.text) /\ d.text \in Texts /\ d.undo \in Seq(Texts)
        BY <1>0, <1>4, <2>2, <3>2
      <4>2. Len(d.text) \in Nat
        BY <4>1 DEF Texts
      <4> QED
        BY <4>1, <4>2, UndoActions
    <3>5. /\ s2 \in States /\ s2.doc.text = d.text /\ s2.doc.undo = d.undo /\ s2.doc.dirty = d.dirty
          /\ s2.reg = reg /\ s2.spawn = spawn
      <4> DEFINE y == [s1.doc EXCEPT !.text = d.text, !.undo = d.undo, !.dot = Len(d.text)]
      <4>1. s1.doc \in Docs
        BY <3>2, StateFields
      <4>2. y \in Docs /\ y.text = d.text /\ y.undo = d.undo /\ y.dirty = s1.doc.dirty
        <5> DEFINE p == Len(d.text)
        <5>1. d.text \in Texts /\ d.undo \in Seq(Texts) /\ p \in Nat
          BY <1>0, <3>4
        <5> QED
          <6>1. DocIs(y, d.text, p, d.undo, s1.doc.dirty, s1.doc.ranges)
            BY <4>1, <5>1, DocSet DEF p
          <6> QED
            BY <6>1 DEF DocIs
      <4>3. s2 = [s1 EXCEPT !.doc = y]
        BY <3>4
      <4> HIDE DEF y, s2
      <4> QED
        BY <3>2, <4>2, <4>3, StateSet
    <3> HIDE DEF s2
    <3>6. Undone(s, t3) = Undone(s2, t1)
      <4> HIDE DEF g, r, u, b, T, t1
      <4>1. Undone(s1, t2) = Undone(RunToken(s1, u), t1)
        BY <1>t, <1>8a, UndoneAppend
      <4> HIDE DEF t2
      <4>2. Undone(s, t3) = Undone(RunToken(s, b), t2)
        BY <1>t, <1>8a, UndoneAppend
      <4> QED
        BY <3>1, <3>3, <4>1, <4>2
    <3>7. Undone(s2, t1)
            = [doc |-> d, reg |-> before.reg, spawn |-> [spawn EXCEPT !.argument = spawn.argument]]
      BY <1>9, <3>5
    <3> QED
      BY <1>8, <2>2, <3>6, <3>7
  <2> QED
    BY <2>1, <2>2
<1>11. \E S : tokens \o EndTokens \in Seq(S)
  <2>1. tokens \o EndTokens \in Seq(T)
    BY <1>3, <1>8, <1>8a
  <2> QED
    BY <2>1
<1>12. spawn.argument \in {"none", "q"}
  BY <1>0, Arguing
<1> QED
  BY <1>2, <1>5, <1>6, <1>7, <1>10, <1>11, <1>12 DEF Restores

LEMMA RegSet ==
  \A r \in Regs :
    /\ \A text \in Texts : /\ [r EXCEPT !.text = text] \in Regs
                           /\ [r EXCEPT !.text = text] = [text |-> text, eol |-> r.eol]
    /\ \A eol \in EolStyles : /\ [r EXCEPT !.eol = eol] \in Regs
                              /\ [r EXCEPT !.eol = eol] = [text |-> r.text, eol |-> eol]
    /\ r = [text |-> r.text, eol |-> r.eol]
<1> DEFINE T == Texts
           E == EolStyles
<1> HIDE DEF T, E
<1>1. ASSUME NEW r \in [text : T, eol : E]
      PROVE  /\ \A text \in T : /\ [r EXCEPT !.text = text] \in [text : T, eol : E]
                                /\ [r EXCEPT !.text = text] = [text |-> text, eol |-> r.eol]
             /\ \A eol \in E : /\ [r EXCEPT !.eol = eol] \in [text : T, eol : E]
                               /\ [r EXCEPT !.eol = eol] = [text |-> r.text, eol |-> eol]
             /\ r = [text |-> r.text, eol |-> r.eol]
  BY <1>1
<1> QED
  BY <1>1 DEF Regs, T, E

LEMMA EndedOnRegister ==
  ASSUME TypeOK, OnRegister, spawn.argument # "none"
  PROVE  /\ Ended \in States /\ Ended.spawn = spawn /\ Ended.doc = doc
         /\ \E S : tokens \o EndTokens \in Seq(S)
         /\ Restores(Ended, tokens \o EndTokens, before.doc, before.reg)
<1> DEFINE style == spawn.reader.style
           r == Token("register", before.reg.text)
           e == Token("eol mode", reg.eol)
<1>0. /\ doc \in Docs /\ reg \in Regs /\ spawn \in Contexts /\ before.reg \in Regs
      /\ style \in EolStyles \cup {"none"} /\ reg.eol \in EolStyles
      /\ before.reg.eol = reg.eol /\ before.reg.text \in Texts /\ doc = before.doc
  BY DEF TypeOK, Regs, Contexts, Readers, OnRegister
<1>1. Now \in States /\ Now.doc = doc /\ Now.reg = reg /\ Now.spawn = spawn
  BY <1>0 DEF Now, States
<1>2. PICK ts \in {<<>>, <<Token("argument", "none")>>, <<Token("argument", "q")>>} :
        tokens = IF spawn.added THEN Append(ts, r) ELSE ts
  BY DEF OnRegister
<1> DEFINE S == {Token("argument", "none"), Token("argument", "q"), r, e}
<1>3. ts \in Seq(S) /\ r \in S /\ e \in S
  <2> DEFINE a == Token("argument", "none")
             b == Token("argument", "q")
  <2> HIDE DEF a, b, r, e
  <2>1. <<>> \in Seq({a, b, r, e}) /\ <<a>> \in Seq({a, b, r, e}) /\ <<b>> \in Seq({a, b, r, e})
    OBVIOUS
  <2> QED
    BY <1>2, <2>1 DEF a, b
<1>4. ASSUME NEW x \in States, x.spawn = spawn
      PROVE  \E a \in {"none", "q"} : Undone(x, ts) = [doc |-> x.doc, reg |-> x.reg, spawn |-> [spawn EXCEPT !.argument = a]]
  <2> DEFINE z == <<>>
  <2>1. z \in Seq(S) /\ Undone(x, z) = x
    <3>1. z \in Seq(S)
      OBVIOUS
    <3> HIDE DEF S
    <3> QED
      BY <1>3, <3>1, UndoneAppend
  <2>2. CASE ts = <<>>
    <3>1. [spawn EXCEPT !.argument = spawn.argument] = spawn /\ spawn.argument \in {"none", "q"}
      BY <1>0, Arguing
    <3>2. x = [doc |-> x.doc, reg |-> x.reg, spawn |-> spawn]
      BY <1>4, StateFields
    <3> QED
      BY <2>1, <2>2, <3>1, <3>2
  <2>3. ASSUME NEW a \in {"none", "q"}, ts = <<Token("argument", a)>>
        PROVE  Undone(x, ts) = [doc |-> x.doc, reg |-> x.reg, spawn |-> [spawn EXCEPT !.argument = a]]
    <3> DEFINE t == Token("argument", a)
               c == [spawn EXCEPT !.argument = a]
               y == [x EXCEPT !.spawn = c]
    <3>1. RunToken(x, t) = y
      BY <1>4, RunTokens, ZenonT(30)
    <3>2. t \in S
      OBVIOUS
    <3>3. c \in Contexts
      BY <1>0, ArgumentSet
    <3> HIDE DEF c, S, t
    <3>4. y \in States /\ y.spawn = c /\ y.doc = x.doc /\ y.reg = x.reg
      BY <3>3, StateSet
    <3>5. y = [doc |-> x.doc, reg |-> x.reg, spawn |-> c]
      BY <3>4, StateFields
    <3> HIDE DEF y
    <3>6. ts = Append(z, t)
      BY <2>3 DEF t
    <3> HIDE DEF z
    <3>7. Undone(x, Append(z, t)) = Undone(RunToken(x, t), z)
      BY <2>1, <3>2, UndoneAppend
    <3>8. Undone(y, z) = y
      BY <2>1, <3>2, <3>4, UndoneAppend DEF z
    <3> QED
      BY <3>1, <3>5, <3>6, <3>7, <3>8 DEF c
  <2> QED
    BY <1>2, <2>2, <2>3
<1>5. \E a \in {"none", "q"} :
        Undone(Now, tokens) = [doc |-> before.doc, reg |-> before.reg, spawn |-> [spawn EXCEPT !.argument = a]]
  <2>1. CASE ~spawn.added
    <3>1. reg = before.reg /\ tokens = ts
      BY <1>2, <2>1 DEF OnRegister
    <3> QED
      BY <1>0, <1>1, <1>4, <3>1
  <2>2. CASE spawn.added
    <3> DEFINE x == [Now EXCEPT !.reg = [Now.reg EXCEPT !.text = before.reg.text]]
    <3>1. RunToken(Now, r) = x
      BY <1>1, RunTokens, ZenonT(30)
    <3>2. [reg EXCEPT !.text = before.reg.text] \in Regs /\ [reg EXCEPT !.text = before.reg.text] = before.reg
      BY <1>0, RegSet
    <3>3. x \in States /\ x.reg = before.reg /\ x.doc = doc /\ x.spawn = spawn
      BY <1>1, <3>2, StateSet
    <3> HIDE DEF x, S, r
    <3>4. Undone(Now, Append(ts, r)) = Undone(RunToken(Now, r), ts)
      BY <1>3, UndoneAppend
    <3>5. tokens = Append(ts, r)
      BY <1>2, <2>2
    <3> QED
      BY <1>0, <1>4, <3>1, <3>3, <3>4, <3>5
  <2> QED
    BY <2>1, <2>2
<1>6. tokens \in Seq(S)
  <2> HIDE DEF S, r
  <2>1. Append(ts, r) \in Seq(S)
    BY <1>3, AppendProperties
  <2> QED
    BY <1>2, <1>3, <2>1
<1>7. CASE style = "none"
  <2>1. Ended = Now
    <3>1. Ended = [Now EXCEPT !.reg = [reg EXCEPT !.eol = reg.eol]]
      BY <1>0, <1>1, <1>7 DEF Ended
    <3>2. [reg EXCEPT !.eol = reg.eol] = reg
      BY <1>0, RegSet
    <3> QED
      BY <1>0, <1>1, <3>1, <3>2 DEF Now
  <2>2. tokens \o EndTokens = tokens
    <3>1. EndTokens = <<>>
      BY <1>7 DEF EndTokens
    <3> HIDE DEF S
    <3> QED
      BY <1>3, <1>6, <3>1, AppendedTokens
  <2> HIDE DEF S
  <2> QED
    BY <1>1, <1>5, <1>6, <2>1, <2>2 DEF Restores
<1>8. CASE style # "none"
  <2> DEFINE g == [reg EXCEPT !.eol = style]
             s == [Now EXCEPT !.reg = g]
  <2>1. Ended = s
    BY <1>0, <1>1, <1>8 DEF Ended, Now
  <2>2. g \in Regs /\ [g EXCEPT !.eol = reg.eol] = reg
    <3>1. style \in EolStyles
      BY <1>0, <1>8
    <3>2. g \in Regs /\ g = [text |-> reg.text, eol |-> style]
      BY <1>0, <3>1, RegSet
    <3>3. [g EXCEPT !.eol = reg.eol] = [text |-> g.text, eol |-> reg.eol]
      BY <1>0, <3>2, RegSet
    <3>4. reg = [text |-> reg.text, eol |-> reg.eol]
      BY <1>0, RegSet
    <3> QED
      BY <3>2, <3>3, <3>4
  <2> HIDE DEF g
  <2>3. s \in States /\ s.doc = doc /\ s.reg = g /\ s.spawn = spawn
    BY <1>1, <2>2, StateSet
  <2>4. RunToken(s, e) = Now
    <3> DEFINE y == [s EXCEPT !.reg = [s.reg EXCEPT !.eol = reg.eol]]
    <3>1. RunToken(s, e) = y
      BY <2>3, RunTokens, ZenonT(30)
    <3>2. y = [s EXCEPT !.reg = reg]
      BY <2>2, <2>3
    <3>3. y \in States /\ y.doc = doc /\ y.reg = reg /\ y.spawn = spawn
      <4> HIDE DEF y, s
      <4>1. /\ [s EXCEPT !.reg = reg] \in States /\ [s EXCEPT !.reg = reg].doc = s.doc
            /\ [s EXCEPT !.reg = reg].reg = reg /\ [s EXCEPT !.reg = reg].spawn = s.spawn
        BY <1>0, <2>3, StateSet
      <4> QED
        BY <2>3, <3>2, <4>1
    <3>4. y = [doc |-> doc, reg |-> reg, spawn |-> spawn]
      BY <3>3, StateFields
    <3> QED
      BY <3>1, <3>4 DEF Now
  <2>5. tokens \o EndTokens = Append(tokens, e)
    <3>1. EndTokens = <<e>>
      BY <1>8 DEF EndTokens
    <3> HIDE DEF S, e
    <3> QED
      BY <1>3, <1>6, <3>1, AppendedTokens
  <2> HIDE DEF S, s, e
  <2>6. Undone(s, Append(tokens, e)) = Undone(Now, tokens) /\ Append(tokens, e) \in Seq(S)
    BY <1>3, <1>6, <2>4, UndoneAppend
  <2> QED
    BY <1>5, <2>1, <2>3, <2>5, <2>6 DEF Restores
<1> QED
  BY <1>7, <1>8

-----------------------------------------------------------------------------
(* Every action preserves the invariant.                                   *)

LEMMA ContextSet ==
  ASSUME NEW c \in Contexts, NEW from \in Int, NEW to \in Int
  PROVE  /\ [c EXCEPT !.from = from, !.to = to] \in Contexts
         /\ [c EXCEPT !.from = from, !.to = to].reader = c.reader
<1> DEFINE W == Writers
           R == Readers
           C == [from : Int, to : Int, start : Int, added : BOOLEAN, interrupted : BOOLEAN,
                 error : {"none", "pipe", "memory", "exit", "signal"}, rc : {0, 1},
                 argument : {"none", "q"}, quit : BOOLEAN, turn : SUBSET {"stdin", "stdout"},
                 writer : W, reader : R]
<1>1. Contexts = C
  BY DEF Contexts
<1> HIDE DEF W, R
<1>2. c \in C
  BY <1>1
<1>3. [c EXCEPT !.from = from, !.to = to] \in C /\ [c EXCEPT !.from = from, !.to = to].reader = c.reader
  BY <1>2
<1> QED
  BY <1>1, <1>3

LEMMA NamedTypes ==
  ASSUME TypeOK, NEW target \in {"none", "q"}
  PROVE  /\ Named(target) \in Contexts /\ Named(target).reader = spawn.reader
         /\ Named(target).argument = IF target = "none" THEN spawn.argument ELSE target
         /\ Now \in States /\ Now.doc = doc /\ Now.reg = reg /\ Now.spawn = spawn
<1>1. spawn \in Contexts /\ doc \in Docs /\ reg \in Regs
  BY DEF TypeOK
<1>2. target # "none" => /\ [spawn EXCEPT !.argument = target] \in Contexts
                         /\ [spawn EXCEPT !.argument = target].reader = spawn.reader
                         /\ [spawn EXCEPT !.argument = target].argument = target
  BY <1>1, ArgumentSet
<1>3. Now \in States /\ Now.doc = doc /\ Now.reg = reg /\ Now.spawn = spawn
  BY <1>1 DEF Now, States
<1> QED
  BY <1>1, <1>2, <1>3 DEF Named

(* Between commands the types are those of what End() and Fail() set.      *)
LEMMA IdleTypes ==
  ASSUME TypeOK, loop' = "idle", UNCHANGED <<process, pipes>>, interrupted' \in BOOLEAN,
         doc' \in Docs, doc'.dot <= Len(doc'.text), reg' \in Regs,
         spawn' \in Contexts, WithinBlock(spawn'.reader),
         result' \in [kind : {"none", "error", "failure", "success"}, value : {-1, 0, 1}],
         before' \in [doc : Docs, reg : Regs, target : {"none", "q"}],
         before'.doc.dot <= Len(before'.doc.text), count' \in Nat, Settled'
  PROVE  IInv'
<1>1. TypeOK'
  BY DEF TypeOK, WithinBlock
<1> QED
  BY <1>1 DEF IInv, Running

LEMMA Remembered ==
  ASSUME TypeOK, NEW target \in {"none", "q"}, Remember(target)
  PROVE  /\ before' \in [doc : Docs, reg : Regs, target : {"none", "q"}] /\ count' \in Nat
         /\ before'.doc = doc /\ before'.reg = reg /\ before'.doc.dot <= Len(before'.doc.text)
<1>1. doc \in Docs /\ reg \in Regs /\ doc.dot <= Len(doc.text) /\ count \in Nat
  BY DEF TypeOK
<1>2. before' = [doc |-> doc, reg |-> reg, target |-> target] /\ count' = count + 1
  BY DEF Remember
<1> QED
  BY <1>1, <1>2

LEMMA RefuseStep ==
  ASSUME IInv, NEW target \in {"none", "q"}, NEW colon \in BOOLEAN, NEW a \in Arguments,
         Refuse(target, colon, a)
  PROVE  IInv'
<1> DEFINE n == Named(target)
<1>0. /\ TypeOK /\ loop' = "idle" /\ UNCHANGED <<process, pipes, interrupted>> /\ Remember(target)
      /\ spawn \in Contexts /\ doc \in Docs /\ doc.dot <= Len(doc.text) /\ reg \in Regs
      /\ interrupted \in BOOLEAN /\ WithinBlock(spawn.reader)
  BY DEF IInv, TypeOK, Refuse, Ready, Running
<1>1. /\ n \in Contexts /\ n.reader = spawn.reader
      /\ Now \in States /\ Now.doc = doc /\ Now.reg = reg /\ Now.spawn = spawn
  BY <1>0, NamedTypes
<1>2. /\ before' \in [doc : Docs, reg : Regs, target : {"none", "q"}] /\ count' \in Nat
      /\ before'.doc = doc /\ before'.reg = reg /\ before'.doc.dot <= Len(before'.doc.text)
  BY <1>0, Remembered
<1>3. CASE colon
  <2> DEFINE c == [n EXCEPT !.from = -1, !.to = -1]
  <2>1. spawn' = c /\ tokens' = Naming(target) /\ result' = Failure(0) /\ UNCHANGED <<doc, reg>>
    BY <1>3 DEF Refuse
  <2>2. c \in Contexts /\ c.reader = spawn.reader
    <3>1. -1 \in Int
      OBVIOUS
    <3> QED
      BY <1>1, <3>1, ContextSet
  <2> HIDE DEF c
  <2> DEFINE s == [doc |-> doc, reg |-> reg, spawn |-> c]
  <2>3. s \in States /\ s.doc = doc /\ s.reg = reg /\ s.spawn = c
    BY <1>0, <2>2 DEF States
  <2>4. Restores(s, Naming(target), doc, reg)
    BY <1>0, <2>3, NamingRestores
  <2>5. Undone(Now, tokens)' = Undone(s, Naming(target))
    <3>1. Now' = s
      BY <2>1 DEF Now
    <3>2. Undone(Now, tokens)' = Undone(Now', tokens')
      BY DEF Undone, RunToken
    <3> QED
      BY <2>1, <3>1, <3>2
  <2>6. \A x : Restored(x)' = [doc |-> doc, reg |-> reg, spawn |-> [c EXCEPT !.argument = x]]
    BY <1>2, <2>1 DEF Restored
  <2>7. Settled'
    <3>1. \E x \in {"none", "q"} : Undone(Now, tokens)' = Restored(x)'
      BY <2>3, <2>4, <2>5, <2>6 DEF Restores
    <3> QED
      BY <1>2, <2>1, <3>1 DEF Settled, Failure
  <2>8. result' \in [kind : {"none", "error", "failure", "success"}, value : {-1, 0, 1}]
    BY <2>1 DEF Failure
  <2>9. doc' \in Docs /\ doc'.dot <= Len(doc'.text) /\ reg' \in Regs /\ interrupted' \in BOOLEAN
    BY <1>0, <2>1
  <2>10. spawn' \in Contexts /\ WithinBlock(spawn'.reader)
    BY <1>0, <2>1, <2>2
  <2> QED
    BY <1>0, <1>2, <2>7, <2>8, <2>9, <2>10, IdleTypes
<1>4. CASE ~colon
  <2> DEFINE s == [Now EXCEPT !.spawn = n]
  <2>1. Fail(s, Naming(target))
    BY <1>4 DEF Refuse
  <2>2. s \in States /\ s.doc = doc /\ s.reg = reg /\ s.spawn = n
    BY <1>1, StateSet
  <2> HIDE DEF s
  <2>3. Restores(s, Naming(target), doc, reg)
    BY <1>0, <2>2, NamingRestores
  <2>4. /\ Settled' /\ doc' = doc /\ reg' = reg /\ spawn' \in Contexts /\ WithinBlock(spawn'.reader)
        /\ result' = [kind |-> "error", value |-> 0]
    <3>1. Restores(s, Naming(target), before'.doc, before'.reg) /\ WithinBlock(s.spawn.reader)
      BY <1>0, <1>1, <1>2, <2>2, <2>3
    <3> QED
      BY <1>2, <2>1, <2>2, <3>1, FailSettles
  <2>5. result' \in [kind : {"none", "error", "failure", "success"}, value : {-1, 0, 1}]
    BY <2>4
  <2>6. doc' \in Docs /\ doc'.dot <= Len(doc'.text) /\ reg' \in Regs /\ interrupted' \in BOOLEAN
    BY <1>0, <2>4
  <2> QED
    BY <1>0, <1>2, <2>4, <2>5, <2>6, IdleTypes
<1> QED
  BY <1>3, <1>4

(* The last step of a command, whether it fails or ends.                   *)
LEMMA SettlingStep ==
  ASSUME TypeOK, NEW s \in States, NEW T, NEW ts \in Seq(T),
         WithinBlock(s.spawn.reader), s.doc.dot <= Len(s.doc.text),
         Restores(s, ts, before'.doc, before'.reg),
         \/ Fail(s, ts)
         \/ \E r \in [kind : {"failure", "success"}, value : {-1, 0, 1}] : End(s, ts, r),
         loop' = "idle", UNCHANGED <<process, pipes, interrupted>>,
         before' \in [doc : Docs, reg : Regs, target : {"none", "q"}],
         before'.doc.dot <= Len(before'.doc.text), count' \in Nat
  PROVE  IInv'
<1>0. interrupted' \in BOOLEAN
  BY DEF TypeOK
<1>1. CASE Fail(s, ts)
  <2>1. /\ Settled' /\ doc' = before'.doc /\ reg' = before'.reg
        /\ spawn' \in Contexts /\ WithinBlock(spawn'.reader)
        /\ result' = [kind |-> "error", value |-> 0]
    BY <1>1, FailSettles
  <2>2. result' \in [kind : {"none", "error", "failure", "success"}, value : {-1, 0, 1}]
    BY <2>1
  <2>3. doc' \in Docs /\ doc'.dot <= Len(doc'.text) /\ reg' \in Regs
    BY <2>1
  <2> QED
    BY <1>0, <2>1, <2>2, <2>3, IdleTypes
<1>2. ASSUME NEW r \in [kind : {"failure", "success"}, value : {-1, 0, 1}], End(s, ts, r) PROVE IInv'
  <2>1. r.kind # "error" /\ r \in [kind : {"none", "error", "failure", "success"}, value : {-1, 0, 1}]
    OBVIOUS
  <2>2. /\ Settled' /\ spawn' \in Contexts /\ WithinBlock(spawn'.reader)
        /\ doc' = s.doc /\ reg' = s.reg /\ result' = r
    BY <1>2, <2>1, EndSettles
  <2>3. doc' \in Docs /\ doc'.dot <= Len(doc'.text) /\ reg' \in Regs
    BY <2>2, StateFields
  <2> QED
    BY <1>0, <2>1, <2>2, <2>3, IdleTypes
<1> QED
  BY <1>1, <1>2

LEMMA NamingSequence ==
  ASSUME NEW target \in {"none", "q"}
  PROVE  \E T : Naming(target) \in Seq(T)
<1> DEFINE t == Token("argument", spawn.argument)
<1> HIDE DEF t
<1>1. <<>> \in Seq({t}) /\ <<t>> \in Seq({t})
  OBVIOUS
<1>2. Naming(target) \in Seq({t})
  BY <1>1 DEF Naming, t
<1> QED
  BY <1>2

LEMMA CannotStartStep ==
  ASSUME IInv, NEW target \in {"none", "q"}, NEW colon \in BOOLEAN, NEW a \in Arguments,
         CannotStart(target, colon, a)
  PROVE  IInv'
<1> DEFINE n == Named(target)
           from == PipedRange(a)[1]
           to == PipedRange(a)[2]
           c == [n EXCEPT !.from = from, !.to = to, !.added = FALSE, !.rc = 0]
           s == [Now EXCEPT !.spawn = c]
<1>0. /\ TypeOK /\ loop' = "idle" /\ UNCHANGED <<process, pipes, interrupted>> /\ Remember(target)
      /\ spawn \in Contexts /\ doc \in Docs /\ doc.dot <= Len(doc.text) /\ InRange(a)
      /\ WithinBlock(spawn.reader)
  BY DEF IInv, TypeOK, CannotStart, Ready, Running
<1>1. /\ n \in Contexts /\ n.reader = spawn.reader
      /\ Now \in States /\ Now.doc = doc /\ Now.reg = reg /\ Now.spawn = spawn
  BY <1>0, NamedTypes
<1>2. /\ before' \in [doc : Docs, reg : Regs, target : {"none", "q"}] /\ count' \in Nat
      /\ before'.doc = doc /\ before'.reg = reg /\ before'.doc.dot <= Len(before'.doc.text)
  BY <1>0, Remembered
<1>3. from \in Int /\ to \in Int
  BY <1>0, RangeTypes
<1>4. \/ Fail(s, Naming(target))
      \/ End(s, Naming(target), Failure(0))
  BY DEF CannotStart
<1>5. Failure(0) \in [kind : {"failure", "success"}, value : {-1, 0, 1}]
  BY DEF Failure
<1> HIDE DEF from, to, n
<1>6. c \in Contexts /\ c.reader = spawn.reader
  <2> DEFINE W == Writers
             R == Readers
             C == [from : Int, to : Int, start : Int, added : BOOLEAN, interrupted : BOOLEAN,
                   error : {"none", "pipe", "memory", "exit", "signal"}, rc : {0, 1},
                   argument : {"none", "q"}, quit : BOOLEAN, turn : SUBSET {"stdin", "stdout"},
                   writer : W, reader : R]
  <2>1. Contexts = C
    BY DEF Contexts
  <2> HIDE DEF W, R
  <2>2. n \in C
    BY <1>1, <2>1
  <2>3. c \in C /\ c.reader = n.reader
    BY <1>3, <2>2
  <2> QED
    BY <1>1, <2>1, <2>3
<1> HIDE DEF c
<1>7. s \in States /\ s.doc = doc /\ s.reg = reg /\ s.spawn = c
  BY <1>1, <1>6, StateSet
<1> HIDE DEF s
<1>8. Restores(s, Naming(target), before'.doc, before'.reg)
  BY <1>0, <1>2, <1>7, NamingRestores
<1>9. PICK T : Naming(target) \in Seq(T)
  BY NamingSequence
<1>10. WithinBlock(s.spawn.reader) /\ s.doc.dot <= Len(s.doc.text)
  BY <1>0, <1>6, <1>7
<1> QED
  BY <1>0, <1>2, <1>4, <1>5, <1>7, <1>8, <1>9, <1>10, SettlingStep

LEMMA StartStep ==
  ASSUME IInv, NEW target \in {"none", "q"}, NEW a \in Arguments, Start(target, a)
  PROVE  IInv'
<1> DEFINE n == Named(target)
           from == PipedRange(a)[1]
           to == PipedRange(a)[2]
           w == NewWriter(EolMode)
           c == [n EXCEPT !.from = from, !.to = to, !.start = from, !.added = FALSE, !.rc = 0,
                          !.interrupted = FALSE, !.error = "none", !.quit = FALSE,
                          !.turn = {"stdin", "stdout"}, !.writer = w, !.reader = NewReader]
<1>0. /\ TypeOK /\ loop' = "running" /\ UNCHANGED <<reg, interrupted>> /\ Remember(target)
      /\ spawn \in Contexts /\ doc \in Docs /\ doc.dot <= Len(doc.text) /\ reg \in Regs /\ InRange(a)
      /\ interrupted \in BOOLEAN /\ result' = [kind |-> "none", value |-> 0]
      /\ process' = [NoProcess EXCEPT !.status = "running"]
      /\ pipes' = [NoBytes EXCEPT !.open = TRUE, !.watched = TRUE]
      /\ spawn' = c
  BY DEF IInv, TypeOK, Start, Ready, Running
<1>1. /\ n \in Contexts /\ n.argument = IF target = "none" THEN spawn.argument ELSE target
  BY <1>0, NamedTypes
<1>2. /\ before' \in [doc : Docs, reg : Regs, target : {"none", "q"}] /\ count' \in Nat
      /\ before'.doc = doc /\ before'.reg = reg /\ before'.doc.dot <= Len(before'.doc.text)
  BY <1>0, Remembered
<1>3. from \in Int /\ to \in Int /\ 0 <= from /\ from <= to /\ to <= Len(doc.text)
  BY <1>0, RangeTypes
<1>4. w \in Writers /\ w.halfway = FALSE
  <2>1. w = [halfway |-> FALSE, last |-> "none", seq |-> EolSeq(EolMode)] /\ EolMode \in EolStyles
    BY SpawnAssumption DEF NewWriter
  <2> QED
    BY <2>1 DEF Writers
<1>5. NewReader \in Readers /\ WithinBlock(NewReader)
  BY DEF NewReader, Readers, Texts, WithinBlock
<1>6. /\ c \in Contexts /\ c.reader = NewReader /\ c.writer = w /\ c.from = from /\ c.to = to /\ c.start = from
      /\ c.added = FALSE /\ c.argument = n.argument
  <2> DEFINE W == Writers
             R == Readers
             r == NewReader
             C == [from : Int, to : Int, start : Int, added : BOOLEAN, interrupted : BOOLEAN,
                   error : {"none", "pipe", "memory", "exit", "signal"}, rc : {0, 1},
                   argument : {"none", "q"}, quit : BOOLEAN, turn : SUBSET {"stdin", "stdout"},
                   writer : W, reader : R]
  <2>1. Contexts = C
    BY DEF Contexts
  <2> HIDE DEF w, r, W, R, from, to, n
  <2>2. n \in C /\ r \in R /\ w \in W
    BY <1>1, <1>4, <1>5, <2>1 DEF r, W, R
  <2> DEFINE d == [n EXCEPT !.from = from, !.to = to, !.start = from, !.added = FALSE, !.rc = 0,
                            !.interrupted = FALSE, !.error = "none", !.quit = FALSE,
                            !.turn = {"stdin", "stdout"}, !.writer = w, !.reader = r]
  <2>3. /\ d \in C /\ d.reader = r /\ d.writer = w /\ d.from = from /\ d.to = to /\ d.start = from
        /\ d.added = FALSE /\ d.argument = n.argument
    BY <1>3, <2>2
  <2> QED
    BY <2>1, <2>3 DEF r
<1>7. IF n.argument = "none"
      THEN /\ doc' = [doc EXCEPT !.dot = to]
           /\ tokens' = Append(Naming(target), Token("SCI_GOTOPOS", doc.dot))
      ELSE doc' = doc /\ tokens' = Naming(target)
  BY <1>0, <1>6 DEF Start
<1> HIDE DEF c, from, to, n, w
<1>8. process' \in [status : {"none", "running", "exited", "failed", "killed"},
                    read : Texts, written : Texts, eof : BOOLEAN]
  <2>1. process' = [status |-> "running", read |-> <<>>, written |-> <<>>, eof |-> FALSE]
    BY <1>0 DEF NoProcess
  <2>2. <<>> \in Texts
    BY DEF Texts
  <2> QED
    BY <2>1, <2>2
<1>9. /\ pipes' \in [buffer : Texts, in : Texts, out : Texts, open : BOOLEAN, watched : BOOLEAN]
      /\ Len(pipes'.buffer) <= BufferSize /\ Len(pipes'.in) <= PipeSize
  <2>1. pipes' = [buffer |-> <<>>, in |-> <<>>, out |-> <<>>, open |-> TRUE, watched |-> TRUE]
    BY <1>0 DEF NoBytes
  <2>2. <<>> \in Texts /\ BufferSize >= 0 /\ PipeSize >= 0
    BY SpawnAssumption DEF Texts
  <2> QED
    BY <2>1, <2>2
<1>10. /\ DocIs([doc EXCEPT !.dot = to], doc.text, to, doc.undo, doc.dirty, doc.ranges)
       /\ to \in Nat
  <2>1. to \in Nat
    BY <1>3
  <2> QED
    BY <1>0, <2>1, DocSet
<1>11. doc' \in Docs /\ doc'.dot <= Len(doc'.text)
  BY <1>0, <1>3, <1>7, <1>10 DEF DocIs
<1>12. TypeOK'
  <2>1. spawn' \in Contexts /\ WithinBlock(spawn'.reader)
    BY <1>0, <1>5, <1>6
  <2>2. result' \in [kind : {"none", "error", "failure", "success"}, value : {-1, 0, 1}]
    BY <1>0
  <2> QED
    BY <1>0, <1>2, <1>8, <1>9, <1>11, <2>1, <2>2 DEF TypeOK, WithinBlock
<1>13. InText'
  BY <1>0, <1>2, <1>3, <1>4, <1>6 DEF InText
<1>14. CASE n.argument = "none"
  <2>1. target = "none" /\ Naming(target) = <<>>
    BY <1>1, <1>14 DEF Naming
  <2>2. tokens' = <<Token("SCI_GOTOPOS", doc.dot)>>
    <3> DEFINE t == Token("SCI_GOTOPOS", doc.dot)
    <3> HIDE DEF t
    <3>1. Append(<<>>, t) = <<t>>
      OBVIOUS
    <3> QED
      BY <1>7, <1>14, <2>1, <3>1 DEF t
  <2>3. /\ doc'.text = doc.text /\ doc'.dot = to /\ doc'.undo = doc.undo /\ doc'.dirty = doc.dirty
        /\ doc'.ranges = doc.ranges
    BY <1>7, <1>10, <1>14 DEF DocIs
  <2>4. to <= to
    BY <1>3
  <2>5. OnDocument'
    BY <1>0, <1>2, <1>6, <2>2, <2>3, <2>4 DEF OnDocument
  <2> QED
    BY <1>0, <1>6, <1>12, <1>13, <1>14, <2>5 DEF IInv, Busy, Running
<1>15. CASE n.argument # "none"
  <2>1. doc' = doc /\ tokens' = Naming(target)
    BY <1>7, <1>15
  <2>2. Naming(target) \in {<<>>, <<Token("argument", "none")>>, <<Token("argument", "q")>>}
    <3>1. spawn.argument = "none" \/ spawn.argument = "q"
      BY <1>0, Arguing
    <3> QED
      BY <3>1 DEF Naming
  <2>3. OnRegister'
    BY <1>0, <1>2, <1>6, <2>1, <2>2 DEF OnRegister
  <2> QED
    BY <1>0, <1>6, <1>12, <1>13, <1>15, <2>3 DEF IInv, Busy, Running
<1> QED
  BY <1>14, <1>15
Processes == [status : {"none", "running", "exited", "failed", "killed"},
              read : Texts, written : Texts, eof : BOOLEAN]
Pipes == [buffer : Texts, in : Texts, out : Texts, open : BOOLEAN, watched : BOOLEAN]

(* A step of the event loop that touches no text.                          *)
LEMMA LoopStep ==
  ASSUME IInv, Running, UNCHANGED <<doc, reg, tokens, result, before, count>>,
         loop' \in {"running", "flushing", "reading", "reaping"},
         spawn' \in Contexts, WithinBlock(spawn'.reader),
         spawn'.from = spawn.from, spawn'.to = spawn.to, spawn'.start = spawn.start,
         spawn'.added = spawn.added, spawn'.argument = spawn.argument, spawn'.writer = spawn.writer,
         process' \in Processes, pipes' \in Pipes, Len(pipes'.buffer) <= BufferSize, Len(pipes'.in) <= PipeSize,
         interrupted' \in BOOLEAN
  PROVE  IInv'
<1>1. TypeOK'
  BY DEF IInv, TypeOK, WithinBlock, Processes, Pipes
<1>2. InText' /\ result'.kind = "none"
  BY DEF IInv, Busy, InText
<1>3. OnDocument => OnDocument'
  BY DEF OnDocument
<1>4. OnRegister => OnRegister'
  BY DEF OnRegister
<1>5. Busy'
  BY <1>2, <1>3, <1>4 DEF IInv, Busy
<1> QED
  BY <1>1, <1>5 DEF IInv, Running

(* The invariant says nothing of the process but types.                    *)
LEMMA KeptStep ==
  ASSUME IInv, UNCHANGED <<doc, reg, spawn, loop, tokens, result, before, count>>,
         process' \in Processes, pipes' \in Pipes, Len(pipes'.buffer) <= BufferSize, Len(pipes'.in) <= PipeSize,
         interrupted' \in BOOLEAN
  PROVE  IInv'
<1>1. CASE Running
  <2>1. /\ loop' \in {"running", "flushing", "reading", "reaping"} /\ spawn' \in Contexts
        /\ WithinBlock(spawn'.reader)
    BY <1>1 DEF IInv, TypeOK, Running
  <2> QED
    BY <1>1, <2>1, LoopStep
<1>2. CASE ~Running
  <2>1. TypeOK'
    BY DEF IInv, TypeOK, WithinBlock, Processes, Pipes
  <2>2. Undone(Now, tokens)' = Undone(Now, tokens)
    <3>1. Undone(Now, tokens)' = Undone(Now', tokens')
      BY DEF Undone, RunToken
    <3>2. Now' = Now /\ tokens' = tokens
      BY DEF Now
    <3> QED
      BY <3>1, <3>2
  <2>3. \A a : Restored(a)' = Restored(a)
    BY DEF Restored
  <2>4. Settled'
    BY <1>2, <2>2, <2>3 DEF IInv, Settled
  <2> QED
    BY <1>2, <2>1, <2>4 DEF IInv, Running
<1> QED
  BY <1>1, <1>2

(* Nothing but the process and the pipes changes.                          *)
LEMMA OutsideStep ==
  ASSUME IInv, unchangedEditor, process' \in Processes, pipes' \in Pipes,
         Len(pipes'.buffer) <= BufferSize, Len(pipes'.in) <= PipeSize
  PROVE  IInv'
<1>1. spawn \in Contexts /\ interrupted \in BOOLEAN
  BY DEF IInv, TypeOK
<1>2. UNCHANGED <<doc, reg, spawn, loop, interrupted, tokens, result, before, count>>
  BY DEF unchangedEditor
<1> QED
  BY <1>1, <1>2, KeptStep

LEMMA BytesOnTheirWay ==
  ASSUME IInv
  PROVE  /\ process \in Processes /\ pipes \in Pipes /\ WithinBlock(spawn.reader)
         /\ pipes.buffer \in Texts /\ pipes.in \in Texts /\ pipes.out \in Texts
         /\ Len(pipes.buffer) \in Nat /\ Len(pipes.in) \in Nat /\ Len(pipes.out) \in Nat
         /\ Len(pipes.buffer) <= BufferSize /\ Len(pipes.in) <= PipeSize
         /\ BufferSize \in Nat /\ PipeSize \in Nat
<1>1. /\ process \in Processes /\ pipes \in Pipes /\ Len(pipes.buffer) <= BufferSize /\ Len(pipes.in) <= PipeSize
      /\ WithinBlock(spawn.reader)
  BY DEF IInv, TypeOK, Processes, Pipes
<1>2. pipes.buffer \in Texts /\ pipes.in \in Texts /\ pipes.out \in Texts
  BY <1>1 DEF Pipes
<1>3. \A t \in Texts : Len(t) \in Nat
  BY DEF Texts
<1> QED
  BY <1>1, <1>2, <1>3, SpawnAssumption

LEMMA SequenceOps ==
  \A T : \A s \in Seq(T) :
    /\ s # <<>> => Head(s) \in T /\ Tail(s) \in Seq(T) /\ Len(Tail(s)) = Len(s) - 1
    /\ \A x \in T : Append(s, x) \in Seq(T) /\ Len(Append(s, x)) = Len(s) + 1
    /\ \A n \in 0 .. Len(s) : /\ SubSeq(s, 1, n) \in Seq(T) /\ Len(SubSeq(s, 1, n)) = n
                              /\ SubSeq(s, n + 1, Len(s)) \in Seq(T)
                              /\ Len(SubSeq(s, n + 1, Len(s))) = Len(s) - n
<1>1. ASSUME NEW T, NEW s \in Seq(T), s # <<>>
      PROVE  Head(s) \in T /\ Tail(s) \in Seq(T) /\ Len(Tail(s)) = Len(s) - 1
  BY <1>1
<1>2. ASSUME NEW T, NEW s \in Seq(T), NEW x \in T
      PROVE  Append(s, x) \in Seq(T) /\ Len(Append(s, x)) = Len(s) + 1
  OBVIOUS
<1>3. ASSUME NEW T, NEW s \in Seq(T), NEW n \in 0 .. Len(s)
      PROVE  /\ SubSeq(s, 1, n) \in Seq(T) /\ Len(SubSeq(s, 1, n)) = n
             /\ SubSeq(s, n + 1, Len(s)) \in Seq(T)
             /\ Len(SubSeq(s, n + 1, Len(s))) = Len(s) - n
  OBVIOUS
<1> QED
  BY <1>1, <1>2, <1>3

LEMMA ProcessReadsStep == ASSUME IInv, ProcessReads PROVE IInv'
<1>1. CASE /\ pipes.in # <<>>
           /\ process' = [process EXCEPT !.read = Append(@, Head(pipes.in))]
           /\ pipes' = [pipes EXCEPT !.in = Tail(@)]
  <2> DEFINE x == Append(process.read, Head(pipes.in))
             y == Tail(pipes.in)
  <2>1. process' = [process EXCEPT !.read = x] /\ pipes' = [pipes EXCEPT !.in = y]
    BY <1>1
  <2>2. x \in Texts /\ y \in Texts /\ Len(y) <= PipeSize
    <3>1. process.read \in Texts
      BY BytesOnTheirWay DEF Processes
    <3>2. Head(pipes.in) \in Characters /\ y \in Texts /\ Len(y) = Len(pipes.in) - 1
      BY <1>1, BytesOnTheirWay, SequenceOps DEF Texts
    <3> HIDE DEF y
    <3>3. x \in Texts
      BY <3>1, <3>2, SequenceOps DEF Texts
    <3> HIDE DEF x
    <3> QED
      BY <3>2, <3>3, BytesOnTheirWay
  <2> HIDE DEF x, y
  <2>3. process' \in Processes /\ pipes' \in Pipes /\ pipes'.in = y /\ pipes'.buffer = pipes.buffer
    BY <2>1, <2>2, BytesOnTheirWay DEF Processes, Pipes
  <2> QED
    BY <2>2, <2>3, BytesOnTheirWay, OutsideStep DEF ProcessReads
<1>2. CASE process' = [process EXCEPT !.eof = TRUE] /\ UNCHANGED pipes
  <2>1. process' \in Processes /\ pipes' \in Pipes /\ Len(pipes'.buffer) <= BufferSize /\ Len(pipes'.in) <= PipeSize
    BY <1>2, BytesOnTheirWay DEF Processes
  <2> QED
    BY <2>1, OutsideStep DEF ProcessReads
<1> QED
  BY <1>1, <1>2 DEF ProcessReads

LEMMA ProcessWritesStep == ASSUME IInv, ProcessWrites PROVE IInv'
<1>1. PICK bytes \in Chunks :
        /\ process' = [process EXCEPT !.written = @ \o bytes] /\ pipes' = [pipes EXCEPT !.out = @ \o bytes]
  BY DEF ProcessWrites
<1> DEFINE x == process.written \o bytes
           y == pipes.out \o bytes
<1>2. process' = [process EXCEPT !.written = x] /\ pipes' = [pipes EXCEPT !.out = y]
  BY <1>1
<1>3. x \in Texts /\ y \in Texts
  <2>1. bytes \in Seq(ToSet(bytes)) /\ ToSet(bytes) \subseteq Characters
    BY SpawnAssumption DEF Characters
  <2>2. bytes \in Texts
    <3> HIDE DEF x, y
    <3>1. \A S, T : S \subseteq T => Seq(S) \subseteq Seq(T)
      OBVIOUS
    <3> QED
      BY <2>1, <3>1 DEF Texts
  <2>3. process.written \in Texts /\ pipes.out \in Texts
    BY BytesOnTheirWay DEF Processes
  <2> QED
    BY <2>2, <2>3, Concatenated DEF Texts
<1> HIDE DEF x, y
<1>4. process' \in Processes /\ pipes' \in Pipes /\ pipes'.in = pipes.in /\ pipes'.buffer = pipes.buffer
  BY <1>2, <1>3, BytesOnTheirWay DEF Processes, Pipes
<1> QED
  BY <1>4, BytesOnTheirWay, OutsideStep DEF ProcessWrites

LEMMA ProcessExitsStep == ASSUME IInv, ProcessExits PROVE IInv'
<1>1. PICK code \in {0, 1} :
        process' = [process EXCEPT !.status = IF code = 0 THEN "exited" ELSE "failed"] /\ UNCHANGED pipes
  BY DEF ProcessExits
<1>2. process' \in Processes
  BY <1>1, BytesOnTheirWay DEF Processes
<1> QED
  BY <1>1, <1>2, BytesOnTheirWay, OutsideStep DEF ProcessExits

LEMMA FlushStep == ASSUME IInv, Flush PROVE IInv'
<1>0. /\ UNCHANGED <<doc, reg, spawn, process, interrupted, tokens, result, before, count>>
      /\ loop \in {"flushing", "running"} /\ loop' \in {"flushing", "running"}
      /\ spawn \in Contexts /\ interrupted \in BOOLEAN
  BY DEF Flush, unchangedCommand, IInv, TypeOK
<1>1. pipes' \in Pipes /\ Len(pipes'.buffer) <= BufferSize /\ Len(pipes'.in) <= PipeSize
  <2>1. CASE /\ pipes.buffer # <<>> /\ PipeRoom > 0
             /\ pipes' = [pipes EXCEPT !.in = Append(@, Head(pipes.buffer)), !.buffer = Tail(@)]
    <3> DEFINE x == Append(pipes.in, Head(pipes.buffer))
               y == Tail(pipes.buffer)
    <3>1. pipes' = [pipes EXCEPT !.in = x, !.buffer = y]
      BY <2>1
    <3>2. Len(pipes.in) < PipeSize
      BY <2>1, BytesOnTheirWay DEF PipeRoom
    <3>3. Head(pipes.buffer) \in Characters /\ y \in Texts /\ Len(y) = Len(pipes.buffer) - 1
      BY <2>1, BytesOnTheirWay, SequenceOps DEF Texts
    <3> HIDE DEF y
    <3>4. x \in Texts /\ Len(x) = Len(pipes.in) + 1
      BY <3>3, BytesOnTheirWay, SequenceOps DEF Texts
    <3> HIDE DEF x
    <3>5. pipes' \in Pipes /\ pipes'.in = x /\ pipes'.buffer = y
      BY <3>1, <3>3, <3>4, BytesOnTheirWay DEF Pipes
    <3> QED
      BY <3>2, <3>3, <3>4, <3>5, BytesOnTheirWay
  <2>2. CASE pipes' = [pipes EXCEPT !.open = FALSE, !.buffer = <<>>]
    <3> DEFINE z == <<>>
    <3>1. z \in Texts /\ Len(z) = 0
      BY DEF Texts
    <3> HIDE DEF z
    <3>2. pipes' = [pipes EXCEPT !.open = FALSE, !.buffer = z]
      BY <2>2 DEF z
    <3>3. pipes' \in Pipes /\ pipes'.in = pipes.in /\ pipes'.buffer = z
      BY <3>1, <3>2, BytesOnTheirWay DEF Pipes
    <3> QED
      BY <3>1, <3>3, BytesOnTheirWay
  <2> QED
    BY <2>1, <2>2 DEF Flush
<1> QED
  BY <1>0, <1>1, BytesOnTheirWay, LoopStep DEF Running

LEMMA StdoutWatchStep == ASSUME IInv, StdoutWatch PROVE IInv'
<1> DEFINE t == Called("stdout")
<1>0. /\ UNCHANGED <<doc, reg, process, pipes, interrupted, tokens, result, before, count>>
      /\ loop = "running" /\ loop' = "reading" /\ spawn' = [spawn EXCEPT !.turn = t]
      /\ spawn \in Contexts /\ interrupted \in BOOLEAN
  BY DEF StdoutWatch, MayCall, unchangedCommand, IInv, TypeOK
<1>1. t \in SUBSET {"stdin", "stdout"}
  BY <1>0 DEF Called, Contexts
<1> HIDE DEF t
<1>2. /\ spawn' \in Contexts /\ spawn'.reader = spawn.reader
      /\ spawn'.from = spawn.from /\ spawn'.to = spawn.to /\ spawn'.start = spawn.start
      /\ spawn'.added = spawn.added /\ spawn'.argument = spawn.argument /\ spawn'.writer = spawn.writer
  BY <1>0, <1>1 DEF Contexts
<1> QED
  BY <1>0, <1>2, BytesOnTheirWay, LoopStep DEF Running

LEMMA ChildWatchStep == ASSUME IInv, ChildWatch PROVE IInv'
<1>0. /\ UNCHANGED <<doc, reg, spawn, process, pipes, interrupted, tokens, result, before, count>>
      /\ loop = "running" /\ loop' = "reaping" /\ spawn \in Contexts /\ interrupted \in BOOLEAN
  BY DEF ChildWatch, unchangedCommand, IInv, TypeOK
<1> QED
  BY <1>0, BytesOnTheirWay, LoopStep DEF Running

LEMMA InterruptStep == ASSUME IInv, Interrupt PROVE IInv'
<1>0. /\ UNCHANGED <<doc, reg, spawn, process, pipes, loop, tokens, result, before, count>>
      /\ loop = "running" /\ spawn \in Contexts /\ interrupted' \in BOOLEAN
  BY DEF Interrupt, unchangedCommand, IInv, TypeOK
<1> QED
  BY <1>0, BytesOnTheirWay, LoopStep DEF Running

LEMMA IdleStep == ASSUME IInv, Idle PROVE IInv'
<1>0. /\ UNCHANGED <<doc, reg, pipes, loop, tokens, result, before, count>>
      /\ loop = "running" /\ spawn \in Contexts /\ interrupted' = FALSE
      /\ spawn' = [spawn EXCEPT !.interrupted = TRUE]
      /\ process' = [process EXCEPT !.status = "killed"] \/ process' = process
  BY DEF Idle, unchangedCommand, IInv, TypeOK
<1>1. /\ spawn' \in Contexts /\ spawn'.reader = spawn.reader
      /\ spawn'.from = spawn.from /\ spawn'.to = spawn.to /\ spawn'.start = spawn.start
      /\ spawn'.added = spawn.added /\ spawn'.argument = spawn.argument /\ spawn'.writer = spawn.writer
  BY <1>0 DEF Contexts
<1>2. process' \in Processes
  BY <1>0, BytesOnTheirWay DEF Processes
<1>3. interrupted' \in BOOLEAN
  BY <1>0
<1> QED
  BY <1>0, <1>1, <1>2, <1>3, BytesOnTheirWay, LoopStep DEF Running

LEMMA NoticeStep == ASSUME IInv, Notice PROVE IInv'
<1>0. /\ UNCHANGED <<doc, reg, spawn, process, pipes, loop, tokens, result, before, count>>
      /\ spawn \in Contexts /\ interrupted' = FALSE
  BY DEF Notice, unchangedCommand, IInv, TypeOK
<1>1. interrupted' \in BOOLEAN
  BY <1>0
<1> QED
  BY <1>0, <1>1, BytesOnTheirWay, KeptStep

LEMMA RuboutStep == ASSUME IInv, Rubout PROVE IInv'
<1>0. /\ TypeOK /\ ~Running /\ loop' = "idle" /\ UNCHANGED <<process, pipes, interrupted, before, count>>
      /\ Fail(Now, tokens) /\ Settled
  BY DEF Rubout, Running, IInv
<1>1. /\ doc.dot <= Len(doc.text) /\ WithinBlock(spawn.reader) /\ count \in Nat
      /\ before \in [doc : Docs, reg : Regs, target : {"none", "q"}] /\ before.doc.dot <= Len(before.doc.text)
  BY <1>0 DEF TypeOK
<1>2. Now \in States /\ Now.doc = doc /\ Now.reg = reg /\ Now.spawn = spawn
  BY <1>0, NamedTypes
<1>3. Restores(Now, tokens, before.doc, before.reg)
  BY <1>0, <1>2 DEF Settled, Restored, Restores
<1>4. /\ Settled' /\ doc' = before'.doc /\ reg' = before'.reg
      /\ spawn' \in Contexts /\ WithinBlock(spawn'.reader) /\ result' = [kind |-> "error", value |-> 0]
  BY <1>0, <1>1, <1>2, <1>3, FailSettles
<1>5. /\ result' \in [kind : {"none", "error", "failure", "success"}, value : {-1, 0, 1}]
      /\ doc' \in Docs /\ doc'.dot <= Len(doc'.text) /\ reg' \in Regs
      /\ interrupted' \in BOOLEAN /\ count' \in Nat
      /\ before' \in [doc : Docs, reg : Regs, target : {"none", "q"}] /\ before'.doc.dot <= Len(before'.doc.text)
  BY <1>0, <1>1, <1>4 DEF TypeOK
<1> QED
  BY <1>0, <1>4, <1>5, IdleTypes

LEMMA FinishStep == ASSUME IInv, Finish PROVE IInv'
<1> DEFINE ts == tokens \o EndTokens
<1>0. /\ TypeOK /\ loop = "running" /\ loop' = "idle" /\ UNCHANGED <<process, pipes, interrupted, before, count>>
      /\ Busy /\ spawn \in Contexts /\ WithinBlock(spawn.reader) /\ doc.dot <= Len(doc.text)
      /\ before \in [doc : Docs, reg : Regs, target : {"none", "q"}] /\ before.doc.dot <= Len(before.doc.text)
      /\ count \in Nat
  BY DEF IInv, TypeOK, Finish, Running
<1>1. /\ Ended \in States /\ Ended.spawn = spawn /\ Ended.doc.dot <= Len(Ended.doc.text)
      /\ Restores(Ended, ts, before.doc, before.reg)
      /\ \E S : ts \in Seq(S)
  <2>1. CASE spawn.argument = "none"
    BY <1>0, <2>1, EndedOnDocument DEF Busy
  <2>2. CASE spawn.argument # "none"
    BY <1>0, <2>2, EndedOnRegister DEF Busy
  <2> QED
    BY <2>1, <2>2
<1>2. PICK S : ts \in Seq(S)
  BY <1>1
<1>3. Failure(spawn.rc) \in [kind : {"failure", "success"}, value : {-1, 0, 1}]
  <2>1. spawn.rc \in {-1, 0, 1}
    BY <1>0 DEF Contexts
  <2> QED
    BY <2>1 DEF Failure
<1>4. Success \in [kind : {"failure", "success"}, value : {-1, 0, 1}]
  BY DEF Success
<1>5. \/ Fail(Ended, ts)
      \/ \E r \in [kind : {"failure", "success"}, value : {-1, 0, 1}] : End(Ended, ts, r)
  <2>1. Fail(Ended, ts) \/ End(Ended, ts, Success) \/ End(Ended, ts, Failure(spawn.rc))
    BY DEF Finish
  <2> QED
    BY <1>3, <1>4, <2>1
<1> HIDE DEF ts
<1> QED
  BY <1>0, <1>1, <1>2, <1>5, SettlingStep

(* What is still to be written of the range.                               *)
LEMMA PendingText ==
  ASSUME IInv, Running, NEW gap \in 0 .. Len(doc.text)
  PROVE  /\ Pending(gap) \in Texts /\ Len(Pending(gap)) <= spawn.to - spawn.start
         /\ spawn.start < spawn.to => Pending(gap) # <<>>
<1>1. /\ doc.text \in Texts /\ Len(doc.text) \in Nat /\ spawn.from \in Int /\ spawn.to \in Int /\ spawn.start \in Int
      /\ doc.dot \in Nat /\ doc.dot <= Len(doc.text)
  <2>1. doc \in Docs /\ spawn \in Contexts /\ doc.dot <= Len(doc.text)
    BY DEF IInv, TypeOK
  <2>2. doc.text \in Texts /\ doc.dot \in Nat
    BY <2>1 DEF Docs
  <2>3. Len(doc.text) \in Nat
    BY <2>2 DEF Texts
  <2> QED
    BY <2>1, <2>2, <2>3 DEF Contexts
<1>2. 0 <= spawn.start /\ spawn.start <= spawn.to /\ spawn.to <= Len(doc.text)
  <2>1. InText /\ IF spawn.argument = "none" THEN OnDocument ELSE OnRegister
    BY DEF IInv, Busy
  <2>2. 0 <= spawn.start /\ spawn.start <= spawn.to /\ spawn.to <= Len(before.doc.text)
    BY <1>1, <2>1 DEF InText
  <2>3. spawn.to <= doc.dot \/ doc = before.doc
    BY <2>1 DEF OnDocument, OnRegister
  <2> QED
    BY <1>1, <2>2, <2>3
<1> DEFINE k == IF spawn.start < gap /\ gap < spawn.to THEN gap ELSE spawn.to
           p == SubSeq(doc.text, spawn.start + 1, k)
           C == Characters
<1>3. k \in Int /\ spawn.start <= k /\ k <= spawn.to /\ (spawn.start < spawn.to => spawn.start < k)
  BY <1>1, <1>2
<1> HIDE DEF k, C
<1>4. doc.text \in Seq(C)
  BY <1>1 DEF Texts, C
<1>5. p \in Seq(C) /\ Len(p) = k - spawn.start
  BY <1>1, <1>2, <1>3, <1>4
<1> HIDE DEF p
<1>6. Pending(gap) = p
  BY DEF Pending, p, k
<1>7. spawn.start < spawn.to => p # <<>>
  <2>1. Len(<<>>) = 0
    OBVIOUS
  <2> QED
    BY <1>1, <1>3, <1>5, <2>1
<1> QED
  BY <1>1, <1>3, <1>5, <1>6, <1>7 DEF Texts, C

LEMMA StdinTakesStep ==
  ASSUME IInv, loop = "running", NEW gap \in 0 .. Len(doc.text),
         StdinTakes(Convert(spawn.writer, Pending(gap), Room)),
         UNCHANGED <<doc, reg, process, interrupted, tokens, result, before, count>>
  PROVE  IInv'
<1> DEFINE c == Convert(spawn.writer, Pending(gap), Room)
           bytes == pipes.buffer \o c.out
           t == Called("stdin")
           m == spawn.start + c.taken
<1>0. /\ spawn \in Contexts /\ interrupted \in BOOLEAN /\ WithinBlock(spawn.reader)
      /\ Running /\ InText /\ result.kind = "none" /\ Busy /\ TypeOK
      /\ spawn.start \in Int /\ spawn.to \in Int /\ spawn.from \in Int /\ spawn.writer \in Writers
  BY DEF IInv, TypeOK, Running, Busy, Contexts
<1>1. /\ Pending(gap) \in Texts /\ Len(Pending(gap)) <= spawn.to - spawn.start
      /\ spawn.start < spawn.to => Pending(gap) # <<>>
      /\ Len(Pending(gap)) \in Nat
  <2>1. \A x \in Texts : Len(x) \in Nat
    BY DEF Texts
  <2> QED
    BY <1>0, <2>1, PendingText
<1>2. PipeRoom \in Nat /\ PipeRoom + Len(pipes.in) <= PipeSize /\ Room \in Nat
  <2>1. /\ Len(pipes.buffer) \in Nat /\ Len(pipes.in) \in Nat /\ BufferSize \in Nat /\ PipeSize \in Nat
        /\ Len(pipes.buffer) <= BufferSize /\ Len(pipes.in) <= PipeSize
    BY BytesOnTheirWay
  <2> DEFINE b == Len(pipes.buffer)
             i == Len(pipes.in)
  <2>2. PipeRoom = IF Alive THEN PipeSize - i ELSE 0
    BY DEF PipeRoom
  <2>3. Room = BufferSize - b + PipeRoom
    BY DEF Room
  <2>4. b \in Nat /\ i \in Nat /\ b <= BufferSize /\ i <= PipeSize /\ BufferSize \in Nat /\ PipeSize \in Nat
    BY <2>1
  <2> HIDE DEF b, i
  <2>5. PipeRoom \in Nat /\ PipeRoom + i <= PipeSize
    <3>1. PipeRoom = PipeSize - i \/ PipeRoom = 0
      BY <2>2
    <3> QED
      BY <2>4, <3>1
  <2> QED
    BY <2>3, <2>4, <2>5 DEF i
<1>3. /\ c.w \in Writers /\ c.out \in Texts /\ c.taken \in 0 .. Len(Pending(gap))
      /\ AutoEol /\ c.w.halfway => c.taken < Len(Pending(gap))
      /\ ~AutoEol => c.w = spawn.writer
  <2>1. spawn.writer.halfway => Pending(gap) # <<>>
    BY <1>0, <1>1 DEF InText
  <2> QED
    BY <1>0, <1>1, <1>2, <2>1, ConvertTypes
<1>4. PICK n \in 0 .. PipeRoom :
        /\ Len(bytes) - n \in 0 .. BufferSize
        /\ pipes' = [pipes EXCEPT !.in = @ \o SubSeq(bytes, 1, n), !.buffer = SubSeq(bytes, n + 1, Len(bytes))]
  BY DEF StdinTakes
<1>5. /\ spawn' = [spawn EXCEPT !.writer = c.w, !.start = m, !.turn = t]
      /\ loop' \in {"running", "flushing"}
  BY <1>0 DEF StdinTakes
<1>6. t \in SUBSET {"stdin", "stdout"}
  BY <1>0 DEF Called, Contexts
<1> HIDE DEF c, t
<1>7. m \in Int /\ spawn.start <= m /\ m <= spawn.to /\ (c.w.halfway => AutoEol /\ m < spawn.to)
  <2>1. c.w.halfway => AutoEol
    BY <1>0, <1>3 DEF InText
  <2> QED
    BY <1>0, <1>1, <1>3, <2>1 DEF InText
<1> HIDE DEF m
<1>8. /\ spawn' \in Contexts /\ spawn'.reader = spawn.reader
      /\ spawn'.from = spawn.from /\ spawn'.to = spawn.to /\ spawn'.start = m
      /\ spawn'.added = spawn.added /\ spawn'.argument = spawn.argument /\ spawn'.writer = c.w
  <2> DEFINE W == Writers
             R == Readers
             w == c.w
             C == [from : Int, to : Int, start : Int, added : BOOLEAN, interrupted : BOOLEAN,
                   error : {"none", "pipe", "memory", "exit", "signal"}, rc : {0, 1},
                   argument : {"none", "q"}, quit : BOOLEAN, turn : SUBSET {"stdin", "stdout"},
                   writer : W, reader : R]
  <2>1. Contexts = C
    BY DEF Contexts
  <2>2. w \in W
    BY <1>3
  <2> HIDE DEF W, R, w
  <2>3. spawn \in C /\ spawn' = [spawn EXCEPT !.writer = w, !.start = m, !.turn = t]
    BY <1>0, <1>5, <2>1 DEF w
  <2>4. /\ spawn' \in C /\ spawn'.reader = spawn.reader
        /\ spawn'.from = spawn.from /\ spawn'.to = spawn.to /\ spawn'.start = m
        /\ spawn'.added = spawn.added /\ spawn'.argument = spawn.argument /\ spawn'.writer = w
    BY <1>6, <1>7, <2>2, <2>3
  <2> QED
    BY <2>1, <2>4 DEF w
<1>9. pipes' \in Pipes /\ Len(pipes'.buffer) <= BufferSize /\ Len(pipes'.in) <= PipeSize
  <2> DEFINE a == SubSeq(bytes, 1, n)
             x == pipes.in \o a
             y == SubSeq(bytes, n + 1, Len(bytes))
  <2>1. bytes \in Texts
    BY <1>3, BytesOnTheirWay, Concatenated DEF Texts
  <2> HIDE DEF bytes
  <2>2. Len(bytes) \in Nat /\ n \in 0 .. Len(bytes) /\ n <= PipeRoom
    <3>1. Len(bytes) \in Nat
      BY <2>1 DEF Texts
    <3> QED
      BY <1>2, <1>4, <3>1
  <2>3. a \in Texts /\ Len(a) = n /\ y \in Texts /\ Len(y) = Len(bytes) - n
    BY <2>1, <2>2, SequenceOps DEF Texts
  <2>4. pipes' = [pipes EXCEPT !.in = x, !.buffer = y]
    BY <1>4
  <2> HIDE DEF a, y
  <2>5. x \in Texts /\ Len(x) = Len(pipes.in) + n
    BY <2>3, BytesOnTheirWay, Concatenated DEF Texts
  <2> HIDE DEF x
  <2>6. pipes' \in Pipes /\ pipes'.in = x /\ pipes'.buffer = y
    BY <2>3, <2>4, <2>5, BytesOnTheirWay DEF Pipes
  <2>7. Len(y) <= BufferSize
    BY <1>4, <2>2, <2>3, BytesOnTheirWay
  <2>8. Len(x) <= PipeSize
    BY <1>2, <2>2, <2>5, BytesOnTheirWay
  <2> QED
    BY <2>6, <2>7, <2>8
<1>10. TypeOK'
  BY <1>0, <1>5, <1>8, <1>9 DEF TypeOK, WithinBlock, Pipes
<1>11. InText'
  <2>1. 0 <= m /\ spawn.from <= m
    BY <1>0, <1>7 DEF InText
  <2> QED
    BY <1>0, <1>7, <1>8, <2>1 DEF InText
<1>12. IF spawn'.argument = "none" THEN OnDocument' ELSE OnRegister'
  BY <1>0, <1>8 DEF Busy, OnDocument, OnRegister
<1> QED
  BY <1>0, <1>5, <1>10, <1>11, <1>12 DEF IInv, Busy, Running

LEMMA StdinWatchStep == ASSUME IInv, StdinWatch PROVE IInv'
<1>0. /\ UNCHANGED <<doc, reg, process, interrupted, tokens, result, before, count>>
      /\ loop = "running" /\ spawn \in Contexts /\ interrupted \in BOOLEAN
  BY DEF StdinWatch, MayCall, unchangedCommand, IInv, TypeOK
<1>1. CASE StdinClosed
  <2> DEFINE z == <<>>
  <2>1. z \in Texts /\ Len(z) = 0
    BY DEF Texts
  <2>2. pipes' = [pipes EXCEPT !.open = FALSE, !.buffer = z] /\ UNCHANGED <<loop, spawn>>
    BY <1>1 DEF StdinClosed
  <2> HIDE DEF z
  <2>3. pipes' \in Pipes /\ pipes'.in = pipes.in /\ pipes'.buffer = z
    BY <2>1, <2>2, BytesOnTheirWay DEF Pipes
  <2> QED
    BY <1>0, <2>1, <2>2, <2>3, BytesOnTheirWay, LoopStep DEF Running
<1>2. ASSUME NEW gap \in 0 .. Len(doc.text), StdinFails(Convert(spawn.writer, Pending(gap), Room)) PROVE IInv'
  <2>1. spawn' = [spawn EXCEPT !.error = "pipe", !.quit = TRUE] /\ UNCHANGED <<loop, pipes>>
    BY <1>2 DEF StdinFails
  <2>2. /\ spawn' \in Contexts /\ spawn'.reader = spawn.reader
        /\ spawn'.from = spawn.from /\ spawn'.to = spawn.to /\ spawn'.start = spawn.start
        /\ spawn'.added = spawn.added /\ spawn'.argument = spawn.argument /\ spawn'.writer = spawn.writer
    BY <1>0, <2>1 DEF Contexts
  <2> QED
    BY <1>0, <2>1, <2>2, BytesOnTheirWay, LoopStep DEF Running
<1>3. ASSUME NEW gap \in 0 .. Len(doc.text), StdinTakes(Convert(spawn.writer, Pending(gap), Room)) PROVE IInv'
  BY <1>0, <1>3, StdinTakesStep
<1> QED
  BY <1>1, <1>2, <1>3 DEF StdinWatch

LEMMA ReaderTypes ==
  ASSUME NEW r \in Readers
  PROVE  /\ Advance(r) \in Readers /\ Advance(r).piece = 0 /\ Advance(r).block = r.block
         /\ r.off + r.piece <= Advance(r).off
         /\ \A block \in Texts : Fill(r, block) \in Readers /\ Fill(r, block).off = 0
                                 /\ Fill(r, block).block = block /\ Fill(r, block).piece = r.piece
<1> DEFINE T == Texts
           L == Characters \cup {"none", "CRLF"}
           E == EolStyles \cup {"none"}
           R == [block : T, off : Nat, piece : Nat, last : L, style : E, mixed : BOOLEAN]
<1>1. Readers = R
  BY DEF Readers
<1>2. "LF" \in L
  BY DEF Characters
<1> HIDE DEF T, L, E
<1>3. /\ Advance(r) \in R /\ Advance(r).piece = 0 /\ Advance(r).block = r.block
      /\ r.off + r.piece <= Advance(r).off
  <2> DEFINE o == r.off + r.piece + (IF r.last = "CRLF" THEN 1 ELSE 0)
             l == IF r.last = "CRLF" THEN "LF" ELSE r.last
  <2>1. r \in R
    BY <1>1
  <2>2. o \in Nat /\ r.off + r.piece <= o /\ l \in L
    BY <1>2, <2>1
  <2> DEFINE a == [r EXCEPT !.off = o, !.piece = 0, !.last = l]
  <2>3. Advance(r) = a
    BY DEF Advance
  <2> HIDE DEF o, l
  <2>4. a \in R /\ a.piece = 0 /\ a.block = r.block /\ a.off = o
    BY <2>1, <2>2
  <2> QED
    BY <2>2, <2>3, <2>4
<1>4. ASSUME NEW block \in T
      PROVE  /\ Fill(r, block) \in R /\ Fill(r, block).off = 0
             /\ Fill(r, block).block = block /\ Fill(r, block).piece = r.piece
  <2>1. r \in R
    BY <1>1
  <2> QED
    BY <2>1 DEF Fill
<1> QED
  BY <1>1, <1>3, <1>4 DEF T

LEMMA AtEOFTypes ==
  ASSUME NEW r \in Readers, r.piece = 0
  PROVE  AtEOF(r) \in Readers /\ WithinBlock(AtEOF(r))
<1> DEFINE z == <<>>
           f == Fill(r, z)
<1>1. z \in Texts /\ Len(z) = 0
  BY DEF Texts
<1> HIDE DEF z
<1>2. f \in Readers /\ f.off = 0 /\ f.block = z /\ f.piece = 0
  BY <1>1, ReaderTypes
<1> HIDE DEF f
<1>3. AtEOF(r) = f \/ AtEOF(r) = Found(f, "CR")
  BY DEF AtEOF, z, f
<1>4. Found(f, "CR") \in Readers /\ Found(f, "CR").off = 0 /\ Found(f, "CR").block = z /\ Found(f, "CR").piece = 0
  <2> DEFINE T == Texts
             L == Characters \cup {"none", "CRLF"}
             E == EolStyles \cup {"none"}
             R == [block : T, off : Nat, piece : Nat, last : L, style : E, mixed : BOOLEAN]
  <2>1. Readers = R /\ "CR" \in E
    BY DEF Readers, EolStyles
  <2> HIDE DEF T, L, E
  <2>2. CASE f.style = "none"
    <3>1. Found(f, "CR") = [f EXCEPT !.style = "CR"]
      BY <2>2 DEF Found
    <3> QED
      BY <1>2, <2>1, <3>1
  <2>3. CASE f.style # "none"
    <3> DEFINE m == f.mixed \/ "CR" # f.style
    <3>1. Found(f, "CR") = [f EXCEPT !.mixed = m]
      BY <2>3 DEF Found
    <3>2. m \in BOOLEAN
      OBVIOUS
    <3> HIDE DEF m
    <3> QED
      BY <1>2, <2>1, <3>1, <3>2
  <2> QED
    BY <2>2, <2>3
<1> QED
  BY <1>1, <1>2, <1>3, <1>4 DEF WithinBlock

(* The end of a callback touches no text.                                  *)
LEMMA LeaveStep ==
  ASSUME IInv, loop \in {"reading", "reaping"}, NEW r \in Readers, WithinBlock(r), Leave(r),
         UNCHANGED <<process, interrupted, result, before, count>>,
         pipes' \in Pipes, pipes'.buffer = pipes.buffer, pipes'.in = pipes.in
  PROVE  IInv'
<1> DEFINE e == ExitStatus.error
           k == ExitStatus.rc
<1>0. spawn \in Contexts /\ interrupted \in BOOLEAN /\ Running /\ UNCHANGED <<doc, reg, tokens>> /\ loop' = "running"
  BY DEF IInv, TypeOK, Running, Leave
<1>1. spawn' = [spawn EXCEPT !.reader = r] \/ spawn' = [spawn EXCEPT !.reader = r, !.quit = TRUE, !.error = e, !.rc = k]
  BY DEF Leave
<1>2. e \in {"none", "pipe", "memory", "exit", "signal"} /\ k \in {0, 1}
  <2>1. spawn.rc \in {0, 1}
    BY <1>0 DEF Contexts
  <2>2. ExitStatus \in {[error |-> "exit", rc |-> 1], [error |-> "signal", rc |-> 0], [error |-> "none", rc |-> spawn.rc]}
    BY DEF ExitStatus
  <2> QED
    BY <2>1, <2>2
<1> HIDE DEF e, k
<1>3. /\ spawn' \in Contexts /\ spawn'.reader = r
      /\ spawn'.from = spawn.from /\ spawn'.to = spawn.to /\ spawn'.start = spawn.start
      /\ spawn'.added = spawn.added /\ spawn'.argument = spawn.argument /\ spawn'.writer = spawn.writer
  <2> DEFINE W == Writers
             R == Readers
             C == [from : Int, to : Int, start : Int, added : BOOLEAN, interrupted : BOOLEAN,
                   error : {"none", "pipe", "memory", "exit", "signal"}, rc : {0, 1},
                   argument : {"none", "q"}, quit : BOOLEAN, turn : SUBSET {"stdin", "stdout"},
                   writer : W, reader : R]
  <2>1. Contexts = C
    BY DEF Contexts
  <2>2. r \in R
    OBVIOUS
  <2> HIDE DEF W, R
  <2> QED
    BY <1>0, <1>1, <1>2, <2>1, <2>2
<1> QED
  BY <1>0, <1>3, BytesOnTheirWay, LoopStep

(* A piece of the output changes the document behind the range, or the     *)
(* register, which the first one has saved.                                *)
LEMMA InsertStep ==
  ASSUME IInv, loop \in {"reading", "reaping"}, NEW r \in Readers, WithinBlock(r), Insert(r),
         Piece(r) \in Texts, Len(Piece(r)) = r.piece,
         UNCHANGED <<process, interrupted, result, before, count>>,
         pipes' \in Pipes, pipes'.buffer = pipes.buffer, pipes'.in = pipes.in
  PROVE  IInv'
<1> DEFINE p == Piece(r)
           full == (IF spawn.argument = "none" THEN Len(doc.text) ELSE Len(reg.text)) + Len(p) > MemoryLimit
           q == spawn.quit \/ full
           e == IF full THEN "memory" ELSE spawn.error
<1>0. /\ TypeOK /\ spawn \in Contexts /\ interrupted \in BOOLEAN /\ Running /\ Busy /\ InText
      /\ doc \in Docs /\ reg \in Regs /\ doc.dot <= Len(doc.text) /\ result.kind = "none"
      /\ before \in [doc : Docs, reg : Regs, target : {"none", "q"}]
      /\ WithinBlock(spawn.reader)
  BY DEF IInv, TypeOK, Running, Busy
<1>1. /\ spawn' = [spawn EXCEPT !.reader = r, !.added = TRUE, !.quit = q, !.error = e]
      /\ loop' = IF full THEN "running" ELSE loop
      /\ IF spawn.argument = "none"
         THEN /\ doc' = [doc EXCEPT !.text = Replace(@, doc.dot, doc.dot, p), !.dot = @ + Len(p)]
              /\ UNCHANGED <<reg, tokens>>
         ELSE /\ reg' = [reg EXCEPT !.text = IF spawn.added THEN @ \o p ELSE p]
              /\ tokens' = IF spawn.added THEN tokens ELSE Append(tokens, Token("register", reg.text))
              /\ UNCHANGED doc
  BY DEF Insert
<1>2. loop' \in {"running", "reading", "reaping"}
  BY <1>1
<1>3. q \in BOOLEAN /\ e \in {"none", "pipe", "memory", "exit", "signal"}
  BY <1>0 DEF Contexts
<1> HIDE DEF q, e, full
<1>4. /\ spawn' \in Contexts /\ spawn'.reader = r /\ spawn'.added = TRUE
      /\ spawn'.from = spawn.from /\ spawn'.to = spawn.to /\ spawn'.start = spawn.start
      /\ spawn'.argument = spawn.argument /\ spawn'.writer = spawn.writer
  <2> DEFINE W == Writers
             R == Readers
             C == [from : Int, to : Int, start : Int, added : BOOLEAN, interrupted : BOOLEAN,
                   error : {"none", "pipe", "memory", "exit", "signal"}, rc : {0, 1},
                   argument : {"none", "q"}, quit : BOOLEAN, turn : SUBSET {"stdin", "stdout"},
                   writer : W, reader : R]
  <2>1. Contexts = C
    BY DEF Contexts
  <2>2. r \in R
    OBVIOUS
  <2> HIDE DEF W, R
  <2> QED
    BY <1>0, <1>1, <1>3, <2>1, <2>2
<1>5. InText'
  BY <1>0, <1>4 DEF InText
<1>6. p \in Texts /\ Len(p) \in Nat
  BY DEF Readers
<1> HIDE DEF p
<1>7. ASSUME doc' \in Docs, doc'.dot <= Len(doc'.text), reg' \in Regs PROVE TypeOK'
  BY <1>0, <1>2, <1>4, <1>7 DEF TypeOK, WithinBlock, Pipes
<1>8. CASE spawn.argument = "none"
  <2> DEFINE text == Replace(doc.text, doc.dot, doc.dot, p)
             dot == doc.dot + Len(p)
  <2>1. OnDocument
    BY <1>0, <1>8 DEF Busy
  <2>2. doc.text \in Texts /\ doc.dot \in Nat /\ doc.undo \in Seq(Texts) /\ spawn.to \in Int
    BY <1>0 DEF Docs, Contexts
  <2>3. spawn.to \in 0 .. doc.dot
    BY <1>0, <2>1, <2>2 DEF InText, OnDocument, Contexts
  <2>4. /\ text \in Texts /\ Len(text) = Len(doc.text) + Len(p)
        /\ SubSeq(text, 1, spawn.to) = SubSeq(doc.text, 1, spawn.to)
    <3>1. Len(doc.text) \in Nat
      BY <2>2 DEF Texts
    <3>2. doc.dot <= doc.dot /\ doc.dot <= Len(doc.text) /\ p \in Texts
      BY <1>0, <1>6, <2>2
    <3>3. /\ text \in Texts /\ Len(text) = Len(doc.text) - (doc.dot - doc.dot) + Len(p)
          /\ \A k \in 0 .. doc.dot : SubSeq(text, 1, k) = SubSeq(doc.text, 1, k)
      BY <2>2, <3>2, ReplaceProps, ZenonT(40)
    <3> HIDE DEF text
    <3> QED
      BY <1>6, <2>2, <2>3, <3>1, <3>3
  <2>5. doc' = [doc EXCEPT !.text = text, !.dot = dot] /\ UNCHANGED <<reg, tokens>>
    BY <1>1, <1>8
  <2>6. dot \in Nat /\ dot <= Len(text) /\ spawn.to <= dot
    <3>1. Len(doc.text) \in Nat
      BY <2>2 DEF Texts
    <3> HIDE DEF text
    <3> QED
      BY <1>0, <1>6, <2>2, <2>3, <2>4, <3>1
  <2> HIDE DEF text, dot
  <2>7. DocIs(doc', text, dot, doc.undo, doc.dirty, doc.ranges)
    <3> DEFINE T == Texts
               U == Seq(Texts)
               R == Seq(Int)
    <3>1. Docs = [text : T, dot : Nat, undo : U, dirty : BOOLEAN, ranges : R] /\ text \in T
      BY <2>4 DEF Docs
    <3> HIDE DEF T, U, R
    <3> QED
      BY <1>0, <2>5, <2>6, <3>1 DEF DocIs
  <2>8. TypeOK'
    BY <1>0, <1>7, <2>5, <2>6, <2>7 DEF DocIs
  <2>9. OnDocument'
    BY <1>4, <2>1, <2>4, <2>5, <2>6, <2>7 DEF OnDocument, DocIs
  <2> QED
    BY <1>0, <1>2, <1>4, <1>5, <1>8, <2>8, <2>9 DEF IInv, Busy, Running
<1>9. CASE spawn.argument # "none"
  <2> DEFINE text == IF spawn.added THEN reg.text \o p ELSE p
  <2>1. OnRegister
    BY <1>0, <1>9 DEF Busy
  <2>2. reg.text \in Texts
    BY <1>0 DEF Regs
  <2>3. text \in Texts
    BY <1>6, <2>2, Concatenated DEF Texts
  <2>4. /\ reg' = [reg EXCEPT !.text = text] /\ UNCHANGED doc
        /\ tokens' = IF spawn.added THEN tokens ELSE Append(tokens, Token("register", reg.text))
    BY <1>1, <1>9
  <2> HIDE DEF text
  <2>5. reg' \in Regs /\ reg'.eol = reg.eol
    <3>1. [reg EXCEPT !.text = text] \in Regs /\ [reg EXCEPT !.text = text] = [text |-> text, eol |-> reg.eol]
      BY <1>0, <2>3, RegSet
    <3> QED
      BY <2>4, <3>1
  <2>6. TypeOK'
    BY <1>0, <1>7, <2>4, <2>5
  <2>7. PICK ts \in {<<>>, <<Token("argument", "none")>>, <<Token("argument", "q")>>} :
          tokens = IF spawn.added THEN Append(ts, Token("register", before.reg.text)) ELSE ts
    BY <2>1 DEF OnRegister
  <2>8. ~spawn.added => reg.text = before.reg.text
    BY <2>1 DEF OnRegister
  <2>9. tokens' = Append(ts, Token("register", before.reg.text))
    BY <2>4, <2>7, <2>8
  <2>10. OnRegister'
    BY <1>4, <2>1, <2>4, <2>5, <2>9 DEF OnRegister
  <2> QED
    BY <1>0, <1>2, <1>4, <1>5, <1>9, <2>6, <2>10 DEF IInv, Busy, Running
<1> QED
  BY <1>8, <1>9

LEMMA GotStep ==
  ASSUME IInv, loop \in {"reading", "reaping"},
         NEW r \in Readers, r.piece = 0, r.off <= Len(r.block), ~AutoEol => r.off = 0, Got(r),
         UNCHANGED <<process, interrupted, result, before, count>>,
         pipes' \in Pipes, pipes'.buffer = pipes.buffer, pipes'.in = pipes.in
  PROVE  IInv'
<1> DEFINE t == Translate(r)
<1>1. t \in Readers /\ WithinBlock(t) /\ Piece(t) \in Texts /\ Len(Piece(t)) = t.piece
  BY TranslateTypes
<1>2. Leave(t) \/ Insert(t)
  BY DEF Got
<1> HIDE DEF t
<1> QED
  BY <1>1, <1>2, LeaveStep, InsertStep

(* A reading step returns a piece, or ends the callback.                   *)
LEMMA ReadPieces ==
  ASSUME IInv, Read
  PROVE  /\ loop \in {"reading", "reaping"} /\ UNCHANGED <<process, interrupted, result, before, count>>
         /\ pipes' \in Pipes /\ pipes'.buffer = pipes.buffer /\ pipes'.in = pipes.in /\ pipes'.open = pipes.open
         /\ \/ \E f \in Readers : /\ f.piece = 0 /\ f.off <= Len(f.block) /\ (~AutoEol => f.off = 0)
                                /\ Got(f)
            \/ \E f \in Readers : WithinBlock(f) /\ Leave(f)
<1> DEFINE r == Advance(spawn.reader)
<1>0. /\ loop \in {"reading", "reaping"} /\ UNCHANGED <<process, interrupted, result, before, count>>
      /\ spawn.reader \in Readers /\ WithinBlock(spawn.reader)
  BY DEF Read, IInv, TypeOK, Contexts
<1>1. /\ r \in Readers /\ r.piece = 0 /\ r.block = spawn.reader.block
      /\ spawn.reader.off + spawn.reader.piece <= r.off
      /\ r.off \in Nat /\ Len(r.block) \in Nat
  <2>1. r \in Readers /\ r.piece = 0 /\ r.block = spawn.reader.block /\ spawn.reader.off + spawn.reader.piece <= r.off
    BY <1>0, ReaderTypes
  <2> HIDE DEF r
  <2> QED
    BY <2>1 DEF Readers, Texts
<1>2. /\ pipes \in Pipes /\ pipes.out \in Texts /\ Len(pipes.out) \in Nat
  BY BytesOnTheirWay
<1>3. \/ ~NeedsBlock(r) /\ UNCHANGED pipes /\ Got(r)
      \/ \E n \in DOMAIN pipes.out :
           /\ pipes' = [pipes EXCEPT !.out = SubSeq(@, n + 1, Len(@))]
           /\ Got(Fill(r, SubSeq(pipes.out, 1, n)))
      \/ UNCHANGED pipes /\ Got(Fill(r, <<>>))
      \/ pipes' = [pipes EXCEPT !.watched = FALSE] /\ Leave(AtEOF(r))
  BY DEF Read
<1> HIDE DEF r
<1>4. ASSUME NEW block \in Texts
      PROVE  LET f == Fill(r, block) IN
             f \in Readers /\ f.piece = 0 /\ f.off <= Len(f.block) /\ f.off = 0
  <2>1. Fill(r, block) \in Readers /\ Fill(r, block).off = 0 /\ Fill(r, block).block = block /\ Fill(r, block).piece = 0
    BY <1>1, ReaderTypes
  <2>2. Len(block) >= 0
    BY DEF Texts
  <2> QED
    BY <2>1, <2>2
<1>5. CASE ~NeedsBlock(r) /\ UNCHANGED pipes /\ Got(r)
  <2>1. r.off < Len(r.block)
    BY <1>1, <1>5 DEF NeedsBlock
  <2>2. AutoEol
    BY <1>0, <1>1, <2>1 DEF WithinBlock, Readers
  <2>3. r.off <= Len(r.block)
    BY <1>1, <2>1
  <2> QED
    BY <1>0, <1>1, <1>2, <1>5, <2>2, <2>3
<1>6. ASSUME NEW n \in DOMAIN pipes.out,
             pipes' = [pipes EXCEPT !.out = SubSeq(@, n + 1, Len(@))], Got(Fill(r, SubSeq(pipes.out, 1, n)))
      PROVE  /\ pipes' \in Pipes /\ pipes'.buffer = pipes.buffer /\ pipes'.in = pipes.in /\ pipes'.open = pipes.open
             /\ \E f \in Readers : f.piece = 0 /\ f.off <= Len(f.block) /\ f.off = 0 /\ Got(f)
  <2> DEFINE b == SubSeq(pipes.out, 1, n)
             x == SubSeq(pipes.out, n + 1, Len(pipes.out))
             f == Fill(r, b)
  <2>1. n \in 0 .. Len(pipes.out)
    BY <1>2 DEF Texts
  <2>2. b \in Texts /\ x \in Texts
    BY <1>2, <2>1, SequenceOps DEF Texts
  <2>3. f \in Readers /\ f.piece = 0 /\ f.off <= Len(f.block) /\ f.off = 0
    BY <1>4, <2>2
  <2>4. pipes' = [pipes EXCEPT !.out = x] /\ Got(f)
    BY <1>6
  <2> HIDE DEF f, b, x
  <2>5. pipes' \in Pipes /\ pipes'.buffer = pipes.buffer /\ pipes'.in = pipes.in /\ pipes'.open = pipes.open
    BY <1>2, <2>2, <2>4 DEF Pipes
  <2> QED
    BY <1>0, <2>3, <2>4, <2>5
<1>7. CASE UNCHANGED pipes /\ Got(Fill(r, <<>>))
  <2> DEFINE z == <<>>
             f == Fill(r, z)
  <2>1. z \in Texts
    BY DEF Texts
  <2>2. f \in Readers /\ f.piece = 0 /\ f.off <= Len(f.block) /\ f.off = 0
    BY <1>4, <2>1
  <2>3. Got(f)
    BY <1>7
  <2> HIDE DEF f
  <2> QED
    BY <1>0, <1>2, <1>7, <2>2, <2>3
<1>8. CASE pipes' = [pipes EXCEPT !.watched = FALSE] /\ Leave(AtEOF(r))
  <2> DEFINE f == AtEOF(r)
  <2>1. f \in Readers /\ WithinBlock(f)
    BY <1>1, AtEOFTypes
  <2>2. pipes' \in Pipes /\ pipes'.buffer = pipes.buffer /\ pipes'.in = pipes.in /\ pipes'.open = pipes.open
    BY <1>2, <1>8 DEF Pipes
  <2>3. Leave(f)
    BY <1>8
  <2> HIDE DEF f
  <2> QED
    BY <1>0, <2>1, <2>2, <2>3
<1> QED
  BY <1>0, <1>3, <1>5, <1>6, <1>7, <1>8

LEMMA ReadStep == ASSUME IInv, Read PROVE IInv'
<1>1. /\ loop \in {"reading", "reaping"} /\ UNCHANGED <<process, interrupted, result, before, count>>
      /\ pipes' \in Pipes /\ pipes'.buffer = pipes.buffer /\ pipes'.in = pipes.in
  BY ReadPieces
<1>2. \/ \E f \in Readers : /\ f.piece = 0 /\ f.off <= Len(f.block) /\ (~AutoEol => f.off = 0)
                           /\ Got(f)
      \/ \E f \in Readers : WithinBlock(f) /\ Leave(f)
  BY ReadPieces
<1> QED
  BY <1>1, <1>2, GotStep, LeaveStep

-----------------------------------------------------------------------------
(* The theorems.                                                           *)

(* The first command finds the document as it was loaded and no tokens.    *)
LEMMA InitHolds == ASSUME Init PROVE IInv
<1>1. PICK d \in 0 .. Len(Text) : doc = [text |-> Text, dot |-> d, undo |-> <<>>, dirty |-> FALSE, ranges |-> <<0, 0>>]
  BY DEF Init
<1>2. Text \in Texts /\ Len(Text) \in Nat
  <2>1. Text \in Seq(ToSet(Text)) /\ ToSet(Text) \subseteq Characters
    BY SpawnAssumption DEF Characters
  <2>2. \A S, T : S \subseteq T => Seq(S) \subseteq Seq(T)
    OBVIOUS
  <2>3. Text \in Texts
    BY <2>1, <2>2 DEF Texts
  <2> QED
    BY <2>3 DEF Texts
<1>3. doc \in Docs /\ doc.dot <= Len(doc.text)
  <2> DEFINE T == Texts
             z == <<>>
             k == <<0, 0>>
  <2>1. z \in Seq(T) /\ k \in Seq(Int) /\ d \in Nat /\ Text \in T
    BY <1>2
  <2> HIDE DEF T, z, k
  <2>2. doc = [text |-> Text, dot |-> d, undo |-> z, dirty |-> FALSE, ranges |-> k]
    BY <1>1 DEF z, k
  <2>3. doc \in [text : T, dot : Nat, undo : Seq(T), dirty : BOOLEAN, ranges : Seq(Int)]
    BY <2>1, <2>2
  <2>4. doc.dot <= Len(doc.text)
    BY <1>2, <2>2
  <2> QED
    BY <2>3, <2>4 DEF Docs, T
<1>4. reg \in Regs
  <2> DEFINE x == <<"r">>
  <2>1. x \in Texts
    <3> DEFINE C == Characters
    <3>1. "r" \in C
      BY DEF Characters
    <3> HIDE DEF C
    <3>2. x \in Seq(C)
      BY <3>1
    <3> QED
      BY <3>2 DEF Texts, C
  <2> HIDE DEF x
  <2>2. reg = [text |-> x, eol |-> "LF"]
    BY DEF Init, x
  <2> QED
    BY <2>1, <2>2 DEF Regs, EolStyles
<1>5. spawn \in Contexts /\ WithinBlock(spawn.reader) /\ spawn.argument = "none"
  <2> DEFINE w == NewWriter(EolMode)
             r == NewReader
             W == Writers
             R == Readers
             C == [from : Int, to : Int, start : Int, added : BOOLEAN, interrupted : BOOLEAN,
                   error : {"none", "pipe", "memory", "exit", "signal"}, rc : {0, 1},
                   argument : {"none", "q"}, quit : BOOLEAN, turn : SUBSET {"stdin", "stdout"},
                   writer : W, reader : R]
  <2>1. w \in W
    <3>1. w = [halfway |-> FALSE, last |-> "none", seq |-> EolSeq(EolMode)] /\ EolMode \in EolStyles
      BY SpawnAssumption DEF NewWriter
    <3> QED
      BY <3>1 DEF Writers
  <2>2. r \in R /\ WithinBlock(r)
    BY DEF NewReader, Readers, Texts, WithinBlock
  <2>3. Contexts = C
    BY DEF Contexts
  <2>4. spawn = [from |-> 0, to |-> 0, start |-> 0, added |-> FALSE, interrupted |-> FALSE,
                 error |-> "none", rc |-> 0, argument |-> "none", quit |-> FALSE, turn |-> {},
                 writer |-> w, reader |-> r]
    BY DEF Init
  <2> HIDE DEF w, r, W, R
  <2>5. spawn \in C /\ spawn.reader = r /\ spawn.argument = "none"
    BY <2>1, <2>2, <2>4
  <2> QED
    BY <2>2, <2>3, <2>5
<1>6. /\ process \in Processes /\ pipes \in Pipes /\ Len(pipes.buffer) <= BufferSize /\ Len(pipes.in) <= PipeSize
  <2> DEFINE z == <<>>
  <2>1. z \in Texts /\ Len(z) = 0 /\ BufferSize >= 0 /\ PipeSize >= 0
    BY SpawnAssumption DEF Texts
  <2> HIDE DEF z
  <2>2. /\ process = [status |-> "none", read |-> z, written |-> z, eof |-> FALSE]
        /\ pipes = [buffer |-> z, in |-> z, out |-> z, open |-> FALSE, watched |-> FALSE]
    BY DEF Init, NoProcess, NoBytes, z
  <2> QED
    BY <2>1, <2>2 DEF Processes, Pipes
<1>7. /\ loop = "idle" /\ interrupted = FALSE /\ tokens = <<>> /\ result = [kind |-> "none", value |-> 0]
      /\ before = [doc |-> doc, reg |-> reg, target |-> "none"] /\ count = 0
  BY DEF Init
<1>8. TypeOK
  <2>1. /\ before \in [doc : Docs, reg : Regs, target : {"none", "q"}] /\ before.doc.dot <= Len(before.doc.text)
        /\ result \in [kind : {"none", "error", "failure", "success"}, value : {-1, 0, 1}]
        /\ interrupted \in BOOLEAN /\ count \in Nat
    BY <1>3, <1>4, <1>7
  <2> QED
    BY <1>3, <1>4, <1>5, <1>6, <1>7, <2>1 DEF TypeOK, Processes, Pipes
<1>9. Settled
  <2>1. Undone(Now, tokens) = Now
    <3>1. <<>> \in Seq({0}) /\ 0 \in {0}
      OBVIOUS
    <3> QED
      BY <1>7, <3>1, UndoneAppend
  <2>2. Now = Restored("none")
    <3>1. [spawn EXCEPT !.argument = "none"] = spawn
      BY <1>5, Arguing
    <3> QED
      BY <1>7, <3>1 DEF Now, Restored
  <2> QED
    BY <1>7, <2>1, <2>2 DEF Settled
<1> QED
  BY <1>7, <1>8, <1>9 DEF IInv, Running

LEMMA StepHolds == ASSUME IInv, [Next]_vars PROVE IInv'
<1>1. CASE Execute
  <2>1. PICK target \in {"none", "q"}, a \in Arguments :
          \/ \E colon \in BOOLEAN : Refuse(target, colon, a) \/ CannotStart(target, colon, a)
          \/ Start(target, a)
    BY <1>1 DEF Execute
  <2> QED
    BY <2>1, RefuseStep, CannotStartStep, StartStep
<1>2. CASE UNCHANGED vars
  <2>1. UNCHANGED <<doc, reg, spawn, loop, process, pipes, interrupted, tokens, result, before, count>>
    BY <1>2 DEF vars
  <2>2. interrupted' \in BOOLEAN
    BY <2>1 DEF IInv, TypeOK
  <2> QED
    BY <2>1, <2>2, BytesOnTheirWay, KeptStep
<1> QED
  BY <1>1, <1>2, ProcessReadsStep, ProcessWritesStep, ProcessExitsStep, StdinWatchStep, FlushStep,
     StdoutWatchStep, ReadStep, ChildWatchStep, InterruptStep, IdleStep, FinishStep, RuboutStep, NoticeStep
     DEF Next

(* Every reachable state has the types, readers and writers stay within    *)
(* their blocks and ranges, and the tokens always lead back to what the    *)
(* last command has found: those of a command that is still running        *)
(* restore the register or the document, less what SCI_UNDO brings back,   *)
(* and those of one that has ended restore both (teco_state_execute_done,  *)
(* teco_spawn_stdout_watch_cb).                                            *)
THEOREM Invariance == Spec => []IInv
<1>1. Init => IInv
  BY InitHolds
<1>2. IInv /\ [Next]_vars => IInv'
  BY StepHolds
<1> QED
  BY <1>1, <1>2, PTL DEF Spec

(* Whenever EC or EG fails - the process cannot be started, a pipe breaks, *)
(* the memory limit is hit, it is interrupted, the process fails - and     *)
(* whenever it is rubbed out, the document, its undo history, dot, dirty   *)
(* flag and ranges, and the register are what the command has found.       *)
THEOREM RuboutRestoresProof == Spec => []RuboutRestores
<1>1. IInv => RuboutRestores
  BY DEF IInv, Busy, Settled, RuboutRestores
<1> QED
  BY <1>1, Invariance, PTL

-----------------------------------------------------------------------------
(* What arrives at the process.                                            *)

(* A translated document has no CRs, which are line ends of files.         *)
Clean(text) == AutoEol => \A i \in DOMAIN text : text[i] # "CR"

(* What stands for the first n characters of a text from another one on,   *)
(* and the half of a line end that has been written already.               *)
Sent(text, from, n) ==
  LET t == SubSeq(text, from + 1, n) IN IF AutoEol THEN Encoded(t, EolMode) ELSE t
Half(w) == IF w.halfway THEN <<"CR">> ELSE <<>>

(* While nothing has failed: all that has been taken from the document is  *)
(* on its way or has arrived, and the pipe is only closed behind the whole *)
(* range.                                                                  *)
Arrived ==
  /\ spawn.writer.seq = EolSeq(EolMode) /\ spawn.writer.last # "CR"
  /\ spawn.writer.halfway => before.doc.text[spawn.start + 1] = "LF" /\ EolMode = "CRLF"
  /\ Alive => process.read \o pipes.in \o pipes.buffer
                = Sent(before.doc.text, spawn.from, spawn.start) \o Half(spawn.writer)
  /\ Alive /\ ~pipes.open => spawn.start = spawn.to /\ pipes.buffer = <<>>
  /\ loop = "flushing" => spawn.start = spawn.to
  /\ spawn.quit => ~Alive
  /\ process.eof => /\ ~pipes.open /\ pipes.in = <<>>
                    /\ process.read = Sent(before.doc.text, spawn.from, spawn.to)
Fed ==
  /\ Clean(doc.text) /\ Clean(before.doc.text)
  /\ loop = "reaping" => ~Alive /\ spawn.error = "none"
  /\ Running /\ spawn.error = "none" => Arrived

LEMMA NextSubSeq ==
  \A T : \A s \in Seq(T) : \A f, n \in Nat :
    f <= n /\ n < Len(s) => /\ SubSeq(s, f + 1, n + 1) = Append(SubSeq(s, f + 1, n), s[n + 1])
                            /\ SubSeq(s, f + 1, n) \in Seq(T) /\ s[n + 1] \in T
                            /\ Len(SubSeq(s, f + 1, n)) = n - f
                            /\ \A i \in 1 .. (n - f) : SubSeq(s, f + 1, n)[i] = s[f + i]
<1> SUFFICES ASSUME NEW T, NEW s \in Seq(T), NEW f \in Nat, NEW n \in Nat, f <= n, n < Len(s)
             PROVE  /\ SubSeq(s, f + 1, n + 1) = Append(SubSeq(s, f + 1, n), s[n + 1])
                    /\ SubSeq(s, f + 1, n) \in Seq(T) /\ s[n + 1] \in T
                    /\ Len(SubSeq(s, f + 1, n)) = n - f
                    /\ \A i \in 1 .. (n - f) : SubSeq(s, f + 1, n)[i] = s[f + i]
  OBVIOUS
<1> DEFINE N == Len(s)
           a == SubSeq(s, f + 1, n)
           b == SubSeq(s, f + 1, n + 1)
           c == Append(a, s[n + 1])
           d == n - f
<1>1. N \in Nat /\ d \in Nat /\ n + 1 \in 1 .. N /\ s[n + 1] \in T /\ (n + 1) - f = d + 1 /\ f + (d + 1) = n + 1
  OBVIOUS
<1>2. a \in Seq(T) /\ Len(a) = d /\ \A i \in 1 .. d : a[i] = s[f + i]
  OBVIOUS
<1>3. b \in Seq(T) /\ Len(b) = d + 1 /\ \A i \in 1 .. (d + 1) : b[i] = s[f + i]
  OBVIOUS
<1> HIDE DEF a, b, d
<1>4. c \in Seq(T) /\ Len(c) = d + 1 /\ c[d + 1] = s[n + 1] /\ \A i \in 1 .. d : c[i] = a[i]
  <2> DEFINE x == s[n + 1]
  <2>1. x \in T
    BY <1>1
  <2> HIDE DEF x
  <2> QED
    BY <1>1, <1>2, <2>1
<1> HIDE DEF c
<1>5. \A i \in 1 .. (d + 1) : b[i] = c[i]
  <2> SUFFICES ASSUME NEW i \in 1 .. (d + 1) PROVE b[i] = c[i]
    OBVIOUS
  <2>1. i \in 1 .. d \/ i = d + 1
    BY <1>1
  <2> QED
    BY <1>1, <1>2, <1>3, <1>4, <2>1
<1>6. b = c
  <2>1. b = [i \in 1 .. (d + 1) |-> b[i]] /\ c = [i \in 1 .. (d + 1) |-> c[i]]
    BY <1>3, <1>4
  <2> QED
    BY <1>5, <2>1
<1> QED
  BY <1>1, <1>2, <1>6 DEF a, b, c, d

(* What a character of a clean text is sent as.                            *)
SentChar(c) == IF AutoEol /\ c = "LF" THEN EolSeq(EolMode) ELSE <<c>>

LEMMA SentCharTypes ==
  /\ \A c \in Characters : SentChar(c) \in Texts
  /\ EolSeq(EolMode) \in Texts
<1> DEFINE C == Characters
<1>1. "CR" \in C /\ "LF" \in C /\ EolMode \in {"CRLF", "CR", "LF"}
  BY SpawnAssumption DEF Characters, EolStyles
<1> HIDE DEF C
<1>2. EolSeq(EolMode) \in Seq(C)
  <2>1. <<"CR", "LF">> \in Seq(C) /\ <<"CR">> \in Seq(C) /\ <<"LF">> \in Seq(C)
    BY <1>1
  <2> QED
    BY <1>1, <2>1 DEF EolSeq
<1>3. \A c \in C : <<c>> \in Seq(C)
  OBVIOUS
<1> QED
  BY <1>2, <1>3 DEF SentChar, Texts, C

(* Without CRs every character is encoded on its own.                      *)
LEMMA EncodedNext ==
  ASSUME NEW t \in Texts, NEW c \in Characters, AutoEol, c # "CR", \A i \in 1 .. Len(t) : t[i] # "CR"
  PROVE  /\ Encoded(t, EolMode) \in Texts
         /\ Encoded(Append(t, c), EolMode) = Encoded(t, EolMode) \o SentChar(c)
<1> DEFINE N == Len(t)
           C == Characters
           u == Append(t, c)
           ts == [i \in 1 .. N |-> SentChar(t[i])]
           us == [i \in 1 .. Len(u) |-> SentChar(u[i])]
<1>0. /\ t \in Seq(C) /\ c \in C /\ N \in Nat /\ Len(u) = N + 1 /\ u[N + 1] = c
      /\ \A i \in 1 .. N : u[i] = t[i] /\ t[i] \in C
      /\ DOMAIN t = 1 .. N /\ DOMAIN u = 1 .. (N + 1)
  BY DEF Texts
<1>1. \A x \in C : SentChar(x) \in Seq(C)
  BY SentCharTypes DEF Texts
<1> HIDE DEF C, N, u
<1>2. Encoded(t, EolMode) = FlattenSeq(ts)
  <2>1. \A i \in 1 .. N :
          (CASE t[i] \in {"CR", "LF"} -> IF EndsCRLF(t, i) THEN <<>> ELSE EolSeq(EolMode)
             [] OTHER -> <<t[i]>>) = SentChar(t[i])
    <3> SUFFICES ASSUME NEW i \in 1 .. N
                 PROVE  (CASE t[i] \in {"CR", "LF"} -> IF EndsCRLF(t, i) THEN <<>> ELSE EolSeq(EolMode)
                           [] OTHER -> <<t[i]>>) = SentChar(t[i])
      OBVIOUS
    <3>1. t[i] # "CR"
      BY DEF N
    <3>2. ~EndsCRLF(t, i)
      <4>1. i > 1 => i - 1 \in 1 .. N
        BY <1>0
      <4> QED
        BY <4>1 DEF EndsCRLF, N
    <3> QED
      BY <3>1, <3>2 DEF SentChar
  <2>2. [i \in DOMAIN t |->
          (CASE t[i] \in {"CR", "LF"} -> IF EndsCRLF(t, i) THEN <<>> ELSE EolSeq(EolMode)
             [] OTHER -> <<t[i]>>)] = ts
    BY <1>0, <2>1
  <2> QED
    BY <2>2 DEF Encoded
<1>3. Encoded(u, EolMode) = FlattenSeq(us)
  <2>0. Len(u) = N + 1
    BY <1>0
  <2>1. \A i \in 1 .. (N + 1) :
          (CASE u[i] \in {"CR", "LF"} -> IF EndsCRLF(u, i) THEN <<>> ELSE EolSeq(EolMode)
             [] OTHER -> <<u[i]>>) = SentChar(u[i])
    <3> SUFFICES ASSUME NEW i \in 1 .. (N + 1)
                 PROVE  (CASE u[i] \in {"CR", "LF"} -> IF EndsCRLF(u, i) THEN <<>> ELSE EolSeq(EolMode)
                           [] OTHER -> <<u[i]>>) = SentChar(u[i])
      OBVIOUS
    <3>0. \A j \in 1 .. (N + 1) : u[j] # "CR"
      BY <1>0 DEF N
    <3>2. ~EndsCRLF(u, i)
      <4>1. i > 1 => i - 1 \in 1 .. (N + 1)
        BY <1>0
      <4> QED
        BY <3>0, <4>1 DEF EndsCRLF
    <3> QED
      BY <3>0, <3>2 DEF SentChar
  <2>2. [i \in DOMAIN u |->
          (CASE u[i] \in {"CR", "LF"} -> IF EndsCRLF(u, i) THEN <<>> ELSE EolSeq(EolMode)
             [] OTHER -> <<u[i]>>)] = us
    BY <1>0, <2>0, <2>1
  <2> QED
    BY <2>2 DEF Encoded
<1>4. ts \in Seq(Seq(C)) /\ Len(ts) = N
  BY <1>0, <1>1
<1>5. us = Append(ts, SentChar(c))
  <2>1. Len(u) = N + 1 /\ N \in Nat
    BY <1>0
  <2>2. \A i \in 1 .. (N + 1) : Append(ts, SentChar(c))[i] = SentChar(u[i])
    BY <1>0, <1>4
  <2>3. DOMAIN Append(ts, SentChar(c)) = 1 .. (N + 1)
    BY <1>0, <1>1, <1>4
  <2>4. Append(ts, SentChar(c)) = [i \in DOMAIN Append(ts, SentChar(c)) |-> Append(ts, SentChar(c))[i]]
    BY <1>0, <1>1, <1>4
  <2> HIDE DEF ts
  <2> QED
    BY <2>1, <2>2, <2>3, <2>4
<1>6. SentChar(c) \in Seq(C)
  BY <1>0, <1>1
<1> HIDE DEF ts, us
<1>7. FlattenSeq(ts) \in Seq(C) /\ FlattenSeq(Append(ts, SentChar(c))) = FlattenSeq(ts) \o SentChar(c)
  BY <1>4, <1>6, FlattenAppend
<1> QED
  BY <1>2, <1>3, <1>5, <1>7 DEF Texts, C, u

LEMMA NothingSent ==
  ASSUME NEW s \in Texts, NEW n \in Nat PROVE Sent(s, n, n) = <<>>
<1> DEFINE z == <<>>
<1>1. SubSeq(s, n + 1, n) = z
  BY DEF Texts
<1>2. Encoded(z, EolMode) = FlattenSeq(z)
  <2>1. DOMAIN z = {}
    OBVIOUS
  <2> DEFINE F(i) == CASE z[i] \in {"CR", "LF"} -> IF EndsCRLF(z, i) THEN <<>> ELSE EolSeq(EolMode)
                       [] OTHER -> <<z[i]>>
  <2>2. [i \in DOMAIN z |-> F(i)] = z
    BY <2>1
  <2>3. Encoded(z, EolMode) = FlattenSeq([i \in DOMAIN z |-> F(i)])
    BY DEF Encoded
  <2> QED
    BY <2>2, <2>3
<1>3. FlattenSeq(z) = <<>>
  BY DEF FlattenSeq
<1> QED
  BY <1>1, <1>2, <1>3 DEF Sent

LEMMA SentNext ==
  ASSUME NEW s \in Texts, Clean(s), NEW f \in Nat, NEW n \in Nat, f <= n, n < Len(s)
  PROVE  /\ Sent(s, f, n) \in Texts /\ s[n + 1] \in Characters
         /\ Sent(s, f, n + 1) = Sent(s, f, n) \o SentChar(s[n + 1])
<1> DEFINE t == SubSeq(s, f + 1, n)
           c == s[n + 1]
<1>1. /\ SubSeq(s, f + 1, n + 1) = Append(t, c) /\ t \in Texts /\ c \in Characters
      /\ Len(t) = n - f /\ \A i \in 1 .. (n - f) : t[i] = s[f + i]
  BY NextSubSeq DEF Texts
<1>2. Len(s) \in Nat /\ DOMAIN s = 1 .. Len(s)
  BY DEF Texts
<1>3. AutoEol => c # "CR" /\ \A i \in 1 .. Len(t) : t[i] # "CR"
  <2>1. \A i \in 1 .. (n - f) : f + i \in 1 .. Len(s)
    BY <1>2
  <2>2. n + 1 \in 1 .. Len(s)
    BY <1>2
  <2> QED
    BY <1>1, <1>2, <2>1, <2>2 DEF Clean
<1> HIDE DEF t, c
<1>4. CASE AutoEol
  BY <1>1, <1>3, <1>4, EncodedNext DEF Sent, t, c
<1>5. CASE ~AutoEol
  <2>1. Append(t, c) = t \o <<c>>
    BY <1>1 DEF Texts
  <2> QED
    BY <1>1, <1>5, <2>1 DEF Sent, SentChar, t, c
<1> QED
  BY <1>4, <1>5
LEMMA SentTypes ==
  ASSUME NEW s \in Texts, Clean(s), NEW f \in Nat, NEW n \in Nat, f <= n, n <= Len(s)
  PROVE  Sent(s, f, n) \in Texts
<1>1. CASE n = f
  <2>1. <<>> \in Texts
    BY DEF Texts
  <2> QED
    BY <1>1, <2>1, NothingSent
<1>2. CASE n # f
  <2>1. n - 1 \in Nat /\ f <= n - 1 /\ n - 1 < Len(s) /\ (n - 1) + 1 = n
    BY <1>2 DEF Texts
  <2>2. /\ Sent(s, f, n - 1) \in Texts /\ s[n] \in Characters
        /\ Sent(s, f, n) = Sent(s, f, n - 1) \o SentChar(s[n])
    BY <2>1, SentNext
  <2>3. SentChar(s[n]) \in Texts
    BY <2>2, SentCharTypes
  <2> QED
    BY <2>2, <2>3, Concatenated DEF Texts
<1> QED
  BY <1>1, <1>2

LEMMA Concatenations ==
  \A T : \A p, q, r \in Seq(T) :
    /\ p \o q \in Seq(T) /\ p \o <<>> = p /\ <<>> \o p = p
    /\ IsPrefix(p, p \o q)
  BY DEF IsPrefix

LEMMA TextsConcatenated ==
  \A p, q, r \in Texts :
    /\ p \o q \in Texts /\ p \o <<>> = p /\ <<>> \o p = p
    /\ IsPrefix(p, p \o q)
<1> DEFINE C == Characters
<1> HIDE DEF C
<1>1. Texts = Seq(C)
  BY DEF Texts, C
<1> QED
  BY <1>1, Concatenations

LEMMA AnyAssociative ==
  ASSUME NEW T, NEW p \in Seq(T), NEW q \in Seq(T), NEW r \in Seq(T)
  PROVE  (p \o q) \o r = p \o (q \o r)
  OBVIOUS

LEMMA Associative == ASSUME NEW p \in Texts, NEW q \in Texts, NEW r \in Texts PROVE (p \o q) \o r = p \o (q \o r)
  BY AnyAssociative DEF Texts

(* The two halves of a CRLF may go with what is around them.               *)
LEMMA HalvesRegrouped ==
  ASSUME NEW p \in Texts, NEW q \in Texts
  PROVE  /\ (p \o <<"CR", "LF">>) \o q = (p \o <<"CR">>) \o (<<"LF">> \o q)
         /\ p \o <<"CR">> \in Texts /\ <<"LF">> \o q \in Texts
<1> DEFINE x == <<"CR">>
           y == <<"LF">>
<1>1. <<"CR", "LF">> = x \o y
  OBVIOUS
<1>2. x \in Texts /\ y \in Texts
  <2> DEFINE C == Characters
  <2>1. "CR" \in C /\ "LF" \in C
    BY DEF Characters
  <2> HIDE DEF C
  <2>2. x \in Seq(C) /\ y \in Seq(C)
    BY <2>1
  <2> QED
    BY <2>2 DEF Texts, C
<1> HIDE DEF x, y
<1> DEFINE h == p \o x
<1>3. h \in Texts /\ y \o q \in Texts
  BY <1>2, TextsConcatenated, Zenon
<1>4. h \o y = p \o (x \o y)
  BY <1>2, Associative
<1>5. h \in Texts /\ y \in Texts
  BY <1>2, <1>3
<1> HIDE DEF h
<1>6. (h \o y) \o q = h \o (y \o q)
  BY <1>5, Associative
<1> QED
  BY <1>1, <1>3, <1>4, <1>6, Zenon DEF h, x, y

(* What is sent first is the beginning of all.                             *)
LEMMA SentGrows ==
  ASSUME NEW s \in Texts, Clean(s), NEW f \in Nat, NEW m \in Nat, NEW n \in Nat, f <= m, m <= n, n <= Len(s)
  PROVE  \E r \in Texts : Sent(s, f, n) = Sent(s, f, m) \o r
<1> DEFINE A == {k \in Nat : m + k <= Len(s) => \E r \in Texts : Sent(s, f, m + k) = Sent(s, f, m) \o r}
<1>0. Len(s) \in Nat /\ Sent(s, f, m) \in Texts
  <2>1. Len(s) \in Nat
    BY DEF Texts
  <2> QED
    BY <2>1, SentTypes
<1>1. 0 \in A
  <2>1. <<>> \in Texts /\ Sent(s, f, m) \o <<>> = Sent(s, f, m)
    <3>1. <<>> \in Texts
      BY DEF Texts
    <3> QED
      BY <1>0, <3>1, TextsConcatenated, Zenon
  <2>2. m + 0 = m
    OBVIOUS
  <2> QED
    BY <2>1, <2>2
<1>2. ASSUME NEW k \in Nat, k \in A PROVE k + 1 \in A
  <2> SUFFICES ASSUME m + (k + 1) <= Len(s) PROVE \E r \in Texts : Sent(s, f, m + (k + 1)) = Sent(s, f, m) \o r
    OBVIOUS
  <2> DEFINE j == m + k
  <2>1. j \in Nat /\ f <= j /\ j < Len(s) /\ m + (k + 1) = j + 1
    BY <1>0
  <2>2. PICK r \in Texts : Sent(s, f, j) = Sent(s, f, m) \o r
    <3>1. m + k <= Len(s) => \E r \in Texts : Sent(s, f, m + k) = Sent(s, f, m) \o r
      BY <1>2
    <3> QED
      BY <1>0, <2>1, <3>1
  <2> HIDE DEF j
  <2>3. Sent(s, f, j + 1) = Sent(s, f, j) \o SentChar(s[j + 1]) /\ s[j + 1] \in Characters
    BY <2>1, SentNext
  <2>4. SentChar(s[j + 1]) \in Texts
    BY <2>3, SentCharTypes
  <2> DEFINE c == SentChar(s[j + 1])
             a == Sent(s, f, m)
  <2> HIDE DEF c, a
  <2>5. Sent(s, f, j + 1) = (a \o r) \o c /\ a \in Texts /\ c \in Texts
    BY <1>0, <2>2, <2>3, <2>4 DEF c, a
  <2>6. r \o c \in Texts /\ Sent(s, f, j + 1) = a \o (r \o c)
    <3>1. (a \o r) \o c = a \o (r \o c)
      BY <2>5, Associative, Zenon
    <3>2. r \o c \in Texts
      BY <2>5, TextsConcatenated, Zenon
    <3> QED
      BY <2>5, <3>1, <3>2
  <2> QED
    BY <2>1, <2>6 DEF a
<1> HIDE DEF A
<1>3. n - m \in A
  <2>1. Nat \subseteq A
    BY <1>1, <1>2, SetInduction
  <2> QED
    BY <2>1
<1>4. m + (n - m) = n
  OBVIOUS
<1> QED
  BY <1>3, <1>4 DEF A

(* The property, for a state of the conversion: half a line end belongs to *)
(* the line end that comes next.                                           *)
LEMMA SentIsPrefix ==
  ASSUME NEW s \in Texts, Clean(s), NEW f \in Nat, NEW m \in Nat, NEW n \in Nat, f <= m, m <= n, n <= Len(s),
         NEW w, w.halfway => AutoEol /\ m < n /\ s[m + 1] = "LF" /\ EolMode = "CRLF"
  PROVE  IsPrefix(Sent(s, f, m) \o Half(w), Sent(s, f, n))
<1>0. Sent(s, f, m) \in Texts /\ <<>> \in Texts /\ <<"CR">> \in Texts /\ <<"LF">> \in Texts
  <2>1. "CR" \in Characters /\ "LF" \in Characters
    BY DEF Characters
  <2> DEFINE C == Characters
  <2> HIDE DEF C
  <2>2. <<"CR">> \in Seq(C) /\ <<"LF">> \in Seq(C) /\ <<>> \in Seq(C)
    BY <2>1 DEF C
  <2> QED
    BY <2>2, SentTypes DEF Texts, C
<1>1. CASE ~w.halfway
  <2>1. Half(w) = <<>> /\ Sent(s, f, m) \o <<>> = Sent(s, f, m)
    BY <1>0, <1>1, Concatenations DEF Half, Texts
  <2>2. PICK r \in Texts : Sent(s, f, n) = Sent(s, f, m) \o r
    BY SentGrows
  <2> QED
    BY <1>0, <2>1, <2>2, TextsConcatenated
<1>2. CASE w.halfway
  <2>0. m < Len(s) /\ m + 1 \in Nat /\ f <= m + 1 /\ m + 1 <= n
    BY <1>2 DEF Texts
  <2>1. Half(w) = <<"CR">> /\ SentChar(s[m + 1]) = <<"CR", "LF">>
    BY <1>2 DEF Half, SentChar, EolSeq
  <2>2. Sent(s, f, m + 1) = Sent(s, f, m) \o <<"CR", "LF">>
    BY <2>0, <2>1, SentNext
  <2>3. PICK r \in Texts : Sent(s, f, n) = Sent(s, f, m + 1) \o r
    BY <2>0, SentGrows
  <2> DEFINE a == Sent(s, f, m)
  <2>4. a \in Texts /\ Sent(s, f, n) = (a \o <<"CR", "LF">>) \o r
    BY <1>0, <2>2, <2>3
  <2> HIDE DEF a
  <2>5. /\ Sent(s, f, n) = (a \o <<"CR">>) \o (<<"LF">> \o r)
        /\ a \o <<"CR">> \in Texts /\ <<"LF">> \o r \in Texts
    BY <2>4, HalvesRegrouped, Zenon
  <2>6. IsPrefix(a \o <<"CR">>, Sent(s, f, n))
    <3> DEFINE x == a \o <<"CR">>
               y == <<"LF">> \o r
    <3>1. x \in Texts /\ y \in Texts /\ Sent(s, f, n) = x \o y
      BY <2>5
    <3> HIDE DEF x, y
    <3>2. IsPrefix(x, Sent(s, f, n))
      BY <3>1, TextsConcatenated
    <3> QED
      BY <3>2 DEF x
  <2> QED
    BY <2>1, <2>6 DEF a
<1> QED
  BY <1>1, <1>2

(* What a character that is no CR makes of a conversion that has not got   *)
(* stuck.                                                                  *)
Grown(s, t, c, bytes) ==
  /\ ~t.stuck /\ t.out = s.out \o bytes /\ t.taken = s.taken + 1
  /\ t.w.halfway = s.w.halfway /\ t.w.seq = s.w.seq /\ t.w.last = c
Refused(s, t) ==
  t.stuck /\ t.out = s.out /\ t.taken = s.taken /\ t.w = s.w
Halved(s, t) ==
  /\ t.stuck /\ t.out = Append(s.out, "CR") /\ t.taken = s.taken
  /\ t.w.halfway /\ t.w.seq = s.w.seq /\ t.w.last = s.w.last

LEMMA ConvertCharSends ==
  ASSUME NEW s \in Conversions, NEW c \in Characters, ~s.stuck, c # "CR", s.w.last # "CR", AutoEol,
         s.w.seq = EolSeq(EolMode)
  PROVE  LET t == ConvertChar(s, c) IN
         \/ Grown(s, t, c, SentChar(c))
         \/ Refused(s, t)
         \/ c = "LF" /\ EolMode = "CRLF" /\ Halved(s, t)
<1> DEFINE C == Characters
           t == ConvertChar(s, c)
           W == [halfway : BOOLEAN, last : C \cup {"none"}, seq : {EolSeq(e) : e \in EolStyles}]
           D == [w : W, out : Seq(C), taken : Nat, room : Nat, stuck : BOOLEAN]
<1>d. D = Conversions
  BY DEF Conversions, Writers, Texts
<1>w. /\ s.w.seq \in Seq(C) /\ Len(s.w.seq) \in 1 .. 2 /\ (Len(s.w.seq) = 2 => EolMode = "CRLF")
      /\ s.out \in Seq(C) /\ s.room \in Nat /\ s.taken \in Nat /\ s.w \in W
  <2>1. Len(s.w.seq) = 2 => EolMode = "CRLF"
    BY DEF EolSeq
  <2> QED
    BY <2>1, EolTypes DEF Conversions, Texts, Writers
<1> HIDE DEF C
<1>s. s \in D
  <2> HIDE DEF D
  <2> QED
    BY <1>d
<1>1. ASSUME NEW bytes, t = After(Take(s, bytes), c) PROVE Grown(s, t, c, bytes)
  <2> DEFINE o == s.out \o bytes
             m == s.room - Len(bytes)
             x == [s EXCEPT !.out = o, !.room = m, !.taken = @ + 1]
  <2>1. x.w = s.w /\ x.taken = s.taken + 1 /\ x.stuck = s.stuck /\ x.out = o
        /\ t = [x EXCEPT !.w.last = c]
    <3> HIDE DEF o, m, t
    <3>1. t = After(x, c)
      BY <1>1 DEF Take, o, m
    <3> QED
      BY <1>s, <3>1 DEF After
  <2> HIDE DEF o, t
  <2>2. t.w.halfway = s.w.halfway /\ t.w.seq = s.w.seq /\ t.w.last = c /\ t.out = o
        /\ t.taken = s.taken + 1 /\ t.stuck = s.stuck
    BY <1>s, <2>1
  <2> QED
    BY <2>2 DEF Grown, o
<1>2. ASSUME t = Stuck(s) PROVE Refused(s, t)
  <2> HIDE DEF t
  <2> QED
    BY <1>s, <1>2 DEF Stuck, Refused
<1>3. ASSUME t = Stuck([s EXCEPT !.out = Append(@, "CR"), !.room = 0, !.w.halfway = TRUE]) PROVE Halved(s, t)
  <2> HIDE DEF t
  <2> QED
    BY <1>s, <1>3 DEF Stuck, Halved
<1>4. CASE c # "LF"
  <2>1. SentChar(c) = <<c>>
    BY <1>4 DEF SentChar
  <2>2. t = IF s.room = 0 THEN Stuck(s) ELSE After(Take(s, <<c>>), c)
    BY <1>4 DEF ConvertChar
  <2>3. CASE s.room = 0
    BY <1>2, <2>2, <2>3
  <2>4. CASE s.room # 0
    <3>1. t = After(Take(s, <<c>>), c)
      BY <2>2, <2>4
    <3> QED
      BY <1>1, <2>1, <3>1
  <2> QED
    BY <2>3, <2>4
<1>5. CASE c = "LF"
  <2>1. SentChar(c) = s.w.seq
    BY <1>5 DEF SentChar
  <2>2. t = ConvertLineEnd(s, c)
    BY <1>5 DEF ConvertChar
  <2> DEFINE n == Len(s.w.seq)
             r == s.room
  <2>3. n \in 1 .. 2 /\ r \in Nat
    BY <1>w
  <2> HIDE DEF n, r
  <2>4. CASE r = 0
    <3>1. ~(r >= n) /\ r \notin 1 .. (n - 1)
      BY <2>3, <2>4
    <3>2. t = Stuck(s)
      BY <2>2, <2>4, <3>1 DEF ConvertLineEnd, r, n
    <3> QED
      BY <1>2, <3>2
  <2>5. CASE r # 0 /\ r \in 1 .. (n - 1)
    <3>1. ~(r >= n) /\ n = 2
      BY <2>3, <2>5
    <3>2. t = Stuck([s EXCEPT !.out = Append(@, "CR"), !.room = 0, !.w.halfway = TRUE])
      BY <2>2, <2>5, <3>1 DEF ConvertLineEnd, r, n
    <3> QED
      BY <1>3, <1>5, <1>w, <3>1, <3>2 DEF n
  <2>6. CASE r \notin 1 .. (n - 1) /\ r # 0 /\ r >= n
    <3>1. t = After(Take(s, s.w.seq), c)
      BY <2>2, <2>6 DEF ConvertLineEnd, r, n
    <3> QED
      BY <1>1, <2>1, <3>1
  <2> QED
    BY <2>3, <2>4, <2>5, <2>6
<1> QED
  BY <1>4, <1>5

(* A conversion, of a text from its p-th character on, that has looked at  *)
(* the first m characters; pre is what has been sent before it.            *)
Sends(pre, s, text, f, p, m) ==
  /\ s \in Conversions /\ s.w.seq = EolSeq(EolMode) /\ s.w.last # "CR"
  /\ pre \o s.out = Sent(text, f, p + s.taken) \o Half(s.w)
  /\ p + s.taken <= m /\ (~s.stuck => p + s.taken = m /\ ~s.w.halfway)
  /\ s.w.halfway => p + s.taken < Len(text) /\ text[p + s.taken + 1] = "LF" /\ EolMode = "CRLF"

LEMMA ConvertCharStep ==
  ASSUME NEW text \in Texts, Clean(text), AutoEol, NEW f \in Nat, NEW p \in Nat, f <= p,
         NEW m \in Nat, p <= m, m < Len(text), NEW pre \in Texts, NEW s, Sends(pre, s, text, f, p, m)
  PROVE  Sends(pre, ConvertChar(s, text[m + 1]), text, f, p, m + 1)
<1> DEFINE c == text[m + 1]
           t == ConvertChar(s, c)
<1>1. c \in Characters /\ c # "CR" /\ Len(text) \in Nat
  <2>1. m + 1 \in 1 .. Len(text) /\ Len(text) \in Nat
    BY DEF Texts
  <2> QED
    BY <2>1 DEF Clean, Texts
<1>2. /\ s \in Conversions /\ s.w.seq = EolSeq(EolMode) /\ s.w.last # "CR"
      /\ pre \o s.out = Sent(text, f, p + s.taken) \o Half(s.w)
      /\ p + s.taken <= m /\ (~s.stuck => p + s.taken = m /\ ~s.w.halfway)
      /\ (s.w.halfway => p + s.taken < Len(text) /\ text[p + s.taken + 1] = "LF" /\ EolMode = "CRLF")
  BY DEF Sends
<1>3. t \in Conversions /\ (s.stuck => t = s)
  BY <1>1, <1>2, ConvertCharTypes
<1>4. s.taken \in Nat /\ s.out \in Texts /\ s.w.halfway \in BOOLEAN
  <2>1. s.w \in Writers
    BY <1>2 DEF Conversions
  <2> QED
    BY <1>2, <2>1 DEF Conversions, Writers
<1>5. CASE s.stuck
  <2>1. t = s
    BY <1>3, <1>5
  <2> HIDE DEF t
  <2>2. p + s.taken <= m + 1
    BY <1>2, <1>4
  <2>3. Sends(pre, s, text, f, p, m + 1)
    BY <1>2, <1>5, <2>2 DEF Sends
  <2> QED
    BY <2>1, <2>3 DEF t
<1>6. CASE ~s.stuck
  <2>0. p + s.taken = m /\ ~s.w.halfway /\ pre \o s.out = Sent(text, f, m)
    <3>1. p + s.taken = m /\ ~s.w.halfway
      BY <1>2, <1>6
    <3>2. Half(s.w) = <<>>
      BY <3>1 DEF Half
    <3>3. Sent(text, f, m) \in Texts
      BY <1>1, SentTypes
    <3> QED
      BY <1>2, <3>1, <3>2, <3>3, TextsConcatenated
  <2>1. \/ Grown(s, t, c, SentChar(c))
        \/ Refused(s, t)
        \/ c = "LF" /\ EolMode = "CRLF" /\ Halved(s, t)
    BY <1>1, <1>2, <1>6, ConvertCharSends
  <2>2. Sent(text, f, m + 1) = Sent(text, f, m) \o SentChar(c) /\ Sent(text, f, m) \in Texts /\ SentChar(c) \in Texts
    BY <1>1, SentNext, SentCharTypes
  <2> HIDE DEF t, c
  <2>3. CASE Grown(s, t, c, SentChar(c))
    <3>1. pre \o t.out = (pre \o s.out) \o SentChar(c)
      <4>1. t.out = s.out \o SentChar(c)
        BY <2>3 DEF Grown
      <4>2. (pre \o s.out) \o SentChar(c) = pre \o (s.out \o SentChar(c))
        BY <1>4, <2>2, Associative, Zenon
      <4> QED
        BY <4>1, <4>2
    <3>2. ~t.w.halfway /\ t.taken = s.taken + 1 /\ p + t.taken = m + 1
      BY <1>4, <2>0, <2>3 DEF Grown
    <3>3. Half(t.w) = <<>> /\ Sent(text, f, m + 1) \o <<>> = Sent(text, f, m + 1)
      <4>1. Sent(text, f, m + 1) \in Texts
        BY <2>2, TextsConcatenated
      <4> QED
        BY <3>2, <4>1, TextsConcatenated DEF Half
    <3>4. pre \o t.out = Sent(text, f, p + t.taken) \o Half(t.w)
      BY <2>0, <2>2, <3>1, <3>2, <3>3
    <3>5. p + t.taken <= m + 1
      BY <3>2
    <3> QED
      BY <1>1, <1>2, <1>3, <2>3, <3>2, <3>4, <3>5 DEF Sends, Grown, c, t
  <2>4. CASE Refused(s, t)
    <3>1. p + t.taken <= m + 1
      BY <2>0, <2>4 DEF Refused
    <3>2. t.stuck /\ t.out = s.out /\ t.taken = s.taken /\ t.w = s.w
      BY <2>4 DEF Refused
    <3>3. Sends(pre, t, text, f, p, m + 1)
      BY <1>2, <1>3, <2>0, <3>1, <3>2 DEF Sends
    <3> QED
      BY <3>3 DEF t, c
  <2>5. CASE c = "LF" /\ EolMode = "CRLF" /\ Halved(s, t)
    <3> DEFINE x == <<"CR">>
    <3>1. Half(t.w) = x /\ t.out = Append(s.out, "CR") /\ x \in Texts /\ "CR" \in Characters
      <4>1. "CR" \in Characters
        BY DEF Characters
      <4> DEFINE C == Characters
      <4> HIDE DEF C
      <4>2. <<"CR">> \in Seq(C)
        BY <4>1 DEF C
      <4> QED
        BY <2>5, <4>1, <4>2 DEF Halved, Half, Texts, C
    <3>2. t.out = s.out \o x
      <4> DEFINE C == Characters
      <4> HIDE DEF C
      <4>1. s.out \in Seq(C) /\ "CR" \in C
        BY <1>4, <3>1 DEF Texts, C
      <4> QED
        BY <3>1, <4>1
    <3> HIDE DEF x
    <3>3. pre \o t.out = (pre \o s.out) \o x
      <4>1. (pre \o s.out) \o x = pre \o (s.out \o x)
        BY <1>4, <3>1, Associative, Zenon
      <4> QED
        BY <3>2, <4>1
    <3>4. p + t.taken = m
      BY <2>0, <2>5 DEF Halved
    <3>5. pre \o t.out = Sent(text, f, p + t.taken) \o Half(t.w)
      BY <2>0, <3>1, <3>3, <3>4
    <3>6. p + t.taken <= m + 1 /\ p + t.taken < Len(text) /\ text[p + t.taken + 1] = "LF"
      BY <2>5, <3>4 DEF c
    <3>7. t.stuck /\ t.w.seq = s.w.seq /\ t.w.last = s.w.last
      BY <2>5 DEF Halved
    <3>8. Sends(pre, t, text, f, p, m + 1)
      BY <1>2, <1>3, <2>5, <3>5, <3>6, <3>7 DEF Sends
    <3> QED
      BY <3>8 DEF t, c
  <2> QED
    BY <2>1, <2>3, <2>4, <2>5 DEF t, c
<1> QED
  BY <1>5, <1>6

LEMMA ConvertAllSends ==
  ASSUME NEW text \in Texts, Clean(text), AutoEol, NEW f \in Nat, NEW p \in Nat, f <= p,
         NEW m \in Nat, NEW e \in Nat, p <= m, m <= e, e <= Len(text),
         NEW pre \in Texts, NEW s, Sends(pre, s, text, f, p, m)
  PROVE  Sends(pre, ConvertAll(s, SubSeq(text, m + 1, e)), text, f, p, e)
<1> DEFINE part == SubSeq(text, m + 1, e)
           L == e - m
<1>0. Len(text) \in Nat /\ L \in Nat /\ m + L = e
  BY DEF Texts
<1>1. part \in Texts /\ Len(part) = L /\ \A k \in 1 .. L : part[k] = text[m + k]
  <2> DEFINE C == Characters
  <2> HIDE DEF C
  <2>1. text \in Seq(C)
    BY DEF Texts, C
  <2>2. part \in Seq(C) /\ Len(part) = L /\ \A k \in 1 .. L : part[k] = text[m + k]
    BY <1>0, <2>1
  <2> QED
    BY <2>2 DEF Texts, C
<1>2. s \in Conversions
  BY DEF Sends
<1> HIDE DEF part
<1>3. PICK g : Stages(g, s, part)
  BY <1>1, <1>2, ConvertAllStages
<1>4. g[0] = s /\ g[L] = ConvertAll(s, part) /\ \A k \in 1 .. L : g[k] = ConvertChar(g[k - 1], part[k])
  BY <1>1, <1>3 DEF Stages
<1> HIDE DEF L
<1> DEFINE S == {k \in Nat : k <= L => Sends(pre, g[k], text, f, p, m + k)}
<1>5. 0 \in S
  <2>1. m + 0 = m
    OBVIOUS
  <2> QED
    BY <1>4, <2>1
<1>6. ASSUME NEW k \in Nat, k \in S PROVE k + 1 \in S
  <2> SUFFICES ASSUME k + 1 <= L PROVE Sends(pre, g[k + 1], text, f, p, m + (k + 1))
    OBVIOUS
  <2>1. k + 1 \in 1 .. L /\ (k + 1) - 1 = k /\ k <= L /\ m + (k + 1) = (m + k) + 1
    BY <1>0
  <2>2. m + k \in Nat /\ p <= m + k /\ m + k < Len(text)
    BY <1>0, <2>1
  <2>3. Sends(pre, g[k], text, f, p, m + k)
    BY <1>6, <2>1
  <2>4. Sends(pre, ConvertChar(g[k], text[(m + k) + 1]), text, f, p, (m + k) + 1)
    BY <2>2, <2>3, ConvertCharStep
  <2>5. g[k + 1] = ConvertChar(g[k], text[(m + k) + 1])
    BY <1>1, <1>4, <2>1
  <2> QED
    BY <2>1, <2>4, <2>5
<1> HIDE DEF S
<1>7. L \in S
  <2>1. Nat \subseteq S
    BY <1>5, <1>6, SetInduction
  <2> QED
    BY <1>0, <2>1
<1>8. L <= L
  BY <1>0
<1>9. Sends(pre, g[L], text, f, p, m + L)
  BY <1>7, <1>8 DEF S
<1> QED
  BY <1>0, <1>4, <1>9 DEF part

(* Whatever there is room for: what has been sent and what is sent now is  *)
(* what stands for the text up to where the conversion got to.             *)
Continues(c, text, f, p, w) ==
  /\ c.w.seq = EolSeq(EolMode) /\ c.w.last # "CR"
  /\ (Sent(text, f, p) \o Half(w)) \o c.out = Sent(text, f, p + c.taken) \o Half(c.w)
  /\ c.w.halfway => text[p + c.taken + 1] = "LF" /\ EolMode = "CRLF"

LEMMA ConvertSends ==
  ASSUME NEW text \in Texts, Clean(text), NEW f \in Nat, NEW p \in Nat, NEW e \in Nat,
         f <= p, p <= e, e <= Len(text), NEW room \in Nat,
         NEW w \in Writers, w.seq = EolSeq(EolMode), w.last # "CR",
         w.halfway => AutoEol /\ p < e /\ text[p + 1] = "LF" /\ EolMode = "CRLF"
  PROVE  Continues(Convert(w, SubSeq(text, p + 1, e), room), text, f, p, w)
<1> DEFINE part == SubSeq(text, p + 1, e)
           c == Convert(w, part, room)
           s == Conversion(w, room)
           pre == Sent(text, f, p) \o Half(w)
<1> SUFFICES /\ c.w.seq = EolSeq(EolMode) /\ c.w.last # "CR"
             /\ (Sent(text, f, p) \o Half(w)) \o c.out = Sent(text, f, p + c.taken) \o Half(c.w)
             /\ c.w.halfway => text[p + c.taken + 1] = "LF" /\ EolMode = "CRLF"
  BY Zenon DEF Continues
<1>0. /\ Len(text) \in Nat /\ e - p \in Nat /\ w.halfway \in BOOLEAN /\ Sent(text, f, p) \in Texts
  <2>1. Len(text) \in Nat /\ p <= Len(text)
    BY DEF Texts
  <2> QED
    BY <2>1, SentTypes DEF Writers
<1>1. part \in Texts /\ Len(part) = e - p
  <2> DEFINE C == Characters
  <2> HIDE DEF C
  <2>1. text \in Seq(C)
    BY DEF Texts, C
  <2> QED
    BY <1>0, <2>1 DEF Texts, C
<1>2. s \in Conversions /\ s.w = w /\ s.taken = 0 /\ ~s.stuck /\ s.room = room /\ s.out = <<>>
  BY DEF Conversion, Conversions, Texts
<1>3. pre \in Texts /\ Half(w) \in Texts /\ <<"CR">> \in Texts /\ <<"LF">> \in Texts
  <2> DEFINE C == Characters
  <2>1. "CR" \in C /\ "LF" \in C
    BY DEF Characters
  <2> HIDE DEF C
  <2>2. <<"CR">> \in Seq(C) /\ <<"LF">> \in Seq(C) /\ <<>> \in Seq(C)
    BY <2>1
  <2>3. <<"CR">> \in Texts /\ <<"LF">> \in Texts /\ <<>> \in Texts
    BY <2>2 DEF Texts, C
  <2>4. Half(w) \in Texts
    BY <2>3 DEF Half
  <2> QED
    BY <1>0, <2>3, <2>4, TextsConcatenated
<1> HIDE DEF part
<1>4. CASE ~AutoEol
  <2> DEFINE N == Len(part)
             n == IF N < room THEN N ELSE room
             o == SubSeq(part, 1, n)
  <2>1. n \in 0 .. (e - p)
    BY <1>0, <1>1
  <2> HIDE DEF n
  <2>2. c = [s EXCEPT !.out = o, !.taken = n]
    BY <1>4 DEF Convert, n
  <2> HIDE DEF o, c, s
  <2>3. c.w = w /\ c.out = o /\ c.taken = n
    BY <1>2, <2>2 DEF Conversions
  <2>4. ~w.halfway /\ Half(w) = <<>>
    BY <1>4 DEF Half
  <2>5. SubSeq(text, f + 1, p) \o o = SubSeq(text, f + 1, p + n)
    <3> DEFINE C == Characters
    <3> HIDE DEF C
    <3>1. text \in Seq(C) /\ n \in Nat /\ p + n <= e /\ p + n <= Len(text)
      BY <1>0, <2>1 DEF Texts, C
    <3>2. o = SubSeq(text, p + 1, p + n)
      BY <1>0, <2>1, <3>1 DEF o, part
    <3> QED
      BY <3>1, <3>2
  <2>6. pre \o c.out = Sent(text, f, p + n)
    <3>1. pre = SubSeq(text, f + 1, p)
      BY <1>0, <1>4, <2>4, TextsConcatenated DEF Sent
    <3> QED
      BY <1>4, <2>3, <2>5, <3>1 DEF Sent
  <2>7. Sent(text, f, p + n) \in Texts
    <3>1. p + n \in Nat /\ f <= p + n /\ p + n <= Len(text)
      BY <1>0, <2>1
    <3> QED
      BY <3>1, SentTypes
  <2>8. Sent(text, f, p + n) \o Half(c.w) = Sent(text, f, p + n)
    BY <2>3, <2>4, <2>7, TextsConcatenated
  <2> QED
    BY <2>3, <2>4, <2>6, <2>8 DEF c, part
<1>5. ASSUME NEW m \in Nat, p <= m, m <= e, NEW x, Sends(pre, x, text, f, p, m), AutoEol,
             c = ConvertAll(x, SubSeq(text, m + 1, e))
      PROVE  /\ c.w.seq = EolSeq(EolMode) /\ c.w.last # "CR"
             /\ pre \o c.out = Sent(text, f, p + c.taken) \o Half(c.w)
             /\ c.w.halfway => text[p + c.taken + 1] = "LF" /\ EolMode = "CRLF"
  <2> HIDE DEF pre, c
  <2>1. Sends(pre, c, text, f, p, e)
    BY <1>3, <1>5, ConvertAllSends
  <2> QED
    BY <2>1 DEF Sends
<1>6. CASE AutoEol /\ ~w.halfway
  <2>1. c = ConvertAll(s, part)
    BY <1>6 DEF Convert
  <2>2. p + 0 = p /\ p <= p
    OBVIOUS
  <2>3. Sends(pre, s, text, f, p, p)
    <3>1. pre \o <<>> = pre
      BY <1>3, TextsConcatenated
    <3> HIDE DEF s
    <3> QED
      BY <1>2, <1>6, <2>2, <3>1 DEF Sends
  <2> HIDE DEF c, s, pre
  <2> QED
    BY <1>5, <1>6, <2>1, <2>2, <2>3 DEF c, part, pre
<1>7. CASE AutoEol /\ w.halfway
  <2> DEFINE x == Complete(s)
  <2>1. Tail(part) = SubSeq(text, (p + 1) + 1, e)
    <3> DEFINE C == Characters
    <3> HIDE DEF C
    <3>1. text \in Seq(C) /\ p < e
      BY <1>7 DEF Texts, C
    <3> QED
      BY <1>0, <3>1 DEF part
  <2>2. c = ConvertAll(x, Tail(part))
    BY <1>7 DEF Convert
  <2>3. Half(w) = <<"CR">>
    BY <1>7 DEF Half
  <2>4. Sends(pre, x, text, f, p, p + 1)
    <3>1. CASE room = 0
      <4>1. x = Stuck(s)
        BY <1>2, <3>1 DEF Complete
      <4>2. Stuck(s) \in Conversions /\ Stuck(s).taken = 0 /\ Stuck(s).stuck /\ Stuck(s).w = w /\ Stuck(s).out = <<>>
        BY <1>2 DEF Stuck, Conversions
      <4>3. pre \o <<>> = pre /\ p + 0 = p /\ p <= p + 1
        BY <1>3, TextsConcatenated
      <4> HIDE DEF x, s
      <4> QED
        BY <1>0, <1>7, <4>1, <4>2, <4>3 DEF Sends
    <3>2. CASE room # 0
      <4> DEFINE v == [w EXCEPT !.halfway = FALSE]
                 k == [s EXCEPT !.w.halfway = FALSE]
                 o == k.out \o <<"LF">>
                 j == k.room - Len(<<"LF">>)
                 d == k.taken + 1
      <4>1. x = [k EXCEPT !.out = o, !.room = j, !.taken = d]
        <5>1. x = Take(k, <<"LF">>)
          BY <1>2, <3>2 DEF Complete
        <5> QED
          BY <5>1 DEF Take
      <4>2. k \in Conversions /\ k.w = v /\ ~k.stuck /\ k.taken = 0 /\ k.room = room /\ k.out = <<>>
        <5>1. v \in Writers
          BY DEF Writers
        <5>2. k = [s EXCEPT !.w = v]
          BY <1>2
        <5> HIDE DEF v, s, k
        <5> QED
          BY <1>2, <5>1, <5>2 DEF Conversions
      <4>3. ~v.halfway /\ v.seq = w.seq /\ v.last = w.last
        BY DEF Writers
      <4> HIDE DEF k, v
      <4>4. o = <<"LF">> /\ j \in Nat /\ d = 1
        <5>1. <<>> \o <<"LF">> = <<"LF">> /\ Len(<<"LF">>) = 1
          BY <1>3, TextsConcatenated
        <5> QED
          BY <3>2, <4>2, <5>1
      <4> HIDE DEF o, j, d, x
      <4>5. x \in Conversions /\ x.taken = 1 /\ ~x.stuck /\ x.w = v /\ x.out = <<"LF">>
        BY <1>3, <4>1, <4>2, <4>4 DEF Conversions
      <4>6. pre \o <<"LF">> = Sent(text, f, p + 1) \o Half(v)
        <5> DEFINE a == Sent(text, f, p)
                   y == <<"CR">>
                   z == <<"LF">>
        <5>1. <<"CR", "LF">> = y \o z
          OBVIOUS
        <5>2. Sent(text, f, p + 1) = a \o <<"CR", "LF">>
          <6>1. SentChar(text[p + 1]) = <<"CR", "LF">>
            BY <1>7 DEF SentChar, EolSeq
          <6>2. p < Len(text)
            BY <1>0, <1>7
          <6>3. Sent(text, f, p + 1) = Sent(text, f, p) \o SentChar(text[p + 1])
            BY <6>2, SentNext
          <6> QED
            BY <6>1, <6>3
        <5>3. a \in Texts /\ y \in Texts /\ z \in Texts
          BY <1>0, <1>3
        <5>4. pre = a \o y
          BY <2>3
        <5> HIDE DEF a, y, z, pre
        <5>5. (a \o y) \o z = a \o (y \o z)
          BY <5>3, Associative, Zenon
        <5>6. pre \o z = Sent(text, f, p + 1)
          BY <5>1, <5>2, <5>4, <5>5
        <5>7. Half(v) = <<>>
          BY <4>3 DEF Half
        <5>8. Sent(text, f, p + 1) \in Texts
          <6>1. y \o z \in Texts
            BY <5>3, TextsConcatenated
          <6>2. a \o (y \o z) \in Texts
            BY <5>3, <6>1, TextsConcatenated
          <6>3. Sent(text, f, p + 1) = a \o (y \o z)
            BY <5>1, <5>2
          <6> QED
            BY <6>2, <6>3
        <5>9. Sent(text, f, p + 1) \o <<>> = Sent(text, f, p + 1)
          BY <5>8, TextsConcatenated
        <5> QED
          BY <5>6, <5>7, <5>9 DEF z
      <4>7. p + 1 <= p + 1
        OBVIOUS
      <4> HIDE DEF pre
      <4> QED
        BY <4>3, <4>5, <4>6, <4>7 DEF Sends
    <3> QED
      BY <3>1, <3>2
  <2>5. p + 1 \in Nat /\ p <= p + 1 /\ p + 1 <= e
    BY <1>7
  <2> HIDE DEF x, c, s, pre
  <2> QED
    BY <1>5, <1>7, <2>1, <2>2, <2>4, <2>5 DEF c, part, pre
<1> QED
  BY <1>4, <1>6, <1>7, AutoEolAssumption

LEMMA CleanTexts ==
  ASSUME NEW text \in Texts, NEW new \in Texts, Clean(text), Clean(new),
         NEW from \in Nat, NEW to \in Nat, from <= to, to <= Len(text)
  PROVE  Clean(Replace(text, from, to, new))
<1> SUFFICES ASSUME AutoEol PROVE \A i \in DOMAIN Replace(text, from, to, new) : Replace(text, from, to, new)[i] # "CR"
  BY DEF Clean
<1> DEFINE D == Characters \ {"CR"}
           front == SubSeq(text, 1, from)
           back == SubSeq(text, to + 1, Len(text))
           m == front \o new
           r == m \o back
<1>1. \A t \in Texts : Clean(t) => t \in Seq(D)
  <2> SUFFICES ASSUME NEW t \in Texts, Clean(t) PROVE t \in Seq(D)
    OBVIOUS
  <2> DEFINE C == Characters
  <2>1. \A i \in 1 .. Len(t) : t[i] \in D
    BY DEF Clean, Texts
  <2> HIDE DEF D, C
  <2>2. t \in Seq(C)
    BY DEF Texts, C
  <2> QED
    BY <2>1, <2>2
<1>2. \A x \in D : x # "CR"
  OBVIOUS
<1> HIDE DEF D
<1>3. text \in Seq(D) /\ new \in Seq(D)
  BY <1>1
<1>4. front \in Seq(D) /\ back \in Seq(D)
  BY <1>3
<1> HIDE DEF front, back
<1>5. m \in Seq(D)
  BY <1>3, <1>4
<1> HIDE DEF m
<1>6. r \in Seq(D)
  BY <1>4, <1>5
<1> HIDE DEF r
<1>7. Replace(text, from, to, new) = r
  BY DEF Replace, r, m, front, back
<1>8. \A i \in DOMAIN r : r[i] \in D
  BY <1>6
<1> QED
  BY <1>2, <1>7, <1>8

(* Output that is translated has no CRs either.                            *)
LEMMA CleanPiece == ASSUME NEW r PROVE Clean(Piece(r))
<1>1. ASSUME AutoEol, NEW i \in DOMAIN Piece(r) PROVE Piece(r)[i] # "CR"
  <2>1. i \in 1 .. r.piece /\ Piece(r)[i] = IF AutoEol /\ r.block[r.off + i] = "CR" THEN "LF" ELSE r.block[r.off + i]
    BY <1>1 DEF Piece
  <2> QED
    BY <1>1, <2>1
<1> QED
  BY <1>1 DEF Clean

(* A step that leaves alone what is sent, and does not start the process.  *)
LEMMA UnmovedStep ==
  ASSUME Fed, before' = before, Clean(doc'.text),
         loop' = "reaping" => ~Alive' /\ spawn'.error = "none",
         spawn'.from = spawn.from, spawn'.to = spawn.to, spawn'.start = spawn.start,
         spawn'.writer = spawn.writer,
         Alive' => Alive, process'.read = process.read, process'.eof = process.eof,
         pipes'.in = pipes.in, pipes'.buffer = pipes.buffer, pipes'.open = pipes.open,
         loop' = "flushing" => loop = "flushing",
         Running' /\ spawn'.error = "none" =>
           Running /\ spawn.error = "none" /\ (spawn'.quit => spawn.quit \/ ~Alive)
  PROVE  Fed'
<1>1. Clean(doc.text)' /\ Clean(before.doc.text)'
  BY DEF Fed, Clean
<1>2. ASSUME Running', spawn'.error = "none" PROVE Arrived'
  <2>1. Arrived /\ (spawn'.quit => spawn.quit \/ ~Alive)
    BY <1>2 DEF Fed
  <2> QED
    BY <2>1 DEF Arrived, Sent, Half
<1> QED
  BY <1>1, <1>2 DEF Fed

(* After a step that ends a command only the texts count.                  *)
LEMMA EndedStep ==
  ASSUME Clean(doc'.text), Clean(before'.doc.text), loop' = "idle"
  PROVE  Fed'
<1>1. Clean(doc.text)' /\ Clean(before.doc.text)'
  BY DEF Clean
<1> QED
  BY <1>1 DEF Fed, Running

-----------------------------------------------------------------------------
(* The steps.                                                              *)

(* What the invariant for the tokens says of the text that is sent.        *)
LEMMA Piped ==
  ASSUME IInv, Running
  PROVE  /\ before.doc.text \in Texts /\ doc.text \in Texts
         /\ spawn.from \in Nat /\ spawn.start \in Nat /\ spawn.to \in Nat
         /\ spawn.from <= spawn.start /\ spawn.start <= spawn.to /\ spawn.to <= Len(before.doc.text)
         /\ spawn.writer \in Writers /\ (spawn.writer.halfway => AutoEol /\ spawn.start < spawn.to)
         /\ SubSeq(doc.text, 1, spawn.to) = SubSeq(before.doc.text, 1, spawn.to)
         /\ spawn.to <= Len(doc.text)
<1>1. /\ doc \in Docs /\ before \in [doc : Docs, reg : Regs, target : {"none", "q"}] /\ spawn \in Contexts
      /\ doc.dot <= Len(doc.text)
  BY DEF IInv, TypeOK
<1>2. /\ before.doc.text \in Texts /\ doc.text \in Texts /\ doc.dot \in Nat
      /\ spawn.from \in Int /\ spawn.start \in Int /\ spawn.to \in Int /\ spawn.writer \in Writers
  BY <1>1 DEF Docs, Contexts
<1>3. Len(doc.text) \in Nat /\ Len(before.doc.text) \in Nat
  BY <1>2 DEF Texts
<1>4. InText /\ IF spawn.argument = "none" THEN OnDocument ELSE OnRegister
  BY DEF IInv, Busy
<1>5. /\ SubSeq(doc.text, 1, spawn.to) = SubSeq(before.doc.text, 1, spawn.to)
      /\ spawn.to <= doc.dot \/ doc = before.doc
  BY <1>4 DEF OnDocument, OnRegister
<1>6. /\ 0 <= spawn.from /\ spawn.from <= spawn.start /\ spawn.start <= spawn.to
      /\ spawn.to <= Len(before.doc.text)
      /\ (spawn.writer.halfway => AutoEol /\ spawn.start < spawn.to)
  BY <1>4 DEF InText
<1> QED
  BY <1>1, <1>2, <1>3, <1>5, <1>6

LEMMA HeadMoves ==
  ASSUME NEW T, NEW s \in Seq(T), NEW t \in Seq(T), t # <<>>
  PROVE  Append(s, Head(t)) \o Tail(t) = s \o t
<1> DEFINE a == Append(s, Head(t))
           b == Tail(t)
           u == a \o b
           v == s \o t
           N == Len(s)
           M == Len(t)
<1>1. /\ a \in Seq(T) /\ Len(a) = N + 1 /\ a[N + 1] = t[1] /\ \A i \in 1 .. N : a[i] = s[i]
      /\ b \in Seq(T) /\ Len(b) = M - 1 /\ \A i \in 1 .. (M - 1) : b[i] = t[i + 1]
      /\ N \in Nat /\ M \in Nat /\ M # 0
  OBVIOUS
<1> HIDE DEF a, b
<1>2. /\ u \in Seq(T) /\ Len(u) = N + M /\ \A i \in 1 .. (N + 1) : u[i] = a[i]
      /\ \A i \in 1 .. (M - 1) : u[(N + 1) + i] = b[i]
  <2>1. /\ u \in Seq(T) /\ Len(u) = Len(a) + Len(b) /\ \A i \in 1 .. Len(a) : u[i] = a[i]
        /\ \A i \in 1 .. Len(b) : u[Len(a) + i] = b[i]
    <3>1. a \in Seq(T) /\ b \in Seq(T)
      BY <1>1
    <3> QED
      BY <3>1, Concatenated
  <2> HIDE DEF u
  <2> QED
    BY <1>1, <2>1
<1>3. /\ v \in Seq(T) /\ Len(v) = N + M /\ \A i \in 1 .. N : v[i] = s[i]
      /\ \A i \in 1 .. M : v[N + i] = t[i]
  BY Concatenated
<1> HIDE DEF u, v, N, M
<1>4. \A i \in 1 .. (N + M) : u[i] = v[i]
  <2> SUFFICES ASSUME NEW i \in 1 .. (N + M) PROVE u[i] = v[i]
    OBVIOUS
  <2>1. CASE i \in 1 .. N
    <3>1. i \in 1 .. (N + 1)
      BY <1>1, <2>1
    <3> QED
      BY <1>1, <1>2, <1>3, <2>1, <3>1
  <2>2. CASE i = N + 1
    <3>1. 1 \in 1 .. M /\ i \in 1 .. (N + 1)
      BY <1>1, <2>2
    <3> QED
      BY <1>1, <1>2, <1>3, <2>2, <3>1
  <2>3. CASE i > N + 1
    <3> DEFINE j == i - (N + 1)
    <3>1. j \in 1 .. (M - 1) /\ (N + 1) + j = i /\ j + 1 \in 1 .. M /\ N + (j + 1) = i
      BY <1>1, <2>3
    <3> HIDE DEF j
    <3>2. u[i] = b[j]
      BY <1>2, <3>1
    <3>3. b[j] = t[j + 1]
      BY <1>1, <3>1
    <3>4. v[i] = t[j + 1]
      BY <1>3, <3>1
    <3> QED
      BY <3>2, <3>3, <3>4
  <2> QED
    BY <1>1, <2>1, <2>2, <2>3
<1>5. u = v
  <2>1. u = [i \in 1 .. (N + M) |-> u[i]] /\ v = [i \in 1 .. (N + M) |-> v[i]]
    BY <1>2, <1>3
  <2> QED
    BY <1>4, <2>1
<1> QED
  BY <1>5 DEF u, v, a, b

LEMMA ProcessReadsFed == ASSUME IInv, Fed, ProcessReads PROVE Fed'
<1>0. /\ UNCHANGED <<doc, reg, spawn, loop, interrupted, tokens, result, before, count>> /\ Alive
      /\ process \in Processes /\ pipes \in Pipes
  BY BytesOnTheirWay DEF ProcessReads, unchangedEditor
<1>1. Clean(doc.text)' /\ Clean(before.doc.text)' /\ loop' # "reaping"
  BY <1>0 DEF Fed, Clean
<1>2. CASE /\ pipes.in # <<>>
           /\ process' = [process EXCEPT !.read = Append(@, Head(pipes.in))]
           /\ pipes' = [pipes EXCEPT !.in = Tail(@)]
  <2> DEFINE x == Append(process.read, Head(pipes.in))
             y == Tail(pipes.in)
  <2>1. process' = [process EXCEPT !.read = x] /\ pipes' = [pipes EXCEPT !.in = y]
    BY <1>2
  <2>2. x \o y = process.read \o pipes.in
    <3> DEFINE C == Characters
    <3> HIDE DEF C
    <3>1. process.read \in Seq(C) /\ pipes.in \in Seq(C) /\ pipes.in # <<>>
      BY <1>0, <1>2 DEF Processes, Pipes, Texts, C
    <3> QED
      BY <3>1, HeadMoves
  <2> HIDE DEF x, y
  <2>3. /\ process'.read = x /\ process'.status = process.status /\ process'.eof = process.eof
        /\ pipes'.in = y /\ pipes'.buffer = pipes.buffer /\ pipes'.open = pipes.open
    BY <1>0, <2>1 DEF Processes, Pipes
  <2>4. ASSUME Running', spawn'.error = "none" PROVE Arrived'
    <3>1. Arrived
      BY <1>0, <2>4 DEF Fed, Running
    <3>2. ~process.eof
      BY <1>2, <3>1 DEF Arrived
    <3>3. process'.read \o pipes'.in \o pipes'.buffer = process.read \o pipes.in \o pipes.buffer
      BY <2>2, <2>3
    <3>4. Alive' = Alive
      BY <2>3 DEF Alive
    <3> QED
      BY <1>0, <2>3, <3>1, <3>2, <3>3, <3>4 DEF Arrived, Sent, Half
  <2> QED
    BY <1>1, <2>4 DEF Fed
<1>3. CASE /\ pipes.in = <<>> /\ ~pipes.open /\ ~process.eof
           /\ process' = [process EXCEPT !.eof = TRUE]
           /\ UNCHANGED pipes
  <2>1. process'.read = process.read /\ process'.status = process.status
    BY <1>0, <1>3 DEF Processes
  <2>2. Alive' = Alive
    BY <2>1 DEF Alive
  <2>3. ASSUME Running', spawn'.error = "none" PROVE Arrived'
    <3>1. Arrived /\ Running
      BY <1>0, <2>3 DEF Fed, Running
    <3>2. /\ process.read \o pipes.in \o pipes.buffer
               = Sent(before.doc.text, spawn.from, spawn.start) \o Half(spawn.writer)
          /\ spawn.start = spawn.to /\ pipes.buffer = <<>> /\ pipes.in = <<>>
      BY <1>0, <1>3, <3>1 DEF Arrived
    <3>3. /\ Half(spawn.writer) = <<>> /\ Sent(before.doc.text, spawn.from, spawn.to) \in Texts
          /\ process.read \in Texts
      <4>1. ~spawn.writer.halfway
        BY <3>1, <3>2, Piped
      <4>2. Clean(before.doc.text)
        BY DEF Fed
      <4>3. Sent(before.doc.text, spawn.from, spawn.to) \in Texts
        BY <3>1, <4>2, Piped, SentTypes
      <4> QED
        BY <1>0, <4>1, <4>3 DEF Half, Processes
    <3>4. process.read = Sent(before.doc.text, spawn.from, spawn.to)
      BY <3>2, <3>3, TextsConcatenated
    <3>5. process'.read = Sent(before.doc.text, spawn.from, spawn.to)'
      BY <1>0, <2>1, <3>4 DEF Sent
    <3> QED
      BY <1>0, <1>3, <2>1, <2>2, <3>1, <3>5 DEF Arrived, Sent, Half
  <2> QED
    BY <1>1, <2>3 DEF Fed
<1> QED
  BY <1>2, <1>3 DEF ProcessReads

LEMMA ProcessWritesFed == ASSUME IInv, Fed, ProcessWrites PROVE Fed'
<1>0. /\ UNCHANGED <<doc, reg, spawn, loop, interrupted, tokens, result, before, count>>
      /\ process \in Processes /\ pipes \in Pipes
  BY BytesOnTheirWay DEF ProcessWrites, unchangedEditor
<1>1. /\ process'.read = process.read /\ process'.status = process.status /\ process'.eof = process.eof
      /\ pipes'.in = pipes.in /\ pipes'.buffer = pipes.buffer /\ pipes'.open = pipes.open
  <2>1. PICK bytes \in Chunks :
          /\ process' = [process EXCEPT !.written = @ \o bytes] /\ pipes' = [pipes EXCEPT !.out = @ \o bytes]
    BY DEF ProcessWrites
  <2> QED
    BY <1>0, <2>1 DEF Processes, Pipes
<1>2. Alive' = Alive /\ Running' = Running
  BY <1>0, <1>1 DEF Alive, Running
<1> QED
  BY <1>0, <1>1, <1>2, UnmovedStep DEF Fed

LEMMA ProcessExitsFed == ASSUME IInv, Fed, ProcessExits PROVE Fed'
<1>0. /\ UNCHANGED <<doc, reg, spawn, loop, interrupted, tokens, result, before, count>>
      /\ process \in Processes /\ UNCHANGED pipes
  BY BytesOnTheirWay DEF ProcessExits, unchangedEditor
<1>1. process'.read = process.read /\ process'.status # "running" /\ process'.eof = process.eof
  <2>1. \/ process' = [process EXCEPT !.status = "exited"]
        \/ process' = [process EXCEPT !.status = "failed"]
    BY DEF ProcessExits
  <2> QED
    BY <1>0, <2>1 DEF Processes
<1>2. ~Alive' /\ Running' = Running
  BY <1>0, <1>1 DEF Alive, Running
<1> QED
  BY <1>0, <1>1, <1>2, UnmovedStep DEF Fed

LEMMA FlushFed == ASSUME IInv, Fed, Flush PROVE Fed'
<1>0. /\ UNCHANGED <<doc, reg, spawn, process, interrupted, tokens, result, before, count>>
      /\ pipes.open /\ loop \in {"flushing", "running"} /\ (loop = "flushing" \/ spawn.quit)
      /\ loop' \in {"running", loop}
      /\ process \in Processes /\ pipes \in Pipes
  BY BytesOnTheirWay DEF Flush, unchangedCommand
<1>1. Clean(doc.text)' /\ Clean(before.doc.text)' /\ loop' # "reaping"
  BY <1>0 DEF Fed, Clean
<1>2. Alive' = Alive /\ (Alive => ~Broken)
  BY <1>0 DEF Alive, Dead, Broken
<1>3. ASSUME Running', spawn'.error = "none" PROVE Arrived'
  <2>1. Arrived /\ Running
    BY <1>0, <1>3 DEF Fed, Running
  <2>2. CASE /\ pipes.buffer # <<>>
             /\ pipes' = [pipes EXCEPT !.in = Append(@, Head(pipes.buffer)), !.buffer = Tail(@)]
             /\ UNCHANGED loop
    <3> DEFINE x == Append(pipes.in, Head(pipes.buffer))
               y == Tail(pipes.buffer)
    <3>1. pipes' = [pipes EXCEPT !.in = x, !.buffer = y]
      BY <2>2
    <3>2. (process.read \o x) \o y = (process.read \o pipes.in) \o pipes.buffer
      <4> DEFINE C == Characters
      <4> HIDE DEF C
      <4>1. process.read \in Seq(C) /\ pipes.in \in Seq(C) /\ pipes.buffer \in Seq(C) /\ pipes.buffer # <<>>
        BY <1>0, <2>2 DEF Processes, Pipes, Texts, C
      <4>2. x \o y = pipes.in \o pipes.buffer
        BY <4>1, HeadMoves
      <4>3. x \in Seq(C) /\ y \in Seq(C)
        BY <4>1
      <4> DEFINE d == process.read
                 a == pipes.in
                 b == pipes.buffer
      <4>4. d \in Texts /\ a \in Texts /\ b \in Texts /\ x \in Texts /\ y \in Texts /\ x \o y = a \o b
        BY <4>1, <4>2, <4>3 DEF Texts, C
      <4> HIDE DEF x, y, d, a, b
      <4>5. (d \o x) \o y = (d \o a) \o b
        <5>1. d \in Texts /\ x \in Texts /\ y \in Texts
          BY <4>4
        <5>2. (d \o x) \o y = d \o (x \o y)
          BY <5>1, Associative
        <5>3. d \in Texts /\ a \in Texts /\ b \in Texts
          BY <4>4
        <5>4. (d \o a) \o b = d \o (a \o b)
          BY <5>3, Associative
        <5> QED
          BY <4>4, <5>2, <5>4, Zenon
      <4> QED
        BY <4>5 DEF d, a, b
    <3> HIDE DEF x, y
    <3>3. pipes'.in = x /\ pipes'.buffer = y /\ pipes'.open = pipes.open
      BY <1>0, <3>1 DEF Pipes
    <3>4. ~process.eof
      BY <1>0, <2>1 DEF Arrived
    <3>5. (process'.read \o pipes'.in) \o pipes'.buffer = (process.read \o pipes.in) \o pipes.buffer
      BY <1>0, <3>2, <3>3
    <3> QED
      BY <1>0, <1>2, <2>1, <2>2, <3>3, <3>4, <3>5 DEF Arrived, Sent, Half
  <2>3. CASE /\ pipes.buffer = <<>> \/ Broken
             /\ pipes' = [pipes EXCEPT !.open = FALSE, !.buffer = <<>>]
             /\ loop' = "running"
    <3>1. pipes'.in = pipes.in /\ pipes'.buffer = <<>> /\ pipes'.open = FALSE
      BY <1>0, <2>3 DEF Pipes
    <3>2. Alive => pipes'.buffer = pipes.buffer
      BY <1>2, <2>3, <3>1
    <3>3. Alive => spawn.start = spawn.to
      BY <1>0, <2>1 DEF Arrived
    <3>4. ~process.eof
      BY <1>0, <2>1 DEF Arrived
    <3> QED
      BY <1>0, <1>2, <2>1, <2>3, <3>1, <3>2, <3>3, <3>4 DEF Arrived, Sent, Half
  <2> QED
    BY <2>2, <2>3 DEF Flush
<1> QED
  BY <1>1, <1>3 DEF Fed

LEMMA SamePart ==
  ASSUME NEW T, NEW s \in Seq(T), NEW t \in Seq(T), NEW k \in Nat, k <= Len(s), k <= Len(t),
         SubSeq(s, 1, k) = SubSeq(t, 1, k), NEW p \in Nat, NEW e \in Nat, p <= e, e <= k
  PROVE  SubSeq(s, p + 1, e) = SubSeq(t, p + 1, e)
<1>1. \A i \in 1 .. k : s[i] = t[i]
  <2>1. \A i \in 1 .. k : SubSeq(s, 1, k)[i] = s[i] /\ SubSeq(t, 1, k)[i] = t[i]
    OBVIOUS
  <2> QED
    BY <2>1
<1> DEFINE u == SubSeq(s, p + 1, e)
           v == SubSeq(t, p + 1, e)
           d == e - p
<1>2. d \in Nat /\ \A i \in 1 .. d : p + i \in 1 .. k
  OBVIOUS
<1>3. u = [i \in 1 .. d |-> u[i]] /\ v = [i \in 1 .. d |-> v[i]]
  OBVIOUS
<1>4. \A i \in 1 .. d : u[i] = s[p + i] /\ v[i] = t[p + i]
  OBVIOUS
<1> HIDE DEF u, v, d
<1>5. \A i \in 1 .. d : u[i] = v[i]
  BY <1>1, <1>2, <1>4
<1>6. u = v
  BY <1>3, <1>5
<1> QED
  BY <1>6 DEF u, v

LEMMA CutInTwo ==
  ASSUME NEW T, NEW s \in Seq(T), NEW n \in 0 .. Len(s)
  PROVE  /\ SubSeq(s, 1, n) \in Seq(T) /\ SubSeq(s, n + 1, Len(s)) \in Seq(T)
         /\ SubSeq(s, 1, n) \o SubSeq(s, n + 1, Len(s)) = s
<1> DEFINE N == Len(s)
           a == SubSeq(s, 1, n)
           b == SubSeq(s, n + 1, N)
           u == a \o b
<1>1. /\ a \in Seq(T) /\ Len(a) = n /\ \A i \in 1 .. n : a[i] = s[i]
      /\ b \in Seq(T) /\ Len(b) = N - n /\ \A i \in 1 .. (N - n) : b[i] = s[n + i]
      /\ N \in Nat
  OBVIOUS
<1> HIDE DEF a, b
<1>2. /\ u \in Seq(T) /\ Len(u) = Len(a) + Len(b) /\ \A i \in 1 .. Len(a) : u[i] = a[i]
      /\ \A i \in 1 .. Len(b) : u[Len(a) + i] = b[i]
  BY <1>1, Concatenated
<1>3. s = [i \in 1 .. N |-> s[i]]
  OBVIOUS
<1> HIDE DEF u, N
<1>4. \A i \in 1 .. N : u[i] = s[i]
  <2> SUFFICES ASSUME NEW i \in 1 .. N PROVE u[i] = s[i]
    OBVIOUS
  <2>1. CASE i <= n
    <3>1. i \in 1 .. n
      BY <1>1, <2>1
    <3> QED
      BY <1>1, <1>2, <3>1
  <2>2. CASE ~(i <= n)
    <3> DEFINE j == i - n
    <3>1. j \in 1 .. (N - n) /\ n + j = i
      BY <1>1, <2>2
    <3> HIDE DEF j
    <3>2. u[i] = b[j]
      BY <1>1, <1>2, <3>1
    <3>3. b[j] = s[i]
      BY <1>1, <3>1
    <3> QED
      BY <3>2, <3>3
  <2> QED
    BY <2>1, <2>2
<1>5. u = [i \in 1 .. N |-> u[i]]
  <2>1. Len(u) = N
    BY <1>1, <1>2
  <2> QED
    BY <1>2, <2>1
<1>6. u = s
  BY <1>3, <1>4, <1>5
<1> QED
  BY <1>1, <1>6 DEF u, a, b, N

LEMMA StdinTakesFed ==
  ASSUME IInv, IInv', Fed, loop = "running", spawn.error = "none", pipes.open, NEW gap \in 0 .. Len(doc.text),
         StdinTakes(Convert(spawn.writer, Pending(gap), Room)),
         UNCHANGED <<doc, reg, process, interrupted, tokens, result, before, count>>
  PROVE  Fed'
<1> DEFINE c == Convert(spawn.writer, Pending(gap), Room)
           B == before.doc.text
           f == spawn.from
           p == spawn.start
           e == IF p < gap /\ gap < spawn.to THEN gap ELSE spawn.to
           room == Room
           bytes == pipes.buffer \o c.out
<1>0. Running /\ Arrived /\ Clean(B) /\ ~process.eof /\ spawn \in Contexts /\ process \in Processes /\ pipes \in Pipes
  <2>1. Running /\ Arrived /\ Clean(B)
    BY DEF Fed, Running
  <2> QED
    BY <2>1, BytesOnTheirWay DEF Arrived, IInv, TypeOK
<1>1. /\ B \in Texts /\ f \in Nat /\ p \in Nat /\ spawn.to \in Nat /\ f <= p /\ p <= spawn.to
      /\ spawn.to <= Len(B) /\ spawn.writer \in Writers /\ Len(B) \in Nat
      /\ (spawn.writer.halfway => AutoEol /\ p < spawn.to)
  <2>1. Len(B) \in Nat
    BY <1>0, Piped DEF Texts
  <2> QED
    BY <1>0, <2>1, Piped
<1>2. e \in Nat /\ p <= e /\ e <= spawn.to /\ e <= Len(B) /\ (p < spawn.to => p < e)
  BY <1>1
<1>3. Pending(gap) = SubSeq(B, p + 1, e)
  <2>1. Pending(gap) = SubSeq(doc.text, p + 1, e)
    BY DEF Pending
  <2> DEFINE C == Characters
  <2> HIDE DEF C, e
  <2>2. /\ doc.text \in Seq(C) /\ B \in Seq(C) /\ spawn.to <= Len(doc.text)
        /\ SubSeq(doc.text, 1, spawn.to) = SubSeq(B, 1, spawn.to)
    BY <1>0, Piped DEF Texts, C
  <2>3. SubSeq(doc.text, p + 1, e) = SubSeq(B, p + 1, e)
    <3> DEFINE a == doc.text
               k == spawn.to
    <3>1. /\ a \in Seq(C) /\ B \in Seq(C) /\ k \in Nat /\ k <= Len(a) /\ k <= Len(B)
          /\ SubSeq(a, 1, k) = SubSeq(B, 1, k) /\ p \in Nat /\ e \in Nat /\ p <= e /\ e <= k
      BY <1>1, <1>2, <2>2
    <3> HIDE DEF a, B, k, p
    <3>2. SubSeq(a, p + 1, e) = SubSeq(B, p + 1, e)
      BY <3>1, SamePart
    <3> QED
      BY <3>2 DEF a
  <2> QED
    BY <2>1, <2>3
<1>4. room \in Nat
  <2>1. PipeRoom \in Nat
    BY BytesOnTheirWay DEF PipeRoom
  <2> QED
    BY <2>1, BytesOnTheirWay DEF Room
<1>5. /\ spawn.writer.seq = EolSeq(EolMode) /\ spawn.writer.last # "CR"
      /\ (spawn.writer.halfway => B[p + 1] = "LF" /\ EolMode = "CRLF")
  BY <1>0 DEF Arrived
<1> HIDE DEF e, room
<1>6. c = Convert(spawn.writer, SubSeq(B, p + 1, e), room)
  BY <1>3 DEF room
<1>7. /\ c.w.seq = EolSeq(EolMode) /\ c.w.last # "CR"
      /\ (Sent(B, f, p) \o Half(spawn.writer)) \o c.out = Sent(B, f, p + c.taken) \o Half(c.w)
      /\ c.w.halfway => B[p + c.taken + 1] = "LF" /\ EolMode = "CRLF"
  <2>1. spawn.writer.halfway => AutoEol /\ p < e /\ B[p + 1] = "LF" /\ EolMode = "CRLF"
    BY <1>1, <1>2, <1>5
  <2> DEFINE w == spawn.writer
             d == Convert(w, SubSeq(B, p + 1, e), room)
  <2>2. /\ w \in Writers /\ w.seq = EolSeq(EolMode) /\ w.last # "CR" /\ c = d
        /\ (w.halfway => AutoEol /\ p < e /\ B[p + 1] = "LF" /\ EolMode = "CRLF")
    BY <1>1, <1>5, <1>6, <2>1
  <2> HIDE DEF c, B, f, p, w
  <2>3. /\ d.w.seq = EolSeq(EolMode) /\ d.w.last # "CR"
        /\ (Sent(B, f, p) \o Half(w)) \o d.out = Sent(B, f, p + d.taken) \o Half(d.w)
        /\ d.w.halfway => B[p + d.taken + 1] = "LF" /\ EolMode = "CRLF"
    <3>1. B \in Texts /\ Clean(B) /\ f \in Nat /\ p \in Nat /\ e \in Nat /\ f <= p /\ p <= e /\ e <= Len(B)
      BY <1>0, <1>1, <1>2
    <3> HIDE DEF d
    <3>2. Continues(Convert(w, SubSeq(B, p + 1, e), room), B, f, p, w)
      BY <1>4, <2>2, <3>1, ConvertSends
    <3> QED
      BY <3>2, Zenon DEF d, Continues
  <2> HIDE DEF d
  <2> QED
    BY <2>2, <2>3 DEF w
<1>8. c.out \in Texts /\ c.w \in Writers
  <2>1. Pending(gap) \in Texts /\ (p < spawn.to => Pending(gap) # <<>>)
    BY <1>0, PendingText
  <2> QED
    BY <1>1, <1>4, <2>1, ConvertTypes DEF room
<1>9. PICK n \in 0 .. PipeRoom :
        /\ Len(bytes) - n \in 0 .. BufferSize
        /\ pipes' = [pipes EXCEPT !.in = @ \o SubSeq(bytes, 1, n), !.buffer = SubSeq(bytes, n + 1, Len(bytes))]
  BY DEF StdinTakes
<1> DEFINE m == p + c.taken
           x == SubSeq(bytes, 1, n)
           y == SubSeq(bytes, n + 1, Len(bytes))
           t == Called("stdin")
<1>10. /\ spawn' = [spawn EXCEPT !.writer = c.w, !.start = m, !.turn = t]
       /\ loop' = IF m = spawn.to THEN "flushing" ELSE loop
  <2> DEFINE s == [spawn EXCEPT !.writer = c.w, !.start = m, !.turn = t]
  <2>1. spawn' = s /\ loop' = IF s.start = s.to THEN "flushing" ELSE loop
    BY DEF StdinTakes
  <2> HIDE DEF c, m, t
  <2>2. s.start = m /\ s.to = spawn.to
    BY <1>0 DEF Contexts
  <2> QED
    BY <2>1, <2>2
<1>11. bytes \in Texts /\ n \in 0 .. Len(bytes)
  <2>1. pipes.buffer \in Texts
    BY <1>0 DEF Pipes
  <2>2. bytes \in Texts
    BY <1>8, <2>1, TextsConcatenated
  <2> HIDE DEF bytes
  <2>3. Len(bytes) \in Nat
    BY <2>2 DEF Texts
  <2>4. PipeRoom \in Nat
    BY BytesOnTheirWay DEF PipeRoom
  <2> QED
    BY <1>9, <2>2, <2>3, <2>4
<1>12. x \in Texts /\ y \in Texts /\ x \o y = bytes
  <2> DEFINE C == Characters
  <2> HIDE DEF C, bytes
  <2>1. bytes \in Seq(C)
    BY <1>11 DEF Texts, C
  <2>2. x \in Seq(C) /\ y \in Seq(C) /\ x \o y = bytes
    BY <1>11, <2>1, CutInTwo
  <2> QED
    BY <2>2 DEF Texts, C
<1> HIDE DEF c, m, x, y, t
<1>13. /\ spawn'.start = m /\ spawn'.writer = c.w /\ spawn'.from = f /\ spawn'.to = spawn.to
       /\ spawn'.quit = spawn.quit /\ spawn'.error = spawn.error
  BY <1>0, <1>10 DEF Contexts
<1>14. pipes'.in = pipes.in \o x /\ pipes'.buffer = y /\ pipes'.open = pipes.open
  BY <1>0, <1>9 DEF Pipes, x, y
<1>15. ASSUME Alive
       PROVE  (process.read \o pipes'.in) \o pipes'.buffer = Sent(B, f, m) \o Half(c.w)
  <2> DEFINE r == process.read
             i == pipes.in
             b == pipes.buffer
             o == c.out
             pre == Sent(B, f, p) \o Half(spawn.writer)
  <2>1. (r \o i) \o b = pre
    BY <1>0, <1>15 DEF Arrived
  <2>2. r \in Texts /\ i \in Texts /\ b \in Texts /\ o \in Texts /\ r \o i \in Texts
    <3>1. r \in Texts /\ i \in Texts /\ b \in Texts
      BY <1>0 DEF Processes, Pipes
    <3> HIDE DEF r, i, b
    <3> QED
      BY <1>8, <3>1, TextsConcatenated
  <2>3. x \o y = b \o o
    BY <1>12
  <2> HIDE DEF r, i, b, o, pre
  <2>4. (r \o (i \o x)) \o y = (r \o i) \o (x \o y)
    <3> DEFINE h == r \o i
    <3>1. r \in Texts /\ i \in Texts /\ x \in Texts
      BY <1>12, <2>2
    <3>2. h \o x = r \o (i \o x)
      BY <3>1, Associative
    <3>3. h \in Texts /\ x \in Texts /\ y \in Texts
      BY <1>12, <2>2
    <3> HIDE DEF h
    <3>4. (h \o x) \o y = h \o (x \o y)
      BY <3>3, Associative
    <3> QED
      BY <3>2, <3>4, Zenon DEF h
  <2>5. (r \o i) \o (b \o o) = pre \o o
    <3> DEFINE h == r \o i
    <3>1. h \in Texts /\ b \in Texts /\ o \in Texts /\ h \o b = pre
      BY <2>1, <2>2
    <3> HIDE DEF h
    <3>2. (h \o b) \o o = h \o (b \o o)
      BY <3>1, Associative
    <3> QED
      BY <3>1, <3>2 DEF h
  <2>6. (r \o (i \o x)) \o y = pre \o o
    BY <2>3, <2>4, <2>5
  <2> QED
    BY <1>7, <1>14, <2>6 DEF r, i, o, pre, m
<1>16. Arrived'
  <2>1. Alive' = Alive
    BY DEF Alive
  <2>2. Sent(B, f, m)' = Sent(B', f', m') /\ B' = B /\ f' = f
    BY <1>13 DEF Sent
  <2>3. before'.doc.text = B /\ process' = process
    OBVIOUS
  <2>4. c.w.halfway => B[m + 1] = "LF" /\ EolMode = "CRLF"
    BY <1>7 DEF m
  <2> HIDE DEF B, f, p
  <2>5. Alive' => process'.read \o pipes'.in \o pipes'.buffer
                    = Sent(before'.doc.text, spawn'.from, spawn'.start) \o Half(spawn'.writer)
    BY <1>13, <1>15, <2>1, <2>3
  <2>6. loop' = "flushing" => spawn'.start = spawn'.to
    BY <1>10, <1>13
  <2>7. spawn'.writer.halfway => before'.doc.text[spawn'.start + 1] = "LF" /\ EolMode = "CRLF"
    BY <1>13, <2>3, <2>4
  <2>8. spawn'.quit => ~Alive'
    BY <1>0, <1>13, <2>1 DEF Arrived
  <2> QED
    BY <1>0, <1>7, <1>13, <1>14, <2>3, <2>5, <2>6, <2>7, <2>8 DEF Arrived, Sent, Half
<1> QED
  BY <1>10, <1>16 DEF Fed, Clean

LEMMA StdinWatchFed == ASSUME IInv, IInv', Fed, StdinWatch PROVE Fed'
<1>0. /\ UNCHANGED <<doc, reg, process, interrupted, tokens, result, before, count>>
      /\ loop = "running" /\ spawn.error = "none" /\ pipes.open /\ spawn \in Contexts /\ pipes \in Pipes
      /\ Clean(doc.text)
  BY BytesOnTheirWay DEF StdinWatch, StdinReady, MayCall, unchangedCommand, IInv, TypeOK, Fed
<1>1. CASE StdinClosed
  <2> DEFINE z == <<>>
  <2>1. pipes' = [pipes EXCEPT !.open = FALSE, !.buffer = z] /\ UNCHANGED <<loop, spawn>> /\ ~Alive
    BY <1>1 DEF StdinClosed, Broken, Dead, Alive
  <2> HIDE DEF z
  <2>2. pipes'.in = pipes.in /\ pipes'.open = FALSE
    BY <1>0, <2>1 DEF Pipes
  <2>3. Arrived /\ ~Alive' /\ loop' # "reaping" /\ ~process.eof
    BY <1>0, <2>1 DEF Fed, Arrived, Running, Alive
  <2>4. Arrived'
    BY <1>0, <2>1, <2>2, <2>3 DEF Arrived, Sent
  <2> QED
    BY <1>0, <2>3, <2>4 DEF Fed, Clean
<1>2. ASSUME NEW gap \in 0 .. Len(doc.text), StdinFails(Convert(spawn.writer, Pending(gap), Room)) PROVE Fed'
  <2>1. spawn' = [spawn EXCEPT !.error = "pipe", !.quit = TRUE] /\ UNCHANGED <<loop, pipes>>
    BY <1>2 DEF StdinFails
  <2>2. spawn'.error = "pipe"
    BY <1>0, <2>1 DEF Contexts
  <2> QED
    BY <1>0, <2>1, <2>2 DEF Fed, Clean
<1>3. ASSUME NEW gap \in 0 .. Len(doc.text), StdinTakes(Convert(spawn.writer, Pending(gap), Room)) PROVE Fed'
  BY <1>0, <1>3, StdinTakesFed
<1> QED
  BY <1>1, <1>2, <1>3 DEF StdinWatch

LEMMA StdoutWatchFed == ASSUME IInv, Fed, StdoutWatch PROVE Fed'
<1> DEFINE t == Called("stdout")
<1>0. /\ UNCHANGED <<doc, reg, process, pipes, interrupted, tokens, result, before, count>>
      /\ loop = "running" /\ loop' = "reading" /\ spawn' = [spawn EXCEPT !.turn = t]
      /\ spawn \in Contexts /\ spawn.error = "none" /\ Clean(doc.text)
  BY DEF StdoutWatch, MayCall, unchangedCommand, IInv, TypeOK, Fed
<1> HIDE DEF t
<1>1. /\ spawn'.from = spawn.from /\ spawn'.to = spawn.to /\ spawn'.start = spawn.start
      /\ spawn'.writer = spawn.writer /\ spawn'.quit = spawn.quit
  BY <1>0 DEF Contexts
<1>2. Running /\ (Alive' => Alive) /\ Clean(doc'.text)
  BY <1>0 DEF Running, Alive
<1> QED
  BY <1>0, <1>1, <1>2, UnmovedStep

LEMMA ChildWatchFed == ASSUME IInv, Fed, ChildWatch PROVE Fed'
<1>0. /\ UNCHANGED <<doc, reg, spawn, process, pipes, interrupted, tokens, result, before, count>>
      /\ loop = "running" /\ loop' = "reaping" /\ spawn.error = "none" /\ Clean(doc.text)
  BY DEF ChildWatch, unchangedCommand, Fed
<1>1. ~Alive
  BY DEF ChildWatch, Dead, Alive
<1>2. Running /\ ~Alive' /\ Clean(doc'.text)
  BY <1>0, <1>1 DEF Running, Alive
<1> QED
  BY <1>0, <1>1, <1>2, UnmovedStep

LEMMA InterruptFed == ASSUME IInv, Fed, Interrupt PROVE Fed'
<1>0. /\ UNCHANGED <<doc, reg, spawn, process, pipes, loop, tokens, result, before, count>>
      /\ loop = "running" /\ Clean(doc.text)
  BY DEF Interrupt, unchangedCommand, Fed
<1>1. Running /\ (Alive' => Alive) /\ Clean(doc'.text)
  BY <1>0 DEF Running, Alive
<1> QED
  BY <1>0, <1>1, UnmovedStep

LEMMA IdleFed == ASSUME IInv, Fed, Idle PROVE Fed'
<1>0. /\ UNCHANGED <<doc, reg, pipes, loop, tokens, result, before, count>>
      /\ loop = "running" /\ spawn \in Contexts /\ process \in Processes /\ Clean(doc.text)
      /\ spawn' = [spawn EXCEPT !.interrupted = TRUE]
      /\ process' = [process EXCEPT !.status = "killed"] \/ process' = process
  BY BytesOnTheirWay DEF Idle, unchangedCommand, IInv, TypeOK, Fed
<1>1. /\ spawn'.from = spawn.from /\ spawn'.to = spawn.to /\ spawn'.start = spawn.start
      /\ spawn'.writer = spawn.writer /\ spawn'.quit = spawn.quit /\ spawn'.error = spawn.error
  BY <1>0 DEF Contexts
<1>2. /\ process'.read = process.read /\ process'.eof = process.eof
      /\ process'.status = process.status \/ process'.status = "killed"
  BY <1>0 DEF Processes
<1>3. Running /\ (Alive' => Alive) /\ Clean(doc'.text)
  BY <1>0, <1>2 DEF Running, Alive
<1> QED
  BY <1>0, <1>1, <1>2, <1>3, UnmovedStep

(* The end of a callback: it may quit the loop when the process is dead.   *)
LEMMA LeaveFed ==
  ASSUME IInv, Fed, loop \in {"reading", "reaping"}, NEW r, Leave(r),
         UNCHANGED <<process, interrupted, result, before, count>>,
         pipes'.buffer = pipes.buffer, pipes'.in = pipes.in, pipes'.open = pipes.open
  PROVE  Fed'
<1> DEFINE e == ExitStatus.error
           k == ExitStatus.rc
<1>0. /\ spawn \in Contexts /\ Running /\ UNCHANGED <<doc, reg, tokens>> /\ loop' = "running"
      /\ Clean(doc.text)
  BY DEF IInv, TypeOK, Running, Leave, Fed
<1>1. \/ spawn' = [spawn EXCEPT !.reader = r]
      \/ loop = "reaping" /\ spawn' = [spawn EXCEPT !.reader = r, !.quit = TRUE, !.error = e, !.rc = k]
  BY DEF Leave
<1> HIDE DEF e, k
<1>2. /\ spawn'.from = spawn.from /\ spawn'.to = spawn.to /\ spawn'.start = spawn.start
      /\ spawn'.writer = spawn.writer
      /\ (spawn'.quit = spawn.quit /\ spawn'.error = spawn.error) \/ loop = "reaping"
  BY <1>0, <1>1 DEF Contexts
<1>3. loop = "reaping" => ~Alive /\ spawn.error = "none"
  BY DEF Fed
<1>4. (Alive' => Alive) /\ Clean(doc'.text) /\ process'.read = process.read /\ process'.eof = process.eof
  BY <1>0 DEF Alive
<1> QED
  BY <1>0, <1>2, <1>3, <1>4, UnmovedStep

LEMMA InsertFed ==
  ASSUME IInv, Fed, loop \in {"reading", "reaping"}, NEW r, Insert(r), Piece(r) \in Texts,
         UNCHANGED <<process, interrupted, result, before, count>>,
         pipes'.buffer = pipes.buffer, pipes'.in = pipes.in, pipes'.open = pipes.open
  PROVE  Fed'
<1> DEFINE p == Piece(r)
           full == (IF spawn.argument = "none" THEN Len(doc.text) ELSE Len(reg.text)) + Len(p) > MemoryLimit
           q == spawn.quit \/ full
           e == IF full THEN "memory" ELSE spawn.error
<1>0. /\ spawn \in Contexts /\ Running /\ doc \in Docs /\ doc.dot <= Len(doc.text)
      /\ doc.text \in Texts /\ doc.dot \in Nat
  BY DEF IInv, TypeOK, Running, Docs
<1>1. /\ spawn' = [spawn EXCEPT !.reader = r, !.added = TRUE, !.quit = q, !.error = e]
      /\ loop' = IF full THEN "running" ELSE loop
      /\ \/ doc' = [doc EXCEPT !.text = Replace(doc.text, doc.dot, doc.dot, p), !.dot = doc.dot + Len(p)]
         \/ doc' = doc
  BY DEF Insert
<1>2. Clean(doc'.text)
  <2> DEFINE text == Replace(doc.text, doc.dot, doc.dot, p)
             dot == doc.dot + Len(p)
  <2>1. Clean(doc.text) /\ Clean(p) /\ doc.dot <= doc.dot
    BY <1>0, CleanPiece DEF Fed
  <2>2. Clean(text)
    BY <1>0, <2>1, CleanTexts
  <2> HIDE DEF text, dot
  <2>3. doc'.text = text \/ doc'.text = doc.text
    BY <1>0, <1>1 DEF Docs, text, dot
  <2> QED
    BY <2>1, <2>2, <2>3
<1>3. e # "none" \/ (e = spawn.error /\ (q => spawn.quit) /\ loop' = loop)
  BY <1>1
<1>4. loop' = "reaping" => e = spawn.error /\ loop = "reaping"
  BY <1>1
<1> HIDE DEF q, e, full
<1>5. /\ spawn'.from = spawn.from /\ spawn'.to = spawn.to /\ spawn'.start = spawn.start
      /\ spawn'.writer = spawn.writer /\ spawn'.quit = q /\ spawn'.error = e
  BY <1>0, <1>1 DEF Contexts
<1>6. (Alive' => Alive) /\ (~Alive => ~Alive') /\ process'.read = process.read /\ process'.eof = process.eof
      /\ loop' # "flushing"
  BY <1>1 DEF Alive
<1>7. loop' = "reaping" => ~Alive' /\ spawn'.error = "none"
  BY <1>4, <1>5, <1>6 DEF Fed
<1>8. Running' /\ spawn'.error = "none" => Running /\ spawn.error = "none" /\ (spawn'.quit => spawn.quit \/ ~Alive)
  BY <1>0, <1>3, <1>5, <1>6
<1> QED
  BY <1>2, <1>5, <1>6, <1>7, <1>8, UnmovedStep

LEMMA GotFed ==
  ASSUME IInv, Fed, loop \in {"reading", "reaping"},
         NEW r \in Readers, r.piece = 0, r.off <= Len(r.block), ~AutoEol => r.off = 0, Got(r),
         UNCHANGED <<process, interrupted, result, before, count>>,
         pipes'.buffer = pipes.buffer, pipes'.in = pipes.in, pipes'.open = pipes.open
  PROVE  Fed'
<1> DEFINE t == Translate(r)
<1>1. Piece(t) \in Texts
  BY TranslateTypes
<1>2. Leave(t) \/ Insert(t)
  BY DEF Got
<1> HIDE DEF t
<1> QED
  BY <1>1, <1>2, LeaveFed, InsertFed

LEMMA ReadFed == ASSUME IInv, Fed, Read PROVE Fed'
<1>1. /\ loop \in {"reading", "reaping"} /\ UNCHANGED <<process, interrupted, result, before, count>>
      /\ pipes'.buffer = pipes.buffer /\ pipes'.in = pipes.in /\ pipes'.open = pipes.open
  BY ReadPieces
<1>2. \/ \E f \in Readers : /\ f.piece = 0 /\ f.off <= Len(f.block) /\ (~AutoEol => f.off = 0)
                           /\ Got(f)
      \/ \E f \in Readers : WithinBlock(f) /\ Leave(f)
  BY ReadPieces
<1> QED
  BY <1>1, <1>2, GotFed, LeaveFed

(* When a command has failed, or is undone, the text is what it has found. *)
LEMMA UndoneFed ==
  ASSUME IInv', loop' = "idle", Clean(before'.doc.text), NEW s, NEW ts, Fail(s, ts)
  PROVE  Fed'
<1>1. result'.kind = "error" /\ ~Running'
  BY DEF Fail, Running
<1>2. doc' = before'.doc
  BY <1>1 DEF IInv, Settled
<1> QED
  BY <1>2, EndedStep

LEMMA RememberedText ==
  ASSUME Fed, NEW target, Remember(target)
  PROVE  Clean(before'.doc.text) /\ Clean(doc.text) /\ before'.doc = doc
BY DEF Remember, Fed

LEMMA RefuseFed ==
  ASSUME IInv', Fed, NEW target, NEW colon \in BOOLEAN, NEW a, Refuse(target, colon, a)
  PROVE  Fed'
<1>1. loop' = "idle" /\ Remember(target)
  BY DEF Refuse, Ready, Running
<1>2. Clean(before'.doc.text) /\ Clean(doc.text)
  BY <1>1, RememberedText
<1>3. CASE colon
  <2>1. doc' = doc
    BY <1>3 DEF Refuse
  <2> QED
    BY <1>1, <1>2, <2>1, EndedStep
<1>4. CASE ~colon
  <2>1. Fail([Now EXCEPT !.spawn = Named(target)], Naming(target))
    BY <1>4 DEF Refuse
  <2> QED
    BY <1>1, <1>2, <2>1, UndoneFed
<1> QED
  BY <1>3, <1>4

LEMMA CannotStartFed ==
  ASSUME IInv, IInv', Fed, NEW target \in {"none", "q"}, NEW colon \in BOOLEAN, NEW a, CannotStart(target, colon, a)
  PROVE  Fed'
<1> DEFINE c == [Named(target) EXCEPT !.from = PipedRange(a)[1], !.to = PipedRange(a)[2],
                                      !.added = FALSE, !.rc = 0]
           s == [Now EXCEPT !.spawn = c]
<1>1. loop' = "idle" /\ Remember(target)
  BY DEF CannotStart, Ready, Running
<1>2. Clean(before'.doc.text) /\ Clean(doc.text)
  BY <1>1, RememberedText
<1>3. Fail(s, Naming(target)) \/ End(s, Naming(target), Failure(0))
  BY DEF CannotStart
<1> HIDE DEF c
<1>4. s.doc = doc
  BY DEF Now
<1> HIDE DEF s
<1>5. CASE Fail(s, Naming(target))
  BY <1>1, <1>2, <1>5, UndoneFed
<1>6. CASE End(s, Naming(target), Failure(0))
  <2>1. doc' = doc
    BY <1>4, <1>6 DEF End
  <2> QED
    BY <1>1, <1>2, <2>1, EndedStep
<1> QED
  BY <1>3, <1>5, <1>6

LEMMA RuboutFed == ASSUME IInv', Fed, Rubout PROVE Fed'
<1>1. loop' = "idle" /\ Fail(Now, tokens) /\ Clean(before'.doc.text)
  BY DEF Rubout, Running, Fed
<1> QED
  BY <1>1, UndoneFed

LEMMA NoticeFed == ASSUME Fed, Notice PROVE Fed'
<1>1. loop' = "idle" /\ UNCHANGED <<doc, before>> /\ Clean(doc.text) /\ Clean(before.doc.text)
  BY DEF Notice, unchangedCommand, Running, Fed
<1> QED
  BY <1>1, EndedStep

LEMMA FinishFed == ASSUME IInv, IInv', Fed, Finish PROVE Fed'
<1> DEFINE ts == tokens \o EndTokens
<1>1. loop' = "idle" /\ UNCHANGED before /\ Clean(doc.text) /\ Clean(before.doc.text) /\ Running
      /\ Clean(before'.doc.text)
  BY DEF Finish, Running, Fed
<1>2. Fail(Ended, ts) \/ End(Ended, ts, Success) \/ End(Ended, ts, Failure(spawn.rc))
  BY DEF Finish
<1>3. Clean(Ended.doc.text)
  <2>1. CASE spawn.argument = "none"
    <3> DEFINE z == <<>>
               text == Replace(doc.text, spawn.from, spawn.to, z)
    <3>1. z \in Texts /\ Clean(z)
      BY DEF Texts, Clean
    <3> HIDE DEF z
    <3>2. /\ doc.text \in Texts /\ spawn.from \in Nat /\ spawn.to \in Nat /\ spawn.from <= spawn.to
          /\ spawn.to <= Len(doc.text)
      BY <1>1, Piped
    <3>3. Clean(text)
      BY <1>1, <3>1, <3>2, CleanTexts
    <3>4. Ended.doc.text = text
      BY <2>1 DEF Ended, Now, z
    <3> QED
      BY <3>3, <3>4
  <2>2. CASE spawn.argument # "none"
    <3>1. Ended.doc = doc
      BY <1>1, <2>2, EndedOnRegister DEF IInv, Busy
    <3> QED
      BY <1>1, <3>1
  <2> QED
    BY <2>1, <2>2
<1> HIDE DEF ts
<1>4. CASE Fail(Ended, ts)
  BY <1>1, <1>4, UndoneFed
<1>5. ASSUME NEW r, End(Ended, ts, r) PROVE Fed'
  <2>1. doc' = Ended.doc
    BY <1>5 DEF End
  <2> QED
    BY <1>1, <1>3, <2>1, EndedStep
<1> QED
  BY <1>2, <1>4, <1>5

(* Nothing of the range has been sent in the beginning.                    *)
LEMMA StartFed ==
  ASSUME IInv, IInv', Fed, NEW target \in {"none", "q"}, NEW a \in Arguments, Start(target, a)
  PROVE  Fed'
<1> DEFINE n == Named(target)
           from == PipedRange(a)[1]
           to == PipedRange(a)[2]
           w == NewWriter(EolMode)
           r == NewReader
           c == [n EXCEPT !.from = from, !.to = to, !.start = from, !.added = FALSE, !.rc = 0,
                          !.interrupted = FALSE, !.error = "none", !.quit = FALSE,
                          !.turn = {"stdin", "stdout"}, !.writer = w, !.reader = r]
<1>0. /\ TypeOK /\ loop' = "running" /\ Remember(target) /\ doc \in Docs /\ doc.dot <= Len(doc.text)
      /\ process' = [NoProcess EXCEPT !.status = "running"]
      /\ pipes' = [NoBytes EXCEPT !.open = TRUE, !.watched = TRUE]
      /\ spawn' = c /\ InRange(a)
      /\ doc' = doc \/ doc' = [doc EXCEPT !.dot = to]
  BY DEF IInv, TypeOK, Start
<1>1. n \in Contexts
  BY <1>0, NamedTypes
<1>2. Clean(before'.doc.text) /\ Clean(doc.text) /\ before'.doc = doc
  BY <1>0, RememberedText
<1>3. from \in Nat /\ to \in Nat /\ from <= to /\ to <= Len(doc.text)
  <2>1. from \in Int /\ to \in Int /\ 0 <= from /\ from <= to /\ to <= Len(doc.text)
    BY <1>0, RangeTypes
  <2> HIDE DEF from, to
  <2> QED
    BY <2>1
<1>4. w.halfway = FALSE /\ w.seq = EolSeq(EolMode) /\ w.last # "CR"
  BY DEF NewWriter
<1> HIDE DEF from, to, n, w, r
<1>5. /\ spawn'.writer = w /\ spawn'.from = from /\ spawn'.to = to /\ spawn'.start = from
      /\ spawn'.quit = FALSE
  <2> DEFINE W == Writers
             R == Readers
             C == [from : Int, to : Int, start : Int, added : BOOLEAN, interrupted : BOOLEAN,
                   error : {"none", "pipe", "memory", "exit", "signal"}, rc : {0, 1},
                   argument : {"none", "q"}, quit : BOOLEAN, turn : SUBSET {"stdin", "stdout"},
                   writer : W, reader : R]
  <2>1. Contexts = C
    BY DEF Contexts
  <2> HIDE DEF W, R
  <2>2. n \in C
    BY <1>1, <2>1
  <2>3. c.writer = w /\ c.from = from /\ c.to = to /\ c.start = from /\ c.quit = FALSE
    BY <2>2
  <2> QED
    BY <1>0, <2>3
<1> HIDE DEF c
<1> DEFINE z == <<>>
<1>6. /\ process'.read = z /\ process'.eof = FALSE
      /\ pipes'.in = z /\ pipes'.buffer = z /\ pipes'.open = TRUE
  BY <1>0 DEF NoProcess, NoBytes
<1>7. doc'.text = doc.text
  BY <1>0 DEF Docs
<1>8. (z \o z) \o z = z /\ z \in Texts
  BY DEF Texts
<1>9. Sent(doc.text, from, from) = z
  BY <1>0, <1>3, NothingSent DEF Docs
<1> HIDE DEF z
<1>10. Sent(doc.text, from, from) \o Half(w) = z
  BY <1>4, <1>8, <1>9 DEF Half, z
<1>11. Arrived'
  <2>1. (process'.read \o pipes'.in) \o pipes'.buffer = z
    BY <1>6, <1>8
  <2>2. Sent(before'.doc.text, spawn'.from, spawn'.start) \o Half(spawn'.writer) = z
    BY <1>2, <1>5, <1>10
  <2> QED
    BY <1>0, <1>4, <1>5, <1>6, <2>1, <2>2 DEF Arrived, Sent, Half
<1> QED
  BY <1>0, <1>2, <1>7, <1>11 DEF Fed, Clean

-----------------------------------------------------------------------------
(* The theorem.                                                            *)

LEMMA FedInitially == ASSUME Init, Clean(Text) PROVE Fed
<1>1. doc.text = Text /\ before.doc = doc /\ loop = "idle"
  BY DEF Init
<1> QED
  BY <1>1 DEF Fed, Running

LEMMA FedHolds == ASSUME IInv, IInv', Fed, [Next]_vars PROVE Fed'
<1>1. CASE Execute
  <2>1. PICK target \in {"none", "q"}, a \in Arguments :
          \/ \E colon \in BOOLEAN : Refuse(target, colon, a) \/ CannotStart(target, colon, a)
          \/ Start(target, a)
    BY <1>1 DEF Execute
  <2> QED
    BY <2>1, RefuseFed, CannotStartFed, StartFed
<1>2. CASE UNCHANGED vars
  <2>1. UNCHANGED <<doc, reg, spawn, loop, process, pipes, interrupted, tokens, result, before, count>>
    BY <1>2 DEF vars
  <2> QED
    BY <2>1 DEF Fed, Clean, Running, Arrived, Alive, Sent, Half
<1> QED
  BY <1>1, <1>2, ProcessReadsFed, ProcessWritesFed, ProcessExitsFed, StdinWatchFed, FlushFed,
     StdoutWatchFed, ReadFed, ChildWatchFed, InterruptFed, IdleFed, FinishFed, RuboutFed, NoticeFed
     DEF Next

LEMMA FedInputs == ASSUME IInv, Fed PROVE InputIsRange
<1> SUFFICES ASSUME Running, spawn.error = "none"
             PROVE  LET sent == process.read \o pipes.in \o pipes.buffer
                        all == IF AutoEol THEN Encoded(PipedText, EolMode) ELSE PipedText IN
                    /\ Alive => IsPrefix(sent, all)
                    /\ process.eof => process.read = all
  BY DEF InputIsRange
<1> DEFINE all == IF AutoEol THEN Encoded(PipedText, EolMode) ELSE PipedText
           B == before.doc.text
           sent == process.read \o pipes.in \o pipes.buffer
<1>1. Arrived /\ Clean(B)
  BY DEF Fed
<1>2. all = Sent(B, spawn.from, spawn.to)
  BY DEF Sent, PipedText
<1> HIDE DEF all
<1>3. Alive => IsPrefix(sent, all)
  <2> SUFFICES ASSUME Alive PROVE IsPrefix(sent, all)
    OBVIOUS
  <2>1. sent = Sent(B, spawn.from, spawn.start) \o Half(spawn.writer)
    BY <1>1 DEF Arrived
  <2> HIDE DEF sent
  <2> QED
    BY <1>1, <1>2, <2>1, Piped, SentIsPrefix DEF Arrived
<1>4. process.eof => process.read = all
  BY <1>1, <1>2 DEF Arrived
<1> QED
  BY <1>3, <1>4 DEF all

(* What arrives at the process is the range, with its line ends encoded,   *)
(* piece by piece (teco_spawn_stdin_watch_cb, teco_eol_writer_convert),    *)
(* however the gap of the document, the buffer of the channel and the pipe *)
(* cut it, and it is all there when the process finds the end of its       *)
(* input.  A document that is translated must have no CRs to begin with,   *)
(* as one that is read from a file has none: behind a CR the writer takes  *)
(* an LF for the second half of a line end.                                *)
THEOREM InputIsRangeProof == ASSUME Clean(Text) PROVE Spec => []InputIsRange
<1>1. Init => IInv /\ Fed
  BY InitHolds, FedInitially
<1>2. IInv /\ Fed /\ [Next]_vars => (IInv /\ Fed)'
  BY StepHolds, FedHolds
<1>3. IInv /\ Fed => InputIsRange
  BY FedInputs
<1> QED
  BY <1>1, <1>2, <1>3, PTL DEF Spec

=============================================================================
