----------------------------- MODULE UndoProofs -----------------------------
(***************************************************************************)
(* Proofs about Undo, for every number of variables, objects, tokens and   *)
(* characters: the type invariant, ownership of heap objects, and that     *)
(* rubbing out restores what the editor showed (RuboutRestores).           *)
(***************************************************************************)
EXTENDS Undo, SequenceLemmas

-----------------------------------------------------------------------------
(* The inductive invariant.                                                *)

OwnedTok(i) == log[i].kind = "owned" /\ log[i].val # Nil

(* OneOwner and NoLeak in terms of the variables.                          *)
Ownership ==
  /\ \A v, w \in Owners : own[v] # Nil /\ own[v] = own[w] => v = w
  /\ \A v \in Owners : \A i \in 1..Len(log) : OwnedTok(i) => own[v] # log[i].val
  /\ \A i, j \in 1..Len(log) : OwnedTok(i) /\ OwnedTok(j) /\ log[i].val = log[j].val => i = j
  /\ \A v \in Owners : own[v] # Nil => heap[own[v]] # Freed
  /\ \A i \in 1..Len(log) : OwnedTok(i) => heap[log[i].val] # Freed
  /\ \A o \in Objects : heap[o] # Freed =>
       \/ \E v \in Owners : own[v] = o
       \/ \E i \in 1..Len(log) : OwnedTok(i) /\ log[i].val = o

(* How the lists, the current character and the phases fit together.       *)
Lists ==
  /\ Len(marks) = pc + 1 /\ Len(snaps) = pc + 1
  /\ len <= pc + 1
  /\ \A i \in 1..Len(log) : log[i].at < len
  /\ \A i \in 1..Len(log), n \in 0..pc : i > marks[n + 1] <=> log[i].at >= n
  /\ \A m, n \in 0..pc : m <= n => marks[m + 1] <= marks[n + 1]
  /\ ~Busy => \A n \in 0..pc : marks[n + 1] <= Len(log)
  /\ target # NoPop => target <= pc /\ marks[target + 1] <= Len(log) /\ ~clearing /\ enabled
  /\ ~enabled => log = <<>> /\ pc = 0 /\ len = 0 /\ marks = <<0>> /\ ~Busy

(* What the editor shows once token t, run with objects h, has reverted w. *)
ViewUndo(t, w, h) ==
  CASE t.kind = "scalar" -> [w EXCEPT !.scal = [w.scal EXCEPT ![t.var] = t.val]]
    [] t.kind = "owned"  -> [w EXCEPT !.own = [w.own EXCEPT ![t.var] = Content(h, t.val)]]
    [] t.kind = "insert" -> [w EXCEPT !.stk = InsertAt(w.stk, t.idx, t.val)]
    [] t.kind = "remove" -> [w EXCEPT !.stk = RemoveAt(w.stk, t.idx)]

IdxOK(t, w) ==
  /\ t.kind = "insert" => t.idx \in 1..(Len(w.stk) + 1)
  /\ t.kind = "remove" => t.idx \in 1..Len(w.stk)

(* What the editor showed after the change of the k-th token of l, and     *)
(* until the next token was pushed, given that it shows w now.             *)
After(l, w, k) == IF k = Len(l) THEN w ELSE l[k + 1].before

(* Every token takes the editor back to where it was when it was pushed.   *)
Chain ==
  ~clearing => \A i \in 1..Len(log) :
    /\ IdxOK(log[i], After(log, View, i))
    /\ log[i].before = ViewUndo(log[i], After(log, View, i), heap)

Snapshots ==
  ~clearing => \A n \in 0..pc :
    marks[n + 1] <= Len(log) => snaps[n + 1] = After(log, View, marks[n + 1])

IInv == TypeOK /\ Ownership /\ Lists /\ Chain /\ Snapshots

-----------------------------------------------------------------------------
(* What the editor shows is well typed as long as nothing dangles.         *)
LEMMA ViewType ==
  ASSUME NEW s \in [Scalars -> Values], NEW w \in [Owners -> Objects \cup {Nil}],
         NEW h \in [Objects -> Values \cup {Freed}], NEW k \in Seq(Values),
         \A v \in Owners : w[v] # Nil => h[w[v]] # Freed
  PROVE  ViewOf(s, w, h, k) \in Views
<1>1. \A v \in Owners : Content(h, w[v]) \in Values \cup {Nil}
  BY UndoAssumption DEF Content
<1>2. [v \in Owners |-> Content(h, w[v])] \in [Owners -> Values \cup {Nil}]
  BY <1>1
<1> QED
  BY <1>2 DEF ViewOf, Views

(* Running a token has the same effect on the view as long as the object   *)
(* it holds has the same content.                                          *)
LEMMA ViewUndoSame ==
  ASSUME NEW t, NEW w, NEW h1, NEW h2, WellFormed(t), t.kind \in Kinds,
         t.kind = "owned" /\ t.val # Nil => h1[t.val] = h2[t.val]
  PROVE  ViewUndo(t, w, h1) = ViewUndo(t, w, h2)
<1>1. t.kind = "owned" => Content(h1, t.val) = Content(h2, t.val)
  BY DEF Content
<1> QED
  BY <1>1 DEF ViewUndo, Kinds

-----------------------------------------------------------------------------
(* A command pushes a token that takes back its change: the new list       *)
(* structure is sound and the chain goes on.                               *)
LEMMA PushStep ==
  ASSUME IInv, ~Busy, enabled,
         NEW t \in Tokens, WellFormed(t), t.at = pc, t.before = View,
         log' = Append(log, t), len' = (IF len <= pc THEN pc + 1 ELSE len),
         UNCHANGED <<enabled, pc, target, clearing, marks, snaps>>,
         \A i \in 1..Len(log) : OwnedTok(i) => heap'[log[i].val] = heap[log[i].val],
         IdxOK(t, View'), View = ViewUndo(t, View', heap')
  PROVE  (Lists /\ Chain /\ Snapshots)'
<1> DEFINE n == Len(log)
<1>1. log \in Seq(Tokens) /\ n \in Nat /\ pc \in Nat /\ len \in Nat /\ marks \in Seq(Nat)
  BY DEF IInv, TypeOK
<1>2. /\ log' \in Seq(Tokens) /\ Len(log') = n + 1 /\ log'[n + 1] = t
      /\ \A i \in 1..n : log'[i] = log[i]
  BY <1>1, AppendProperties
<1> HIDE DEF n
<1>3. ~Busy' /\ pc' = pc /\ enabled' /\ target' = target /\ clearing' = clearing
  BY DEF Busy
<1>4. /\ Len(marks) = pc + 1 /\ Len(snaps) = pc + 1 /\ len <= pc + 1
      /\ \A i \in 1..n : log[i].at < len
      /\ \A i \in 1..n, k \in 0..pc : i > marks[k + 1] <=> log[i].at >= k
      /\ \A k \in 0..pc : marks[k + 1] <= n
      /\ \A m, k \in 0..pc : m <= k => marks[m + 1] <= marks[k + 1]
  BY DEF IInv, Lists, n
<1>5. \A k \in 0..pc : marks[k + 1] \in Nat
  <2> SUFFICES ASSUME NEW k \in 0..pc PROVE marks[k + 1] \in Nat
    OBVIOUS
  <2>1. k + 1 \in 1..Len(marks)
    BY <1>1, <1>4
  <2> QED  BY <1>1, <2>1, ElementOfSeq
<1>6. Lists'
  <2>1. len' = pc + 1
    <3>1. CASE len <= pc
      BY <3>1
    <3>2. CASE ~(len <= pc)
      <4>1. len' = len
        BY <3>2
      <4>2. len = pc + 1
        BY <1>1, <1>4, <3>2
      <4> QED  BY <4>1, <4>2
    <3> QED  BY <3>1, <3>2
  <2>2. ASSUME NEW i \in 1..Len(log')
        PROVE  log'[i].at < len'
    <3>1. CASE i = n + 1
      BY <1>1, <1>2, <2>1, <3>1
    <3>2. CASE i # n + 1
      <4>1. i \in 1..n
        BY <1>1, <1>2, <3>2
      <4>2. log[i].at < len /\ log'[i] = log[i]
        BY <1>2, <1>4, <4>1
      <4>3. log[i] \in Tokens
        BY <1>1, <4>1, ElementOfSeq DEF n
      <4>4. log[i].at \in Nat
        BY <4>3 DEF Tokens
      <4> QED  BY <1>1, <1>4, <2>1, <4>2, <4>4
    <3> QED  BY <3>1, <3>2
  <2>3. ASSUME NEW i \in 1..Len(log'), NEW k \in 0..pc'
        PROVE  i > marks'[k + 1] <=> log'[i].at >= k
    <3>1. k \in 0..pc /\ marks' = marks
      BY <1>3
    <3>2. CASE i = n + 1
      BY <1>1, <1>2, <1>4, <1>5, <3>1, <3>2
    <3>3. CASE i # n + 1
      <4>1. i \in 1..n
        BY <1>1, <1>2, <3>3
      <4> QED  BY <1>2, <1>4, <3>1, <4>1
    <3> QED  BY <3>2, <3>3
  <2>4. \A k \in 0..pc' : marks'[k + 1] <= Len(log')
    BY <1>1, <1>2, <1>3, <1>4, <1>5
  <2> QED  BY <1>3, <1>4, <2>1, <2>2, <2>3, <2>4 DEF Lists, Busy
<1>7. ASSUME NEW k \in 0..n
      PROVE  After(log', View', k) = IF k = n THEN View ELSE log[k + 1].before
  <2>1. k # n + 1
    BY <1>1
  <2>2. After(log', View', k) = log'[k + 1].before
    BY <1>2, <2>1 DEF After
  <2>3. CASE k = n
    BY <1>2, <2>2, <2>3
  <2>4. CASE k # n
    <3>1. k + 1 \in 1..n
      BY <1>1, <2>4
    <3> QED  BY <1>2, <2>2, <2>4, <3>1
  <2> QED  BY <2>3, <2>4
<1>8. \A k \in 0..n : After(log', View', k) = After(log, View, k)
  <2> SUFFICES ASSUME NEW k \in 0..n PROVE After(log', View', k) = After(log, View, k)
    OBVIOUS
  <2> QED  BY <1>7 DEF After, n
<1>9. After(log', View', n + 1) = View'
  BY <1>2 DEF After
<1>10. ~clearing
  BY DEF Busy
<1>11. Chain'
  <2> SUFFICES ASSUME NEW i \in 1..Len(log')
               PROVE  /\ IdxOK(log'[i], After(log', View', i))
                      /\ log'[i].before = ViewUndo(log'[i], After(log', View', i), heap')
    BY DEF Chain
  <2>1. CASE i = n + 1
    <3>1. log'[i] = t /\ After(log', View', i) = View'
      BY <1>2, <1>9, <2>1
    <3> QED  BY <3>1
  <2>2. CASE i # n + 1
    <3>1. i \in 1..n
      BY <1>1, <1>2, <2>2
    <3>2. i \in 0..n
      BY <3>1
    <3>3. log'[i] = log[i] /\ After(log', View', i) = After(log, View, i)
      BY <1>2, <1>8, <3>1, <3>2
    <3>4. IdxOK(log[i], After(log, View, i)) /\ log[i].before = ViewUndo(log[i], After(log, View, i), heap)
      BY <1>10, <3>1 DEF IInv, Chain, n
    <3>5. WellFormed(log[i]) /\ log[i].kind \in Kinds
      <4>1. log[i] \in Tokens
        BY <1>1, <3>1, ElementOfSeq DEF n
      <4> QED  BY <3>1, <4>1 DEF IInv, TypeOK, n, Tokens
    <3>6. log[i].kind = "owned" /\ log[i].val # Nil => heap'[log[i].val] = heap[log[i].val]
      BY <3>1 DEF OwnedTok, n
    <3>7. ViewUndo(log[i], After(log, View, i), heap) = ViewUndo(log[i], After(log, View, i), heap')
      BY <3>5, <3>6, ViewUndoSame
    <3> QED  BY <3>3, <3>4, <3>7
  <2> QED  BY <2>1, <2>2
<1>12. Snapshots'
  <2> SUFFICES ASSUME NEW k \in 0..pc'
               PROVE  snaps'[k + 1] = After(log', View', marks'[k + 1])
    BY Zenon DEF Snapshots
  <2>1. k \in 0..pc /\ marks' = marks /\ snaps' = snaps
    BY <1>3
  <2>2. marks[k + 1] \in 0..n
    BY <1>1, <1>4, <1>5, <2>1
  <2>3. snaps[k + 1] = After(log, View, marks[k + 1])
    BY <1>4, <1>10, <2>1, Zenon DEF IInv, Snapshots, n
  <2> QED  BY <1>8, <2>1, <2>2, <2>3
<1> QED
  BY <1>6, <1>11, <1>12

(* In batch mode nothing is recorded, and nothing is there to be undone.   *)
LEMMA DisabledStep ==
  ASSUME IInv, ~enabled,
         UNCHANGED <<log, len, enabled, pc, target, clearing, marks>>, snaps' = <<View'>>
  PROVE  (Lists /\ Chain /\ Snapshots)'
<1>1. log = <<>> /\ pc = 0 /\ len = 0 /\ marks = <<0>> /\ ~Busy
  BY DEF IInv, Lists
<1>2. log' = <<>> /\ pc' = 0 /\ len' = 0 /\ marks' = <<0>> /\ ~Busy' /\ ~enabled'
  BY <1>1 DEF Busy
<1>3. Lists'
  BY <1>2 DEF Lists, Busy
<1>4. Chain'
  BY <1>2 DEF Chain
<1>5. Snapshots'
  <2> SUFFICES ASSUME NEW k \in 0..0
               PROVE  snaps'[k + 1] = After(log', View', marks'[k + 1])
    BY <1>2, Zenon DEF Snapshots
  <2>1. k = 0
    OBVIOUS
  <2> QED  BY <1>2, <2>1 DEF After
<1> QED
  BY <1>3, <1>4, <1>5

(* What a command has to establish for the invariant to hold after it.     *)
LEMMA CommandStep ==
  ASSUME IInv, ~Busy,
         NEW kind \in Kinds, NEW var \in Scalars \cup Owners \cup {Nil},
         NEW val \in Values \cup Objects \cup {Nil}, NEW idx \in Nat,
         Push(kind, var, val, idx),
         UNCHANGED <<enabled, pc, target, clearing, marks>>,
         scal' \in [Scalars -> Values], own' \in [Owners -> Objects \cup {Nil}],
         heap' \in [Objects -> Values \cup {Freed}], stk' \in Seq(Values),
         Ownership',
         enabled =>
           LET t == [kind |-> kind, var |-> var, val |-> val, idx |-> idx, at |-> pc, before |-> View] IN
           /\ WellFormed(t)
           /\ \A i \in 1..Len(log) : OwnedTok(i) => heap'[log[i].val] = heap[log[i].val]
           /\ IdxOK(t, View') /\ View = ViewUndo(t, View', heap')
  PROVE  IInv'
<1> DEFINE t == [kind |-> kind, var |-> var, val |-> val, idx |-> idx, at |-> pc, before |-> View]
<1>1. TypeOK /\ Ownership /\ Lists /\ Chain /\ Snapshots
  BY DEF IInv
<1>2. View \in Views
  BY <1>1, ViewType DEF View, TypeOK, Ownership
<1>3. View' \in Views
  <2>1. \A v \in Owners : own'[v] # Nil => heap'[own'[v]] # Freed
    BY DEF Ownership
  <2> QED  BY <2>1, ViewType DEF View
<1>4. CASE ~enabled
  <2>1. UNCHANGED <<log, len>> /\ snaps' = <<View'>>
    BY <1>4 DEF Push
  <2>2. (Lists /\ Chain /\ Snapshots)'
    BY <1>4, <2>1, DisabledStep
  <2>3. <<View'>> \in Seq(Views)
    BY <1>3
  <2>4. TypeOK'
    BY <1>1, <2>1, <2>3 DEF TypeOK
  <2> QED  BY <2>2, <2>4 DEF IInv
<1>5. CASE enabled
  <2>1. t \in Tokens /\ t.at = pc /\ t.before = View
    BY <1>1, <1>2 DEF Tokens, TypeOK
  <2>2. /\ WellFormed(t)
        /\ \A i \in 1..Len(log) : OwnedTok(i) => heap'[log[i].val] = heap[log[i].val]
        /\ IdxOK(t, View') /\ View = ViewUndo(t, View', heap')
    BY <1>5
  <2>3. /\ log' = Append(log, t) /\ len' = (IF len <= pc THEN pc + 1 ELSE len)
        /\ snaps' = snaps
    BY <1>5 DEF Push
  <2> HIDE DEF t
  <2>4. (Lists /\ Chain /\ Snapshots)'
    BY <1>5, <2>1, <2>2, <2>3, PushStep
  <2>5. TypeOK'
    <3>1. log \in Seq(Tokens) /\ log' \in Seq(Tokens) /\ Len(log') = Len(log) + 1
      BY <1>1, <2>1, <2>3, AppendProperties DEF TypeOK
    <3>2. ASSUME NEW i \in 1..Len(log')
          PROVE  WellFormed(log'[i])
      <4>1. CASE i \in 1..Len(log)
        BY <1>1, <2>3, <4>1, AppendProperties DEF TypeOK
      <4>2. CASE i = Len(log) + 1
        BY <1>1, <2>1, <2>2, <2>3, <4>2, AppendProperties DEF TypeOK
      <4> QED  BY <3>1, <4>1, <4>2
    <3>3. len' \in Nat
      BY <1>1, <2>3 DEF TypeOK
    <3> QED  BY <1>1, <2>3, <3>1, <3>2, <3>3 DEF TypeOK
  <2> QED  BY <2>4, <2>5 DEF IInv
<1> QED
  BY <1>4, <1>5

-----------------------------------------------------------------------------
(* The tokens after a push.                                                *)
LEMMA PushedTokens ==
  ASSUME IInv, enabled, NEW kind, NEW var, NEW val, NEW idx, Push(kind, var, val, idx)
  PROVE  /\ Len(log') = Len(log) + 1 /\ Len(log) \in Nat
         /\ \A i \in 1..Len(log) : log'[i] = log[i]
         /\ log'[Len(log) + 1].kind = kind /\ log'[Len(log) + 1].val = val
<1> DEFINE t == [kind |-> kind, var |-> var, val |-> val, idx |-> idx, at |-> pc, before |-> View]
<1>1. log \in Seq(Tokens) /\ log' = Append(log, t)
  BY DEF IInv, TypeOK, Push
<1>2. t.kind = kind /\ t.val = val
  OBVIOUS
<1> HIDE DEF t
<1>3. log \in Seq(Tokens \cup {t}) /\ t \in Tokens \cup {t}
  BY <1>1, SeqMonotonic, Tokens \subseteq Tokens \cup {t}, Zenon
<1>4. /\ Len(log') = Len(log) + 1
      /\ \A i \in 1..Len(log) : log'[i] = log[i]
      /\ log'[Len(log) + 1] = t
  BY <1>1, <1>3, AppendProperties
<1> QED
  BY <1>1, <1>2, <1>4

(* The owned tokens after a push of a token that holds nothing.            *)
HoldsNothing(kind) == kind # "owned"

(* A token that restores a scalar or an array element owns no heap object, *)
(* so that pushing it (undo__..., TECO_DEFINE_UNDO_CALL) leaves the        *)
(* ownership of all objects as it is.                                      *)
LEMMA PushedOwnsNothing ==
  ASSUME IInv, NEW kind, NEW var, NEW val, NEW idx, Push(kind, var, val, idx), HoldsNothing(kind)
  PROVE  /\ \A i \in 1..Len(log) : i \in 1..Len(log') /\ log'[i] = log[i]
         /\ \A i \in 1..Len(log') : OwnedTok(i)' => i \in 1..Len(log)
<1>1. CASE enabled
  <2>1. /\ Len(log') = Len(log) + 1 /\ Len(log) \in Nat
        /\ \A i \in 1..Len(log) : log'[i] = log[i]
        /\ log'[Len(log) + 1].kind = kind
    BY <1>1, PushedTokens
  <2>2. ASSUME NEW i \in 1..Len(log'), OwnedTok(i)'
        PROVE  i # Len(log) + 1
    BY <2>1, <2>2 DEF OwnedTok, HoldsNothing
  <2> QED  BY <2>1, <2>2
<1>2. CASE ~enabled
  <2>1. log = <<>> /\ log' = <<>>
    BY <1>2 DEF IInv, Lists, Push
  <2> QED  BY <2>1
<1> QED
  BY <1>1, <1>2

(* A change that touches no pointer keeps the owners.                      *)
LEMMA OwnersKept ==
  ASSUME IInv, NEW kind, NEW var, NEW val, NEW idx, Push(kind, var, val, idx),
         HoldsNothing(kind), UNCHANGED <<own, heap>>
  PROVE  Ownership'
<1>1. Ownership
  BY DEF IInv
<1>2. ASSUME NEW i \in 1..Len(log'), OwnedTok(i)'
      PROVE  i \in 1..Len(log) /\ OwnedTok(i) /\ log'[i].val = log[i].val
  <2>1. i \in 1..Len(log) /\ log'[i] = log[i]
    BY <1>2, PushedOwnsNothing
  <2> QED  BY <1>2, <2>1 DEF OwnedTok
<1>3. ASSUME NEW i \in 1..Len(log)
      PROVE  i \in 1..Len(log') /\ log'[i] = log[i]
  BY PushedOwnsNothing
<1>4. \A i \in 1..Len(log) : OwnedTok(i) => OwnedTok(i)'
  BY <1>3 DEF OwnedTok
<1>5. own' = own /\ heap' = heap
  OBVIOUS
<1>6. \A v \in Owners : \A i \in 1..Len(log') : OwnedTok(i)' => own'[v] # log'[i].val
  <2> SUFFICES ASSUME NEW v \in Owners, NEW i \in 1..Len(log'), OwnedTok(i)'
               PROVE  own'[v] # log'[i].val
    OBVIOUS
  <2>1. own[v] # log[i].val
    BY <1>1, <1>2, Zenon DEF Ownership
  <2> QED  BY <1>2, <1>5, <2>1
<1>7. \A i, j \in 1..Len(log') : OwnedTok(i)' /\ OwnedTok(j)' /\ log'[i].val = log'[j].val => i = j
  BY <1>1, <1>2, Zenon DEF Ownership
<1>8. \A i \in 1..Len(log') : OwnedTok(i)' => heap'[log'[i].val] # Freed
  BY <1>1, <1>2, <1>5, Zenon DEF Ownership
<1>9. ASSUME NEW o \in Objects, heap'[o] # Freed
      PROVE  \/ \E v \in Owners : own'[v] = o
             \/ \E i \in 1..Len(log') : OwnedTok(i)' /\ log'[i].val = o
  <2>1. CASE \E v \in Owners : own[v] = o
    BY <1>5, <2>1
  <2>2. CASE \E i \in 1..Len(log) : OwnedTok(i) /\ log[i].val = o
    BY <1>3, <1>4, <2>2
  <2> QED  BY <1>1, <1>5, <1>9, <2>1, <2>2 DEF Ownership
<1>10. /\ \A v, w \in Owners : own'[v] # Nil /\ own'[v] = own'[w] => v = w
       /\ \A v \in Owners : own'[v] # Nil => heap'[own'[v]] # Freed
  BY <1>1, <1>5 DEF Ownership
<1> QED
  BY <1>6, <1>7, <1>8, <1>9, <1>10, Zenon DEF Ownership

(* Setting a scalar behind teco_undo_gint() and the like preserves the     *)
(* invariant: its token leads back to the state before.                    *)
LEMMA SetScalarStep ==
  ASSUME IInv, NEW v \in Scalars, NEW x \in Values, SetScalar(v, x)
  PROVE  IInv'
<1>1. /\ scal \in [Scalars -> Values] /\ own \in [Owners -> Objects \cup {Nil}]
      /\ heap \in [Objects -> Values \cup {Freed}] /\ stk \in Seq(Values)
  BY DEF IInv, TypeOK
<1>2. /\ ~Busy /\ Push("scalar", v, scal[v], 0) /\ scal' = [scal EXCEPT ![v] = x]
      /\ UNCHANGED <<own, heap, stk>> /\ UNCHANGED <<enabled, pc, target, clearing, marks>>
  BY DEF SetScalar
<1>3. Ownership'
  BY <1>2, OwnersKept DEF HoldsNothing
<1>4. ASSUME NEW t, t = [kind |-> "scalar", var |-> v, val |-> scal[v], idx |-> 0, at |-> pc, before |-> View]
      PROVE  /\ WellFormed(t) /\ IdxOK(t, View')
             /\ View = ViewUndo(t, View', heap')
  <2>1. View' = ViewOf(scal', own, heap, stk)
    BY <1>2 DEF View
  <2>2. ViewUndo(t, View', heap') = [View' EXCEPT !.scal = [View'.scal EXCEPT ![v] = scal[v]]]
    BY <1>4 DEF ViewUndo
  <2>3. [scal' EXCEPT ![v] = scal[v]] = scal
    BY <1>1, <1>2
  <2>4. View = ViewUndo(t, View', heap')
    BY <2>1, <2>2, <2>3 DEF View, ViewOf
  <2> QED  BY <1>1, <1>4, <2>4 DEF WellFormed, IdxOK
<1>5. "scalar" \in Kinds /\ scal[v] \in Values \cup Objects \cup {Nil} /\ v \in Scalars \cup Owners \cup {Nil}
      /\ scal' \in [Scalars -> Values] /\ 0 \in Nat
  BY <1>1, <1>2 DEF Kinds
<1> QED
  BY <1>1, <1>2, <1>3, <1>4, <1>5, CommandStep

(* Appending to an array (push_int, loop_open) preserves the invariant:    *)
(* the token removes the element at the index that it was appended at.     *)
LEMMA AppendValStep ==
  ASSUME IInv, NEW x \in Values, AppendVal(x)
  PROVE  IInv'
<1>1. /\ scal \in [Scalars -> Values] /\ own \in [Owners -> Objects \cup {Nil}]
      /\ heap \in [Objects -> Values \cup {Freed}] /\ stk \in Seq(Values) /\ Len(stk) \in Nat
  BY DEF IInv, TypeOK
<1>2. /\ ~Busy /\ Push("remove", Nil, Nil, Len(stk) + 1) /\ stk' = Append(stk, x)
      /\ UNCHANGED <<scal, own, heap>> /\ UNCHANGED <<enabled, pc, target, clearing, marks>>
  BY DEF AppendVal
<1>3. Ownership'
  BY <1>2, OwnersKept DEF HoldsNothing
<1>4. ASSUME NEW t, t = [kind |-> "remove", var |-> Nil, val |-> Nil, idx |-> Len(stk) + 1, at |-> pc, before |-> View]
      PROVE  /\ WellFormed(t) /\ IdxOK(t, View')
             /\ View = ViewUndo(t, View', heap')
  <2>1. View' = ViewOf(scal, own, heap, stk')
    BY <1>2 DEF View
  <2>2. ViewUndo(t, View', heap') = [View' EXCEPT !.stk = RemoveAt(View'.stk, Len(stk) + 1)]
    BY <1>4 DEF ViewUndo
  <2>3. RemoveAt(stk', Len(stk) + 1) = stk
    BY <1>1, <1>2, RemoveUndoesAppend
  <2>4. View = ViewUndo(t, View', heap')
    BY <2>1, <2>2, <2>3 DEF View, ViewOf
  <2>5. Len(stk') = Len(stk) + 1
    BY <1>1, <1>2, AppendProperties
  <2>6. Len(stk) + 1 \in 1..Len(View'.stk)
    BY <1>1, <2>1, <2>5 DEF ViewOf
  <2>7. WellFormed(t) /\ IdxOK(t, View')
    BY <1>1, <1>4, <2>6 DEF WellFormed, IdxOK
  <2> QED  BY <2>4, <2>7
<1>5. "remove" \in Kinds /\ Nil \in Values \cup Objects \cup {Nil} /\ Nil \in Scalars \cup Owners \cup {Nil}
      /\ stk' \in Seq(Values) /\ Len(stk) + 1 \in Nat
  BY <1>1, <1>2, AppendProperties DEF Kinds
<1> QED
  BY <1>1, <1>2, <1>3, <1>4, <1>5, CommandStep

(* Removing an element (pop_num, loop_close) preserves the invariant: the  *)
(* token inserts it again where it was.                                    *)
LEMMA RemoveIndexStep ==
  ASSUME IInv, NEW i \in 1..Len(stk), RemoveIndex(i)
  PROVE  IInv'
<1>1. /\ scal \in [Scalars -> Values] /\ own \in [Owners -> Objects \cup {Nil}]
      /\ heap \in [Objects -> Values \cup {Freed}] /\ stk \in Seq(Values) /\ Len(stk) \in Nat
      /\ stk[i] \in Values /\ i \in Nat /\ i >= 1
  BY ElementOfSeq DEF IInv, TypeOK
<1>2. /\ ~Busy /\ Push("insert", Nil, stk[i], i) /\ stk' = RemoveAt(stk, i)
      /\ UNCHANGED <<scal, own, heap>> /\ UNCHANGED <<enabled, pc, target, clearing, marks>>
  BY DEF RemoveIndex
<1>3. Ownership'
  BY <1>2, OwnersKept DEF HoldsNothing
<1>4. ASSUME NEW t, t = [kind |-> "insert", var |-> Nil, val |-> stk[i], idx |-> i, at |-> pc, before |-> View]
      PROVE  /\ WellFormed(t) /\ IdxOK(t, View')
             /\ View = ViewUndo(t, View', heap')
  <2>1. View' = ViewOf(scal, own, heap, stk')
    BY <1>2 DEF View
  <2>2. ViewUndo(t, View', heap') = [View' EXCEPT !.stk = InsertAt(View'.stk, i, stk[i])]
    BY <1>4 DEF ViewUndo
  <2>3. InsertAt(stk', i, stk[i]) = stk
    BY <1>1, <1>2, InsertUndoesRemove
  <2>4. View = ViewUndo(t, View', heap')
    BY <2>1, <2>2, <2>3 DEF View, ViewOf
  <2>5. Len(stk') = Len(stk) - 1
    BY <1>1, <1>2, RemoveAtProps
  <2>6. i \in 1..(Len(View'.stk) + 1)
    BY <1>1, <2>1, <2>5 DEF ViewOf
  <2>7. WellFormed(t) /\ IdxOK(t, View')
    BY <1>1, <1>4, <2>6 DEF WellFormed, IdxOK
  <2> QED  BY <2>4, <2>7
<1>5. "insert" \in Kinds /\ stk[i] \in Values \cup Objects \cup {Nil} /\ Nil \in Scalars \cup Owners \cup {Nil}
      /\ stk' \in Seq(Values)
  BY <1>1, <1>2, RemoveAtProps DEF Kinds
<1> QED
  BY <1>1, <1>2, <1>3, <1>4, <1>5, CommandStep

-----------------------------------------------------------------------------
(* Commands that replace or change the object a variable owns.             *)

(* The owned tokens after the push of an owning token.                     *)
LEMMA PushedOwner ==
  ASSUME IInv, enabled, NEW var, NEW val, Push("owned", var, val, 0)
  PROVE  /\ \A i \in 1..Len(log) : /\ i \in 1..Len(log') /\ (OwnedTok(i)' <=> OwnedTok(i))
                                   /\ log'[i].val = log[i].val
         /\ \A i \in 1..Len(log') :
              i \in 1..Len(log) \/ (i = Len(log) + 1 /\ log'[i].val = val)
         /\ val # Nil => \E i \in 1..Len(log') : OwnedTok(i)' /\ log'[i].val = val
<1>1. /\ Len(log') = Len(log) + 1 /\ Len(log) \in Nat
      /\ \A i \in 1..Len(log) : log'[i] = log[i]
      /\ log'[Len(log) + 1].kind = "owned" /\ log'[Len(log) + 1].val = val
  BY PushedTokens, Zenon
<1>2. Len(log) + 1 \in 1..Len(log') /\ \A i \in 1..Len(log) : i \in 1..Len(log')
  BY <1>1
<1>3. \A i \in 1..Len(log') : i \in 1..Len(log) \/ i = Len(log) + 1
  BY <1>1
<1>4. ASSUME val # Nil, NEW n, n = Len(log) + 1
      PROVE  OwnedTok(n)' /\ log'[n].val = val
  BY <1>1, <1>4, Zenon DEF OwnedTok
<1>5. ASSUME NEW i \in 1..Len(log)
      PROVE  (OwnedTok(i)' <=> OwnedTok(i)) /\ log'[i].val = log[i].val
  <2>1. log'[i] = log[i]
    BY <1>1
  <2> QED  BY <2>1 DEF OwnedTok
<1>6. ASSUME NEW i \in 1..Len(log')
      PROVE  i \in 1..Len(log) \/ (i = Len(log) + 1 /\ log'[i].val = val)
  <2>1. CASE i = Len(log) + 1
    BY <1>1, <2>1, Zenon
  <2> QED  BY <1>3, <2>1, Zenon
<1>7. ASSUME val # Nil PROVE \E i \in 1..Len(log') : OwnedTok(i)' /\ log'[i].val = val
  BY <1>2, <1>4, <1>7, Zenon
<1> QED
  BY <1>2, <1>5, <1>6, <1>7, Zenon

(* Ownership before and after, in batch mode: there are no tokens.         *)
LEMMA BatchOwnership ==
  ASSUME IInv, ~enabled, log' = log,
         \A v, w \in Owners : own'[v] # Nil /\ own'[v] = own'[w] => v = w,
         \A v \in Owners : own'[v] # Nil => heap'[own'[v]] # Freed,
         \A o \in Objects : heap'[o] # Freed => \E v \in Owners : own'[v] = o
  PROVE  Ownership'
<1>1. log = <<>> /\ log' = <<>> /\ Len(log') = 0
  BY DEF IInv, Lists
<1>2. \A i \in 1..Len(log') : FALSE
  BY <1>1
<1> QED
  BY <1>2, Zenon DEF Ownership

(* Replacing a string whose old object is passed to the token              *)
(* (teco_undo_string_own) preserves the invariant: the object has changed  *)
(* its owner.                                                              *)
LEMMA ReplaceOwnedStep ==
  ASSUME IInv, NEW v \in Owners, NEW x \in Values, ReplaceOwned(v, x)
  PROVE  IInv'
<1>1. /\ scal \in [Scalars -> Values] /\ own \in [Owners -> Objects \cup {Nil}]
      /\ heap \in [Objects -> Values \cup {Freed}] /\ stk \in Seq(Values) /\ Ownership
  BY DEF IInv, TypeOK
<1>2. /\ ~Busy /\ Push("owned", v, own[v], 0) /\ UNCHANGED <<scal, stk>>
      /\ UNCHANGED <<enabled, pc, target, clearing, marks>>
  BY DEF ReplaceOwned
<1>3. PICK o \in Objects :
        /\ heap[o] = Freed /\ own' = [own EXCEPT ![v] = o]
        /\ heap' = [(IF enabled THEN heap ELSE Delete(heap, own[v])) EXCEPT ![o] = x]
  BY DEF ReplaceOwned
<1>4. x # Freed /\ o # Nil /\ own'[v] = o /\ \A w \in Owners : w # v => own'[w] = own[w]
  BY <1>1, <1>3, UndoAssumption
<1>5. own' \in [Owners -> Objects \cup {Nil}] /\ heap' \in [Objects -> Values \cup {Freed}]
  BY <1>1, <1>3 DEF Delete
<1>6. \A w \in Owners : own[w] # o
  BY <1>1, <1>3, <1>4 DEF Ownership
<1>7. \A i \in 1..Len(log) : OwnedTok(i) => log[i].val # o
  BY <1>1, <1>3 DEF Ownership
<1>8. \A i \in 1..Len(log) : OwnedTok(i) => log[i].val \in Objects
  <2> SUFFICES ASSUME NEW i \in 1..Len(log), OwnedTok(i) PROVE log[i].val \in Objects
    OBVIOUS
  <2>1. WellFormed(log[i]) /\ log[i].kind = "owned" /\ log[i].val # Nil
    BY DEF IInv, TypeOK, OwnedTok
  <2> QED  BY <2>1 DEF WellFormed
<1>9. enabled => \A i \in 1..Len(log) : OwnedTok(i) => heap'[log[i].val] = heap[log[i].val]
  BY <1>1, <1>3, <1>7, <1>8
<1>10. CASE ~enabled
  <2>1. log' = log
    BY <1>2, <1>10 DEF Push
  <2>2. \A w, u \in Owners : own'[w] # Nil /\ own'[w] = own'[u] => w = u
    BY <1>1, <1>4, <1>6 DEF Ownership
  <2>3. \A w \in Owners : own'[w] # Nil => heap'[own'[w]] # Freed
    BY <1>1, <1>3, <1>4, <1>5, <1>10 DEF Ownership, Delete
  <2>4. ASSUME NEW p \in Objects, heap'[p] # Freed
        PROVE  \E w \in Owners : own'[w] = p
    <3>1. CASE p = o
      BY <1>4, <3>1
    <3>2. CASE p # o
      <4>1. heap[p] # Freed /\ own[v] # p
        BY <1>1, <1>3, <1>10, <2>4, <3>2, UndoAssumption DEF Delete
      <4>2. \A i \in 1..Len(log) : FALSE
        <5>1. log = <<>> /\ Len(log) = 0
          BY <1>10 DEF IInv, Lists
        <5> QED  BY <5>1
      <4>3. PICK w \in Owners : own[w] = p
        BY <1>1, <4>1, <4>2, Zenon DEF Ownership
      <4> QED  BY <1>4, <4>1, <4>3
    <3> QED  BY <3>1, <3>2
  <2>5. Ownership'
    BY <1>10, <2>1, <2>2, <2>3, <2>4, BatchOwnership
  <2>6. "owned" \in Kinds /\ own[v] \in Values \cup Objects \cup {Nil} /\ v \in Scalars \cup Owners \cup {Nil}
        /\ scal' \in [Scalars -> Values] /\ stk' \in Seq(Values) /\ 0 \in Nat
    BY <1>1, <1>2 DEF Kinds
  <2> QED  BY <1>2, <1>5, <1>10, <2>5, <2>6, CommandStep
<1>11. CASE enabled
  <2>1. heap' = [heap EXCEPT ![o] = x]
    BY <1>3, <1>11
  <2>2. Ownership'
    <3>1. /\ \A i \in 1..Len(log) : /\ i \in 1..Len(log') /\ (OwnedTok(i)' <=> OwnedTok(i))
                                    /\ log'[i].val = log[i].val
          /\ \A i \in 1..Len(log') :
               i \in 1..Len(log) \/ (i = Len(log) + 1 /\ log'[i].val = own[v])
          /\ own[v] # Nil => \E i \in 1..Len(log') : OwnedTok(i)' /\ log'[i].val = own[v]
      BY <1>2, <1>11, PushedOwner
    <3>2. \A w, u \in Owners : own'[w] # Nil /\ own'[w] = own'[u] => w = u
      BY <1>1, <1>4, <1>6 DEF Ownership
    <3>3. ASSUME NEW i \in 1..Len(log'), OwnedTok(i)'
          PROVE  \/ i \in 1..Len(log) /\ OwnedTok(i) /\ log'[i].val = log[i].val
                 \/ i = Len(log) + 1 /\ log'[i].val = own[v] /\ own[v] # Nil
      <4>1. log'[i].val # Nil
        BY <3>3 DEF OwnedTok
      <4> QED  BY <3>1, <3>3, <4>1
    <3>4. \A w \in Owners : \A i \in 1..Len(log') : OwnedTok(i)' => own'[w] # log'[i].val
      <4> SUFFICES ASSUME NEW w \in Owners, NEW i \in 1..Len(log'), OwnedTok(i)'
                   PROVE  own'[w] # log'[i].val
        OBVIOUS
      <4>1. CASE i \in 1..Len(log) /\ OwnedTok(i) /\ log'[i].val = log[i].val
        <5>1. own[w] # log[i].val /\ o # log[i].val
          BY <1>1, <1>7, <4>1 DEF Ownership
        <5> QED  BY <1>4, <4>1, <5>1
      <4>2. CASE log'[i].val = own[v] /\ own[v] # Nil
        <5>1. w # v => own[w] # own[v]
          BY <1>1, <4>2 DEF Ownership
        <5> QED  BY <1>4, <1>6, <4>2, <5>1
      <4> QED  BY <3>3, <4>1, <4>2
    <3>5. \A i, j \in 1..Len(log') : OwnedTok(i)' /\ OwnedTok(j)' /\ log'[i].val = log'[j].val => i = j
      <4> SUFFICES ASSUME NEW i \in 1..Len(log'), NEW j \in 1..Len(log'),
                          OwnedTok(i)', OwnedTok(j)', log'[i].val = log'[j].val
                   PROVE  i = j
        OBVIOUS
      <4>1. \A k \in 1..Len(log) : OwnedTok(k) => own[v] # log[k].val
        BY <1>1 DEF Ownership
      <4>2. \A k, l \in 1..Len(log) : OwnedTok(k) /\ OwnedTok(l) /\ log[k].val = log[l].val => k = l
        BY <1>1 DEF Ownership
      <4> QED  BY <3>3, <4>1, <4>2
    <3>6. \A w \in Owners : own'[w] # Nil => heap'[own'[w]] # Freed
      BY <1>1, <1>4, <1>6, <2>1 DEF Ownership
    <3>7. \A i \in 1..Len(log') : OwnedTok(i)' => heap'[log'[i].val] # Freed
      <4> SUFFICES ASSUME NEW i \in 1..Len(log'), OwnedTok(i)' PROVE heap'[log'[i].val] # Freed
        OBVIOUS
      <4>1. CASE i \in 1..Len(log) /\ OwnedTok(i) /\ log'[i].val = log[i].val
        <5>1. heap[log[i].val] # Freed
          BY <1>1, <4>1 DEF Ownership
        <5> QED  BY <1>9, <1>11, <4>1, <5>1
      <4>2. CASE log'[i].val = own[v] /\ own[v] # Nil
        BY <1>1, <1>6, <2>1, <4>2 DEF Ownership
      <4> QED  BY <3>3, <4>1, <4>2
    <3>8. ASSUME NEW p \in Objects, heap'[p] # Freed
          PROVE  \/ \E w \in Owners : own'[w] = p
                 \/ \E i \in 1..Len(log') : OwnedTok(i)' /\ log'[i].val = p
      <4>1. CASE p = o
        BY <1>4, <4>1
      <4>2. CASE p # o
        <5>1. heap[p] # Freed
          BY <1>1, <2>1, <3>8, <4>2
        <5>2. CASE \E w \in Owners : own[w] = p
          <6>1. PICK w \in Owners : own[w] = p
            BY <5>2
          <6>2. CASE w = v
            BY <3>1, <6>1, <6>2, UndoAssumption
          <6>3. CASE w # v
            BY <1>4, <6>1, <6>3
          <6> QED  BY <6>2, <6>3
        <5>3. CASE \E i \in 1..Len(log) : OwnedTok(i) /\ log[i].val = p
          BY <3>1, <5>3
        <5> QED  BY <1>1, <5>1, <5>2, <5>3 DEF Ownership
      <4> QED  BY <4>1, <4>2
    <3> QED  BY <3>2, <3>4, <3>5, <3>6, <3>7, <3>8, Zenon DEF Ownership
  <2>3. ASSUME NEW t, t = [kind |-> "owned", var |-> v, val |-> own[v], idx |-> 0, at |-> pc, before |-> View]
        PROVE  /\ WellFormed(t) /\ IdxOK(t, View')
               /\ View = ViewUndo(t, View', heap')
    <3>1. View' = ViewOf(scal, own', heap', stk)
      BY <1>2 DEF View
    <3>2. ViewUndo(t, View', heap') = [View' EXCEPT !.own = [View'.own EXCEPT ![v] = Content(heap', own[v])]]
      BY <2>3 DEF ViewUndo
    <3>3. Content(heap', own[v]) = Content(heap, own[v])
      BY <1>1, <1>6, <2>1 DEF Content
    <3>4. \A w \in Owners : w # v => Content(heap', own'[w]) = Content(heap, own[w])
      BY <1>1, <1>4, <1>6, <2>1 DEF Content
    <3>5. [[w \in Owners |-> Content(heap', own'[w])] EXCEPT ![v] = Content(heap', own[v])]
            = [w \in Owners |-> Content(heap, own[w])]
      BY <3>3, <3>4
    <3>6. View = ViewUndo(t, View', heap')
      BY <3>1, <3>2, <3>5 DEF View, ViewOf
    <3> QED  BY <1>1, <2>3, <3>6 DEF WellFormed, IdxOK
  <2>4. "owned" \in Kinds /\ own[v] \in Values \cup Objects \cup {Nil} /\ v \in Scalars \cup Owners \cup {Nil}
        /\ scal' \in [Scalars -> Values] /\ stk' \in Seq(Values) /\ 0 \in Nat
    BY <1>1, <1>2 DEF Kinds
  <2> QED  BY <1>2, <1>5, <1>9, <1>11, <2>2, <2>3, <2>4, CommandStep
<1> QED
  BY <1>10, <1>11

(* Changing a string whose token keeps a copy (teco_undo_string) preserves *)
(* the invariant: the copy is a new object, or nil.                        *)
LEMMA EditOwnedStep ==
  ASSUME IInv, NEW v \in Owners, NEW x \in Values, EditOwned(v, x)
  PROVE  IInv'
<1>1. /\ scal \in [Scalars -> Values] /\ own \in [Owners -> Objects \cup {Nil}]
      /\ heap \in [Objects -> Values \cup {Freed}] /\ stk \in Seq(Values) /\ Ownership
  BY DEF IInv, TypeOK
<1>2. /\ ~Busy /\ own[v] # Nil /\ UNCHANGED <<scal, own, stk>>
      /\ UNCHANGED <<enabled, pc, target, clearing, marks>>
  BY DEF EditOwned
<1> DEFINE p == own[v]
<1>3. p \in Objects /\ heap[p] \in Values /\ x # Freed
  BY <1>1, <1>2, UndoAssumption DEF Ownership
<1>4. \A w \in Owners : own[w] = p => w = v
  BY <1>1, <1>2 DEF Ownership
<1>5. \A i \in 1..Len(log) : OwnedTok(i) => log[i].val # p
  BY <1>1 DEF Ownership
<1>6. \A i \in 1..Len(log) : OwnedTok(i) => log[i].val \in Objects
  <2> SUFFICES ASSUME NEW i \in 1..Len(log), OwnedTok(i) PROVE log[i].val \in Objects
    OBVIOUS
  <2>1. WellFormed(log[i]) /\ log[i].kind = "owned" /\ log[i].val # Nil
    BY DEF IInv, TypeOK, OwnedTok
  <2> QED  BY <2>1 DEF WellFormed
<1>7. "owned" \in Kinds /\ v \in Scalars \cup Owners \cup {Nil} /\ Nil \in Values \cup Objects \cup {Nil}
      /\ scal' \in [Scalars -> Values] /\ own' \in [Owners -> Objects \cup {Nil}]
      /\ stk' \in Seq(Values) /\ 0 \in Nat
  BY <1>1, <1>2 DEF Kinds
<1>8. CASE ~enabled
  <2>1. Push("owned", v, Nil, 0) /\ heap' = [heap EXCEPT ![p] = x]
    BY <1>8 DEF EditOwned
  <2>2. log' = log
    BY <1>8, <2>1 DEF Push
  <2>3. \A i \in 1..Len(log) : FALSE
    <3>1. log = <<>> /\ Len(log) = 0
      BY <1>8 DEF IInv, Lists
    <3> QED  BY <3>1
  <2>4. heap' \in [Objects -> Values \cup {Freed}]
    BY <1>1, <2>1
  <2>5. \A o \in Objects : heap'[o] # Freed <=> heap[o] # Freed
    BY <1>1, <1>3, <2>1, UndoAssumption
  <2>6. \A w \in Owners : own'[w] # Nil => heap'[own'[w]] # Freed
    BY <1>1, <1>2, <2>5 DEF Ownership
  <2>7. \A w, u \in Owners : own'[w] # Nil /\ own'[w] = own'[u] => w = u
    BY <1>1, <1>2 DEF Ownership
  <2>8. ASSUME NEW o \in Objects, heap'[o] # Freed
        PROVE  \E w \in Owners : own'[w] = o
    BY <1>1, <1>2, <2>3, <2>5, <2>8 DEF Ownership
  <2>9. Ownership'
    BY <1>8, <2>2, <2>6, <2>7, <2>8, BatchOwnership
  <2> QED  BY <1>2, <1>7, <1>8, <2>1, <2>4, <2>9, CommandStep
<1>9. CASE enabled
  <2>1. PICK c \in Objects :
          /\ heap[c] = Freed /\ Push("owned", v, c, 0)
          /\ heap' = [heap EXCEPT ![c] = heap[p], ![p] = x]
    BY <1>9 DEF EditOwned
  <2>2. c # p /\ c # Nil
    BY <1>3, <2>1, UndoAssumption
  <2>3. /\ heap' \in [Objects -> Values \cup {Freed}] /\ heap'[c] = heap[p] /\ heap'[p] = x
        /\ \A o \in Objects : o # c /\ o # p => heap'[o] = heap[o]
    BY <1>1, <1>3, <2>1, <2>2
  <2>4. \A w \in Owners : own[w] # c
    BY <1>1, <2>1, <2>2 DEF Ownership
  <2>5. \A i \in 1..Len(log) : OwnedTok(i) => log[i].val # c
    BY <1>1, <2>1 DEF Ownership
  <2>6. \A i \in 1..Len(log) : OwnedTok(i) => heap'[log[i].val] = heap[log[i].val]
    BY <1>5, <1>6, <2>3, <2>5
  <2>7. Ownership'
    <3>1. /\ \A i \in 1..Len(log) : /\ i \in 1..Len(log') /\ (OwnedTok(i)' <=> OwnedTok(i))
                                    /\ log'[i].val = log[i].val
          /\ \A i \in 1..Len(log') :
               i \in 1..Len(log) \/ (i = Len(log) + 1 /\ log'[i].val = c)
          /\ \E i \in 1..Len(log') : OwnedTok(i)' /\ log'[i].val = c
      BY <1>9, <2>1, <2>2, PushedOwner
    <3>2. \A w, u \in Owners : own'[w] # Nil /\ own'[w] = own'[u] => w = u
      BY <1>1, <1>2 DEF Ownership
    <3>3. ASSUME NEW i \in 1..Len(log'), OwnedTok(i)'
          PROVE  \/ i \in 1..Len(log) /\ OwnedTok(i) /\ log'[i].val = log[i].val
                 \/ i = Len(log) + 1 /\ log'[i].val = c
      BY <3>1, <3>3
    <3>4. \A w \in Owners : \A i \in 1..Len(log') : OwnedTok(i)' => own'[w] # log'[i].val
      <4> SUFFICES ASSUME NEW w \in Owners, NEW i \in 1..Len(log'), OwnedTok(i)'
                   PROVE  own'[w] # log'[i].val
        OBVIOUS
      <4>1. CASE i \in 1..Len(log) /\ OwnedTok(i) /\ log'[i].val = log[i].val
        <5>1. own[w] # log[i].val
          BY <1>1, <4>1 DEF Ownership
        <5> QED  BY <1>2, <4>1, <5>1
      <4>2. CASE log'[i].val = c
        BY <1>2, <2>4, <4>2
      <4> QED  BY <3>3, <4>1, <4>2
    <3>5. \A i, j \in 1..Len(log') : OwnedTok(i)' /\ OwnedTok(j)' /\ log'[i].val = log'[j].val => i = j
      <4> SUFFICES ASSUME NEW i \in 1..Len(log'), NEW j \in 1..Len(log'),
                          OwnedTok(i)', OwnedTok(j)', log'[i].val = log'[j].val
                   PROVE  i = j
        OBVIOUS
      <4>1. \A k, l \in 1..Len(log) : OwnedTok(k) /\ OwnedTok(l) /\ log[k].val = log[l].val => k = l
        BY <1>1 DEF Ownership
      <4> QED  BY <2>5, <3>3, <4>1
    <3>6. \A w \in Owners : own'[w] # Nil => heap'[own'[w]] # Freed
      BY <1>1, <1>2, <1>3, <2>3, <2>4 DEF Ownership
    <3>7. \A i \in 1..Len(log') : OwnedTok(i)' => heap'[log'[i].val] # Freed
      <4> SUFFICES ASSUME NEW i \in 1..Len(log'), OwnedTok(i)' PROVE heap'[log'[i].val] # Freed
        OBVIOUS
      <4>1. CASE i \in 1..Len(log) /\ OwnedTok(i) /\ log'[i].val = log[i].val
        <5>1. heap[log[i].val] # Freed
          BY <1>1, <4>1 DEF Ownership
        <5> QED  BY <2>6, <4>1, <5>1
      <4>2. CASE log'[i].val = c
        BY <1>3, <2>3, <4>2, UndoAssumption
      <4> QED  BY <3>3, <4>1, <4>2
    <3>8. ASSUME NEW o \in Objects, heap'[o] # Freed
          PROVE  \/ \E w \in Owners : own'[w] = o
                 \/ \E i \in 1..Len(log') : OwnedTok(i)' /\ log'[i].val = o
      <4>1. CASE o = c
        BY <3>1, <4>1
      <4>2. CASE o # c
        <5>1. heap[o] # Freed
          BY <1>3, <2>3, <3>8, <4>2, UndoAssumption
        <5>2. CASE \E w \in Owners : own[w] = o
          BY <1>2, <5>2
        <5>3. CASE \E i \in 1..Len(log) : OwnedTok(i) /\ log[i].val = o
          BY <3>1, <5>3
        <5> QED  BY <1>1, <5>1, <5>2, <5>3 DEF Ownership
      <4> QED  BY <4>1, <4>2
    <3> QED  BY <3>2, <3>4, <3>5, <3>6, <3>7, <3>8, Zenon DEF Ownership
  <2>8. ASSUME NEW t, t = [kind |-> "owned", var |-> v, val |-> c, idx |-> 0, at |-> pc, before |-> View]
        PROVE  /\ WellFormed(t) /\ IdxOK(t, View')
               /\ View = ViewUndo(t, View', heap')
    <3>1. View' = ViewOf(scal, own, heap', stk)
      BY <1>2 DEF View
    <3>2. ViewUndo(t, View', heap') = [View' EXCEPT !.own = [View'.own EXCEPT ![v] = Content(heap', c)]]
      BY <2>8 DEF ViewUndo
    <3>3. Content(heap', c) = Content(heap, own[v])
      BY <1>2, <2>2, <2>3 DEF Content
    <3>4. \A w \in Owners : w # v => Content(heap', own[w]) = Content(heap, own[w])
      BY <1>1, <1>4, <2>3, <2>4 DEF Content
    <3>5. [[w \in Owners |-> Content(heap', own[w])] EXCEPT ![v] = Content(heap', c)]
            = [w \in Owners |-> Content(heap, own[w])]
      BY <3>3, <3>4
    <3>6. View = ViewUndo(t, View', heap')
      BY <3>1, <3>2, <3>5 DEF View, ViewOf
    <3> QED  BY <1>1, <2>8, <3>6 DEF WellFormed, IdxOK
  <2> QED  BY <1>2, <1>7, <1>9, <2>1, <2>3, <2>6, <2>7, <2>8, CommandStep
<1> QED
  BY <1>8, <1>9

-----------------------------------------------------------------------------
(* The other steps.                                                        *)

(* What the invariant says about the latest token.                         *)
LEMMA MarksAreNat ==
  ASSUME IInv, NEW n \in 0..pc
  PROVE  marks[n + 1] \in Nat /\ snaps[n + 1] \in Views
<1>1. n + 1 \in 1..Len(marks) /\ n + 1 \in 1..Len(snaps) /\ marks \in Seq(Nat) /\ snaps \in Seq(Views)
  BY DEF IInv, TypeOK, Lists
<1> QED
  BY <1>1, ElementOfSeq

(* Executing the next character (teco_cmdline_insert) preserves the        *)
(* invariant: the lists end at the character that is executed.             *)
LEMMA NextCharStep ==
  ASSUME IInv, NextChar
  PROVE  IInv'
<1>1. /\ TypeOK /\ Ownership /\ Lists /\ Chain /\ Snapshots
      /\ pc \in Nat /\ marks \in Seq(Nat) /\ snaps \in Seq(Views) /\ Len(log) \in Nat
  BY DEF IInv, TypeOK
<1>2. /\ ~Busy /\ enabled /\ pc' = pc + 1
      /\ snaps' = Append(snaps, View) /\ marks' = Append(marks, Len(log))
      /\ UNCHANGED <<enabled, scal, own, heap, stk, log, len, target, clearing>>
  BY DEF NextChar
<1>3. View \in Views /\ View' = View
  BY <1>1, <1>2, ViewType DEF View, TypeOK, Ownership
<1>4. /\ marks' \in Seq(Nat) /\ Len(marks') = pc + 2
      /\ snaps' \in Seq(Views) /\ Len(snaps') = pc + 2
      /\ Len(marks) = pc + 1 /\ Len(snaps) = pc + 1
      /\ \A k \in 1..(pc + 1) : marks'[k] = marks[k] /\ snaps'[k] = snaps[k]
      /\ marks'[pc + 2] = Len(log) /\ snaps'[pc + 2] = View
  BY <1>1, <1>2, <1>3, AppendProperties DEF Lists
<1>5. \A n \in 0..pc : n + 1 \in 1..(pc + 1)
  BY <1>1
<1>6. \A n \in 0..pc' : n \in 0..pc \/ n = pc + 1
  BY <1>1, <1>2
<1>7. \A n \in 0..pc : marks'[n + 1] = marks[n + 1] /\ snaps'[n + 1] = snaps[n + 1] /\ marks[n + 1] \in Nat
  BY <1>4, <1>5, MarksAreNat
<1>8. \A n \in 0..pc : marks[n + 1] <= Len(log)
  BY <1>1, <1>2 DEF Lists
<1>9. TypeOK'
  BY <1>1, <1>2, <1>4 DEF TypeOK
<1>10. Ownership'
  BY <1>1, <1>2 DEF Ownership, OwnedTok
<1>11. \A i \in 1..Len(log) : log[i].at \in Nat /\ log[i].at < pc + 1
  <2> SUFFICES ASSUME NEW i \in 1..Len(log) PROVE log[i].at \in Nat /\ log[i].at < pc + 1
    OBVIOUS
  <2>1. log[i] \in Tokens
    BY <1>1, ElementOfSeq DEF TypeOK
  <2>2. log[i].at \in Nat /\ log[i].at < len /\ len \in Nat /\ len <= pc + 1
    BY <1>1, <2>1 DEF Tokens, Lists, TypeOK
  <2> QED  BY <1>1, <2>2
<1>12. Lists'
  <2>a. /\ \A i \in 1..Len(log), n \in 0..pc : i > marks[n + 1] <=> log[i].at >= n
        /\ \A m, n \in 0..pc : m <= n => marks[m + 1] <= marks[n + 1]
    BY <1>1, Zenon DEF Lists
  <2>1. \A i \in 1..Len(log), n \in 0..pc' : i > marks'[n + 1] <=> log[i].at >= n
    <3> SUFFICES ASSUME NEW i \in 1..Len(log), NEW n \in 0..pc'
                 PROVE  i > marks'[n + 1] <=> log[i].at >= n
      OBVIOUS
    <3>1. CASE n \in 0..pc
      BY <1>7, <2>a, <3>1, Zenon
    <3>2. CASE n = pc + 1
      <4>1. marks'[n + 1] = Len(log) /\ i <= Len(log)
        BY <1>1, <1>4, <3>2
      <4> QED  BY <1>1, <1>11, <3>2, <4>1
    <3> QED  BY <1>6, <3>1, <3>2
  <2>2. \A m, n \in 0..pc' : m <= n => marks'[m + 1] <= marks'[n + 1]
    <3> SUFFICES ASSUME NEW m \in 0..pc', NEW n \in 0..pc', m <= n
                 PROVE  marks'[m + 1] <= marks'[n + 1]
      OBVIOUS
    <3>1. CASE n \in 0..pc
      <4>1. m \in 0..pc
        BY <1>1, <3>1
      <4> QED  BY <1>7, <2>a, <3>1, <4>1, Zenon
    <3>2. CASE n = pc + 1 /\ m \in 0..pc
      <4>1. n + 1 = pc + 2
        BY <1>1, <3>2
      <4>2. marks'[n + 1] = Len(log) /\ marks'[m + 1] = marks[m + 1] /\ marks[m + 1] <= Len(log)
        BY <1>4, <1>7, <1>8, <3>2, <4>1
      <4> QED  BY <4>2
    <3>3. CASE n = pc + 1 /\ m = pc + 1
      BY <1>1, <1>4, <3>3
    <3> QED  BY <1>6, <3>1, <3>2, <3>3
  <2>3. \A n \in 0..pc' : marks'[n + 1] <= Len(log)
    <3> SUFFICES ASSUME NEW n \in 0..pc' PROVE marks'[n + 1] <= Len(log)
      OBVIOUS
    <3>1. CASE n \in 0..pc
      BY <1>7, <1>8, <3>1
    <3>2. CASE n = pc + 1
      BY <1>1, <1>4, <3>2
    <3> QED  BY <1>6, <3>1, <3>2
  <2>4. len' <= pc' + 1 /\ \A i \in 1..Len(log) : log[i].at < len
    BY <1>1, <1>2 DEF Lists, TypeOK
  <2>5. ~Busy' /\ target' = NoPop
    BY <1>2 DEF Busy
  <2>6. Len(marks') = pc' + 1 /\ Len(snaps') = pc' + 1
    BY <1>1, <1>2, <1>4
  <2>7. log' = log /\ len' = len /\ enabled'
    BY <1>2
  <2> QED  BY <2>1, <2>2, <2>3, <2>4, <2>5, <2>6, <2>7, Zenon DEF Lists
<1>13. Chain'
  BY <1>1, <1>2, <1>3, Zenon DEF Chain
<1>14. Snapshots'
  <2> SUFFICES ASSUME NEW n \in 0..pc'
               PROVE  snaps'[n + 1] = After(log, View, marks'[n + 1])
    BY <1>2, <1>3, Zenon DEF Snapshots
  <2>1. CASE n \in 0..pc
    <3>1. ~clearing
      BY <1>2 DEF Busy
    <3>2. snaps[n + 1] = After(log, View, marks[n + 1])
      BY <1>1, <1>8, <2>1, <3>1, Zenon DEF Snapshots
    <3> QED  BY <1>7, <2>1, <3>2
  <2>2. CASE n = pc + 1
    <3>1. n + 1 = pc + 2
      BY <1>1, <2>2
    <3> QED  BY <1>4, <3>1 DEF After
  <2> QED  BY <1>6, <2>1, <2>2
<1> QED
  BY <1>9, <1>10, <1>12, <1>13, <1>14 DEF IInv

(* Enabling undo, and beginning to pop or to clear, change no token.       *)
LEMMA BeginSteps ==
  ASSUME IInv, Enable \/ (\E n \in 0..pc : BeginPop(n)) \/ BeginClear
  PROVE  IInv'
<1>1. TypeOK /\ Ownership /\ Lists /\ Chain /\ Snapshots
  BY DEF IInv
<1>2. UNCHANGED <<pc, scal, own, heap, stk, log, len, snaps, marks>> /\ View' = View /\ ~Busy
  BY DEF Enable, BeginPop, BeginClear, View
<1>3. Ownership'
  BY <1>1, <1>2 DEF Ownership, OwnedTok
<1>4. CASE Enable
  <2>1. TypeOK' /\ Lists'
    BY <1>1, <1>2, <1>4 DEF Enable, TypeOK, Lists, Busy
  <2>2. clearing' = clearing
    BY <1>4 DEF Enable
  <2> QED  BY <1>1, <1>2, <1>3, <2>1, <2>2, Zenon DEF IInv, Chain, Snapshots
<1>5. ASSUME NEW n \in 0..pc, BeginPop(n)
      PROVE  IInv'
  <2>1. TypeOK'
    BY <1>1, <1>2, <1>5 DEF BeginPop, TypeOK
  <2>2. Lists'
    <3>1. marks[n + 1] <= Len(log) /\ n <= pc /\ n \in Nat
      <4>1. \A k \in 0..pc : marks[k + 1] <= Len(log)
        BY <1>1, <1>2, Zenon DEF Lists
      <4> QED  BY <1>1, <1>5, <4>1 DEF TypeOK
    <3>2. target' = n /\ n # NoPop /\ enabled' = enabled /\ enabled /\ clearing' = clearing /\ ~clearing
      BY <1>2, <1>5, <3>1, UndoAssumption DEF BeginPop, Busy
    <3> QED  BY <1>1, <1>2, <3>1, <3>2 DEF Lists, Busy
  <2>3. clearing' = clearing
    BY <1>5 DEF BeginPop
  <2> QED  BY <1>1, <1>2, <1>3, <2>1, <2>2, <2>3, Zenon DEF IInv, Chain, Snapshots
<1>6. CASE BeginClear
  <2>1. TypeOK' /\ Lists' /\ clearing'
    BY <1>1, <1>2, <1>6 DEF BeginClear, TypeOK, Lists, Busy
  <2> QED  BY <1>3, <2>1 DEF IInv, Chain, Snapshots
<1> QED
  BY <1>4, <1>5, <1>6

-----------------------------------------------------------------------------
(* Popping.                                                                *)

(* The view after a token ran is the one recorded in it.                   *)
LEMMA RunTokenView ==
  ASSUME IInv, NEW t \in Tokens, WellFormed(t), RunToken(t), IdxOK(t, View),
         t.kind = "owned" /\ t.val # Nil => /\ \A v \in Owners : own[v] # t.val
                                            /\ heap[t.val] # Freed
  PROVE  /\ View' = ViewUndo(t, View, heap)
         /\ scal' \in [Scalars -> Values] /\ own' \in [Owners -> Objects \cup {Nil}]
         /\ heap' \in [Objects -> Values \cup {Freed}] /\ stk' \in Seq(Values)
<1>1. /\ scal \in [Scalars -> Values] /\ own \in [Owners -> Objects \cup {Nil}]
      /\ heap \in [Objects -> Values \cup {Freed}] /\ stk \in Seq(Values) /\ Len(stk) \in Nat
      /\ Ownership
  BY DEF IInv, TypeOK
<1>2. View = ViewOf(scal, own, heap, stk) /\ View' = ViewOf(scal', own', heap', stk') /\ View.stk = stk
  BY DEF View, ViewOf
<1>3. t.kind \in Kinds
  BY DEF Tokens
<1>4. CASE t.kind = "scalar"
  <2>1. t.var \in Scalars /\ t.val \in Values
    BY <1>4 DEF WellFormed
  <2>2. /\ scal' = [scal EXCEPT ![t.var] = t.val] /\ UNCHANGED <<own, heap, stk>>
    BY <1>4 DEF RunToken
  <2>3. ViewUndo(t, View, heap) = [View EXCEPT !.scal = [View.scal EXCEPT ![t.var] = t.val]]
    BY <1>4 DEF ViewUndo
  <2>4. scal' \in [Scalars -> Values]
    BY <1>1, <2>1, <2>2
  <2>5. View' = [scal |-> scal', own |-> View.own, stk |-> View.stk] /\ View.scal = scal
    BY <1>2, <2>2 DEF ViewOf
  <2>6. [View EXCEPT !.scal = scal'] = [scal |-> scal', own |-> View.own, stk |-> View.stk]
    BY <1>2 DEF ViewOf
  <2> QED  BY <1>1, <2>2, <2>3, <2>4, <2>5, <2>6
<1>5. CASE t.kind = "owned"
  <2>1. t.var \in Owners /\ t.val \in Objects \cup {Nil}
    BY <1>5 DEF WellFormed
  <2>2. /\ own' = [own EXCEPT ![t.var] = t.val] /\ heap' = Delete(heap, own[t.var])
        /\ UNCHANGED <<scal, stk>>
    BY <1>5 DEF RunToken
  <2>3. ViewUndo(t, View, heap) = [View EXCEPT !.own = [View.own EXCEPT ![t.var] = Content(heap, t.val)]]
    BY <1>5 DEF ViewUndo
  <2>4. heap' \in [Objects -> Values \cup {Freed}] /\ own' \in [Owners -> Objects \cup {Nil}]
    BY <1>1, <2>1, <2>2 DEF Delete
  <2>5. Content(heap', t.val) = Content(heap, t.val)
    BY <1>1, <1>5, <2>1, <2>2 DEF Content, Delete
  <2>6. \A w \in Owners : w # t.var => Content(heap', own[w]) = Content(heap, own[w])
    BY <1>1, <2>1, <2>2 DEF Content, Delete, Ownership
  <2>7. [w \in Owners |-> Content(heap', own'[w])]
          = [[w \in Owners |-> Content(heap, own[w])] EXCEPT ![t.var] = Content(heap, t.val)]
    BY <1>1, <2>1, <2>2, <2>5, <2>6
  <2> QED  BY <1>1, <1>2, <2>2, <2>3, <2>4, <2>7 DEF ViewOf
<1>6. CASE t.kind = "insert"
  <2>1. t.val \in Values /\ t.idx \in 1..(Len(stk) + 1)
    BY <1>2, <1>6 DEF WellFormed, IdxOK
  <2>2. stk' = InsertAt(stk, t.idx, t.val) /\ UNCHANGED <<scal, own, heap>>
    BY <1>6 DEF RunToken
  <2>3. ViewUndo(t, View, heap) = [View EXCEPT !.stk = InsertAt(View.stk, t.idx, t.val)]
    BY <1>6 DEF ViewUndo
  <2>4. stk' \in Seq(Values)
    BY <1>1, <2>1, <2>2, InsertAtProps
  <2> QED  BY <1>1, <1>2, <2>2, <2>3, <2>4 DEF ViewOf
<1>7. CASE t.kind = "remove"
  <2>1. t.idx \in 1..Len(stk)
    BY <1>2, <1>7 DEF IdxOK
  <2>2. stk' = RemoveAt(stk, t.idx) /\ UNCHANGED <<scal, own, heap>>
    BY <1>7 DEF RunToken
  <2>3. ViewUndo(t, View, heap) = [View EXCEPT !.stk = RemoveAt(View.stk, t.idx)]
    BY <1>7 DEF ViewUndo
  <2>4. stk' \in Seq(Values)
    BY <1>1, <2>1, <2>2, RemoveAtProps
  <2> QED  BY <1>1, <1>2, <2>2, <2>3, <2>4 DEF ViewOf
<1> QED
  BY <1>3, <1>4, <1>5, <1>6, <1>7 DEF Kinds

(* The latest token.                                                       *)
LEMMA TopToken ==
  ASSUME IInv, log # <<>>
  PROVE  /\ Len(log) \in Nat /\ Len(log) \in 1..Len(log) /\ Last(log) = log[Len(log)]
         /\ Front(log) \in Seq(Tokens) /\ Len(Front(log)) = Len(log) - 1
         /\ \A i \in 1..(Len(log) - 1) : i \in 1..Len(log) /\ i # Len(log) /\ Front(log)[i] = log[i]
         /\ Last(log) \in Tokens /\ WellFormed(Last(log))
<1>1. log \in Seq(Tokens) /\ \A i \in 1..Len(log) : WellFormed(log[i])
  BY DEF IInv, TypeOK
<1>2. /\ Front(log) \in Seq(Tokens) /\ Len(Front(log)) = Len(log) - 1
      /\ \A i \in 1..(Len(log) - 1) : Front(log)[i] = log[i]
      /\ Last(log) = log[Len(log)] /\ Len(log) \in 1..Len(log) /\ Last(log) \in Tokens
  BY <1>1, FrontProps
<1>3. Len(log) \in Nat
  BY <1>1
<1>4. \A i \in 1..(Len(log) - 1) : i \in 1..Len(log) /\ i # Len(log)
  BY <1>3
<1> QED
  BY <1>1, <1>2, <1>3, <1>4

(* Taking the latest token off leaves the types and the lists in order.    *)
LEMMA TakeToken ==
  ASSUME IInv, log # <<>>, Busy, log' = Front(log),
         UNCHANGED <<enabled, pc, len, target, clearing, snaps, marks>>,
         target # NoPop => Last(log).at >= target,
         scal' \in [Scalars -> Values], own' \in [Owners -> Objects \cup {Nil}],
         heap' \in [Objects -> Values \cup {Freed}], stk' \in Seq(Values)
  PROVE  TypeOK' /\ Lists' /\ (target # NoPop => marks[target + 1] < Len(log))
<1> DEFINE n == Len(log)
<1>1. /\ n \in Nat /\ n \in 1..n /\ Last(log) = log[n]
      /\ log' \in Seq(Tokens) /\ Len(log') = n - 1
      /\ \A i \in 1..(n - 1) : i \in 1..n /\ log'[i] = log[i]
  BY TopToken
<1>2. /\ TypeOK /\ Lists /\ \A i \in 1..n : WellFormed(log[i])
  BY DEF IInv, TypeOK
<1>3. TypeOK'
  BY <1>1, <1>2 DEF TypeOK
<1>4. Busy' /\ Len(log') = n - 1
  BY <1>1 DEF Busy
<1>5. /\ Len(marks) = pc + 1 /\ Len(snaps) = pc + 1
      /\ len <= pc + 1
      /\ \A i \in 1..n : log[i].at < len
      /\ \A i \in 1..n, k \in 0..pc : i > marks[k + 1] <=> log[i].at >= k
      /\ \A m, k \in 0..pc : m <= k => marks[m + 1] <= marks[k + 1]
      /\ target # NoPop => target <= pc /\ marks[target + 1] <= n /\ ~clearing /\ enabled
      /\ ~enabled => ~Busy
  BY <1>2, Zenon DEF Lists, n
<1>6. ASSUME target # NoPop PROVE marks[target + 1] < n /\ marks[target + 1] <= n - 1
  <2>1. target \in 0..pc
    BY <1>2, <1>5, <1>6 DEF TypeOK
  <2>2. log[n].at >= target
    BY <1>1, <1>6
  <2>3. n > marks[target + 1]
    BY <1>1, <1>5, <2>1, <2>2
  <2>4. marks[target + 1] \in Nat
    BY <2>1, MarksAreNat
  <2> QED  BY <1>1, <2>3, <2>4
<1> HIDE DEF n
<1>7. /\ \A i \in 1..Len(log') : log'[i].at < len
      /\ \A i \in 1..Len(log'), k \in 0..pc : i > marks[k + 1] <=> log'[i].at >= k
  BY <1>1, <1>4, <1>5
<1>8. Lists'
  <2>1. /\ target' # NoPop => target' <= pc /\ marks[target' + 1] <= Len(log') /\ ~clearing /\ enabled
    BY <1>1, <1>5, <1>6
  <2>2. enabled' /\ pc' = pc /\ marks' = marks /\ snaps' = snaps /\ len' = len /\ clearing' = clearing
    BY <1>5
  <2>3. /\ Len(marks') = pc' + 1 /\ Len(snaps') = pc' + 1 /\ len' <= pc' + 1
        /\ \A i \in 1..Len(log') : log'[i].at < len'
        /\ \A i \in 1..Len(log'), k \in 0..pc' : i > marks'[k + 1] <=> log'[i].at >= k
        /\ \A m, k \in 0..pc' : m <= k => marks'[m + 1] <= marks'[k + 1]
        /\ target' # NoPop => target' <= pc' /\ marks'[target' + 1] <= Len(log') /\ ~clearing' /\ enabled'
    BY <1>5, <1>7, <2>1, <2>2
  <2> QED  BY <1>4, <2>2, <2>3, Zenon DEF Lists
<1>9. target # NoPop => marks[target + 1] < Len(log)
  BY <1>6 DEF n
<1> QED
  BY <1>3, <1>8, <1>9

(* What the lists say about the objects the latest token and the others    *)
(* own.                                                                    *)
LEMMA TopOwns ==
  ASSUME IInv, log # <<>>, Last(log).kind = "owned", Last(log).val # Nil
  PROVE  /\ \A v \in Owners : own[v] # Last(log).val
         /\ heap[Last(log).val] # Freed
         /\ \A i \in 1..(Len(log) - 1) : OwnedTok(i) => log[i].val # Last(log).val
<1>1. Len(log) \in 1..Len(log) /\ Last(log) = log[Len(log)]
  BY TopToken
<1>2. OwnedTok(Len(log))
  BY <1>1 DEF OwnedTok
<1>3. \A i \in 1..(Len(log) - 1) : i \in 1..Len(log) /\ i # Len(log)
  BY TopToken
<1>4. Ownership
  BY DEF IInv
<1>5. ASSUME NEW v \in Owners PROVE own[v] # Last(log).val
  <2>1. \A i \in 1..Len(log) : OwnedTok(i) => own[v] # log[i].val
    BY <1>4 DEF Ownership
  <2>2. own[v] # log[Len(log)].val
    BY <1>1, <1>2, <2>1, Zenon
  <2> QED  BY <1>1, <2>2
<1>6. heap[Last(log).val] # Freed
  BY <1>1, <1>2, <1>4, Zenon DEF Ownership
<1>7. ASSUME NEW i \in 1..(Len(log) - 1), OwnedTok(i) PROVE log[i].val # Last(log).val
  BY <1>1, <1>2, <1>3, <1>4, <1>7, Zenon DEF Ownership
<1> QED
  BY <1>5, <1>6, <1>7

(* Ownership once the latest token is gone, given what happened to the     *)
(* variables and the objects.                                              *)
LEMMA TakeOwner ==
  ASSUME IInv, log # <<>>, log' = Front(log),
         \A v, w \in Owners : own'[v] # Nil /\ own'[v] = own'[w] => v = w,
         \A v \in Owners : own'[v] # Nil => heap'[own'[v]] # Freed,
         \A v \in Owners : \A i \in 1..(Len(log) - 1) : OwnedTok(i) => own'[v] # log[i].val,
         \A i \in 1..(Len(log) - 1) : OwnedTok(i) => heap'[log[i].val] # Freed,
         \A o \in Objects : heap'[o] # Freed =>
            \/ \E v \in Owners : own'[v] = o
            \/ \E i \in 1..(Len(log) - 1) : OwnedTok(i) /\ log[i].val = o
  PROVE  Ownership'
<1>1. /\ Len(log') = Len(log) - 1
      /\ \A i \in 1..(Len(log) - 1) : i \in 1..Len(log) /\ log'[i] = log[i]
  BY TopToken
<1>2. ASSUME NEW i \in 1..(Len(log) - 1)
      PROVE  (OwnedTok(i)' <=> OwnedTok(i)) /\ log'[i].val = log[i].val
  <2>1. log'[i] = log[i]
    BY <1>1
  <2> QED  BY <2>1 DEF OwnedTok
<1>3. Ownership /\ \A i \in 1..Len(log') : i \in 1..(Len(log) - 1)
  BY <1>1 DEF IInv
<1>4. \A v \in Owners : \A i \in 1..Len(log') : OwnedTok(i)' => own'[v] # log'[i].val
  <2> SUFFICES ASSUME NEW v \in Owners, NEW i \in 1..Len(log'), OwnedTok(i)'
               PROVE  own'[v] # log'[i].val
    OBVIOUS
  <2>1. OwnedTok(i) /\ log'[i].val = log[i].val /\ i \in 1..(Len(log) - 1)
    BY <1>2, <1>3
  <2>2. own'[v] # log[i].val
    BY <2>1
  <2> QED  BY <2>1, <2>2
<1>5. ASSUME NEW i \in 1..Len(log'), NEW j \in 1..Len(log'),
             OwnedTok(i)', OwnedTok(j)', log'[i].val = log'[j].val
      PROVE  i = j
  <2>1. /\ i \in 1..Len(log) /\ j \in 1..Len(log) /\ OwnedTok(i) /\ OwnedTok(j)
        /\ log[i].val = log[j].val
    BY <1>1, <1>2, <1>3, <1>5
  <2> QED  BY <1>3, <2>1, Zenon DEF Ownership
<1>6. \A i \in 1..Len(log') : OwnedTok(i)' => heap'[log'[i].val] # Freed
  BY <1>2, <1>3, Zenon
<1>7. ASSUME NEW o \in Objects, heap'[o] # Freed
      PROVE  \/ \E v \in Owners : own'[v] = o
             \/ \E i \in 1..Len(log') : OwnedTok(i)' /\ log'[i].val = o
  <2>1. \A i \in 1..(Len(log) - 1) : i \in 1..Len(log')
    BY <1>1
  <2> QED  BY <1>2, <1>7, <2>1, Zenon
<1> QED
  BY <1>4, <1>5, <1>6, <1>7, Zenon DEF Ownership

(* Running the last token (teco_undo_pop) preserves the invariant: it runs *)
(* in the state that it was pushed in, and what it owns goes to the        *)
(* variable or is freed.                                                   *)
LEMMA PopTokenStep ==
  ASSUME IInv, PopToken
  PROVE  IInv'
<1> DEFINE t == Last(log)
           n == Len(log)
<1>1. /\ target # NoPop /\ len > target /\ log # <<>> /\ t.at = len - 1 /\ RunToken(t) /\ log' = Front(log)
      /\ UNCHANGED <<enabled, pc, len, target, clearing, snaps, marks>> /\ Busy
  BY DEF PopToken, TopHasToken, Busy
<1>2. /\ TypeOK /\ Ownership /\ Lists /\ Chain /\ Snapshots
      /\ own \in [Owners -> Objects \cup {Nil}] /\ heap \in [Objects -> Values \cup {Freed}]
  BY DEF IInv, TypeOK
<1>3. /\ n \in Nat /\ n \in 1..n /\ t = log[n] /\ Len(log') = n - 1
      /\ \A i \in 1..(n - 1) : i \in 1..n /\ i # n /\ log'[i] = log[i]
      /\ t \in Tokens /\ WellFormed(t)
  BY <1>1, TopToken
<1>4. ~clearing
  BY <1>1, <1>2 DEF Lists
<1>5. After(log, View, n) = View
  BY DEF After
<1>6. IdxOK(t, View) /\ t.before = ViewUndo(t, View, heap)
  <2>1. IdxOK(log[n], After(log, View, n)) /\ log[n].before = ViewUndo(log[n], After(log, View, n), heap)
    BY <1>2, <1>3, <1>4, Zenon DEF Chain
  <2> QED  BY <1>3, <1>5, <2>1
<1> HIDE DEF t
<1>7. t.kind = "owned" /\ t.val # Nil =>
        /\ \A v \in Owners : own[v] # t.val
        /\ heap[t.val] # Freed
        /\ \A i \in 1..(n - 1) : OwnedTok(i) => log[i].val # t.val
  BY <1>1, TopOwns DEF t
<1>8. /\ View' = t.before
      /\ scal' \in [Scalars -> Values] /\ own' \in [Owners -> Objects \cup {Nil}]
      /\ heap' \in [Objects -> Values \cup {Freed}] /\ stk' \in Seq(Values)
  BY <1>1, <1>3, <1>6, <1>7, RunTokenView
<1>9. t.at >= target
  BY <1>1, <1>2 DEF TypeOK
<1>10. TypeOK' /\ Lists' /\ marks[target + 1] < n
  BY <1>1, <1>8, <1>9, TakeToken DEF t
<1>11. \A i \in 1..n : OwnedTok(i) => log[i].val \in Objects
  <2> SUFFICES ASSUME NEW i \in 1..n, OwnedTok(i) PROVE log[i].val \in Objects
    OBVIOUS
  <2>1. WellFormed(log[i]) /\ log[i].kind = "owned" /\ log[i].val # Nil
    BY <1>2 DEF TypeOK, OwnedTok
  <2> QED  BY <2>1 DEF WellFormed
<1>12. /\ \A i \in 1..n : OwnedTok(i) => heap[log[i].val] # Freed
       /\ \A v \in Owners : \A i \in 1..n : OwnedTok(i) => own[v] # log[i].val
       /\ \A v, w \in Owners : own[v] # Nil /\ own[v] = own[w] => v = w
       /\ \A v \in Owners : own[v] # Nil => heap[own[v]] # Freed
       /\ \A o \in Objects : heap[o] # Freed =>
            \/ \E v \in Owners : own[v] = o
            \/ \E i \in 1..n : OwnedTok(i) /\ log[i].val = o
  BY <1>2, Zenon DEF Ownership, n
<1>13. /\ Ownership'
       /\ \A i \in 1..(n - 1) : OwnedTok(i) => heap'[log[i].val] = heap[log[i].val]
  <2>1. CASE t.kind # "owned"
    <3>1. own' = own /\ heap' = heap
      BY <1>1, <2>1 DEF RunToken, t
    <3>2. ~OwnedTok(n)
      BY <1>3, <2>1 DEF OwnedTok
    <3>3. \A i \in 1..n : i \in 1..(n - 1) \/ i = n
      BY <1>3
    <3>4. \A o \in Objects : heap'[o] # Freed =>
            \/ \E v \in Owners : own'[v] = o
            \/ \E i \in 1..(n - 1) : OwnedTok(i) /\ log[i].val = o
      BY <1>12, <3>1, <3>2, <3>3
    <3>5. /\ \A v, w \in Owners : own'[v] # Nil /\ own'[v] = own'[w] => v = w
          /\ \A v \in Owners : own'[v] # Nil => heap'[own'[v]] # Freed
          /\ \A v \in Owners : \A i \in 1..(n - 1) : OwnedTok(i) => own'[v] # log[i].val
          /\ \A i \in 1..(n - 1) : OwnedTok(i) => heap'[log[i].val] # Freed
      BY <1>3, <1>12, <3>1
    <3>6. Ownership'
      BY <1>1, <3>4, <3>5, TakeOwner DEF n
    <3> QED  BY <3>1, <3>6
  <2>2. CASE t.kind = "owned"
    <3>1. /\ t.var \in Owners /\ t.val \in Objects \cup {Nil}
          /\ own' = [own EXCEPT ![t.var] = t.val] /\ heap' = Delete(heap, own[t.var])
      BY <1>1, <1>3, <2>2 DEF WellFormed, RunToken, t
    <3> DEFINE p == own[t.var]
    <3>2. /\ own'[t.var] = t.val /\ \A w \in Owners : w # t.var => own'[w] = own[w]
          /\ p \in Objects \cup {Nil}
      BY <1>2, <3>1
    <3>3. /\ \A o \in Objects : o # p => heap'[o] = heap[o]
          /\ p # Nil => heap'[p] = Freed
      BY <1>2, <3>1, <3>2 DEF Delete
    <3> HIDE DEF p
    <3>4. p # Nil => \A w \in Owners : own[w] = p => w = t.var
      BY <1>12, <3>1 DEF p
    <3>5. \A i \in 1..n : OwnedTok(i) => log[i].val # p
      BY <1>12, <3>1 DEF p
    <3>6. \A i \in 1..(n - 1) : OwnedTok(i) => log[i].val # t.val
      <4>1. CASE t.val = Nil
        BY <4>1 DEF OwnedTok
      <4>2. CASE t.val # Nil
        BY <1>7, <2>2, <4>2
      <4> QED  BY <4>1, <4>2
    <3>7. \A i \in 1..(n - 1) : OwnedTok(i) => heap'[log[i].val] = heap[log[i].val]
      BY <1>3, <1>11, <3>3, <3>5
    <3>8. \A v, w \in Owners : own'[v] # Nil /\ own'[v] = own'[w] => v = w
      BY <1>7, <1>12, <2>2, <3>2
    <3>9. \A v \in Owners : own'[v] # Nil => heap'[own'[v]] # Freed
      <4> SUFFICES ASSUME NEW v \in Owners, own'[v] # Nil PROVE heap'[own'[v]] # Freed
        OBVIOUS
      <4>1. CASE v = t.var
        <5>1. own'[v] = t.val /\ t.val \in Objects /\ t.val # Nil /\ t.val # p
          BY <1>7, <2>2, <3>1, <3>2, <4>1 DEF p
        <5> QED  BY <1>7, <2>2, <3>3, <5>1
      <4>2. CASE v # t.var
        <5>1. own'[v] = own[v] /\ own[v] \in Objects /\ own[v] # p /\ heap[own[v]] # Freed
          BY <1>2, <1>12, <3>2, <3>4, <4>2
        <5> QED  BY <3>3, <5>1
      <4> QED  BY <4>1, <4>2
    <3>10. \A v \in Owners : \A i \in 1..(n - 1) : OwnedTok(i) => own'[v] # log[i].val
      BY <1>3, <1>12, <3>2, <3>6
    <3>11. \A i \in 1..(n - 1) : OwnedTok(i) => heap'[log[i].val] # Freed
      BY <1>3, <1>12, <3>7
    <3>12. ASSUME NEW o \in Objects, heap'[o] # Freed
           PROVE  \/ \E v \in Owners : own'[v] = o
                  \/ \E i \in 1..(n - 1) : OwnedTok(i) /\ log[i].val = o
      <4>1. o # p /\ heap[o] # Freed
        BY <3>3, <3>12, UndoAssumption
      <4>2. CASE \E v \in Owners : own[v] = o
        BY <3>2, <4>1, <4>2 DEF p
      <4>3. CASE \E i \in 1..n : OwnedTok(i) /\ log[i].val = o
        <5>1. PICK i \in 1..n : OwnedTok(i) /\ log[i].val = o
          BY <4>3
        <5>2. CASE i = n
          BY <1>3, <3>1, <3>2, <5>1, <5>2
        <5>3. CASE i # n
          <6>1. i \in 1..(n - 1)
            BY <1>3, <5>3
          <6> QED  BY <5>1, <6>1
        <5> QED  BY <5>2, <5>3
      <4> QED  BY <1>12, <4>1, <4>2, <4>3
    <3>13. Ownership'
      BY <1>1, <3>8, <3>9, <3>10, <3>11, <3>12, TakeOwner DEF n
    <3> QED  BY <3>7, <3>13
  <2> QED  BY <2>1, <2>2
<1>14. \A k \in 0..(n - 1) : After(log', View', k) = After(log, View, k)
  <2> SUFFICES ASSUME NEW k \in 0..(n - 1) PROVE After(log', View', k) = After(log, View, k)
    OBVIOUS
  <2>1. CASE k = n - 1
    <3>1. After(log', View', k) = View'
      BY <1>3, <2>1 DEF After
    <3>2. After(log, View, k) = log[k + 1].before /\ k + 1 = n
      BY <1>3, <2>1 DEF After, n
    <3> QED  BY <1>3, <1>8, <3>1, <3>2
  <2>2. CASE k # n - 1
    <3>1. k + 1 \in 1..(n - 1) /\ k # n
      BY <1>3, <2>2
    <3> QED  BY <1>3, <2>2, <3>1 DEF After, n
  <2> QED  BY <2>1, <2>2
<1>15. Chain'
  <2> SUFFICES ASSUME NEW i \in 1..(n - 1)
               PROVE  /\ IdxOK(log'[i], After(log', View', i))
                      /\ log'[i].before = ViewUndo(log'[i], After(log', View', i), heap')
    BY <1>3 DEF Chain
  <2>1. i \in 1..n /\ i \in 0..(n - 1) /\ log'[i] = log[i]
    BY <1>3
  <2>2. IdxOK(log[i], After(log, View, i)) /\ log[i].before = ViewUndo(log[i], After(log, View, i), heap)
    BY <1>2, <1>4, <2>1, Zenon DEF Chain, n
  <2>3. WellFormed(log[i]) /\ log[i].kind \in Kinds
    <3>1. log[i] \in Tokens
      BY <1>2, <2>1, ElementOfSeq DEF TypeOK, n
    <3> QED  BY <1>2, <2>1, <3>1 DEF TypeOK, Tokens, n
  <2>4. log[i].kind = "owned" /\ log[i].val # Nil => heap'[log[i].val] = heap[log[i].val]
    BY <1>13 DEF OwnedTok
  <2>5. ViewUndo(log[i], After(log, View, i), heap) = ViewUndo(log[i], After(log, View, i), heap')
    BY <2>3, <2>4, ViewUndoSame
  <2> QED  BY <1>14, <2>1, <2>2, <2>5
<1>16. Snapshots'
  <2> SUFFICES ASSUME NEW k \in 0..pc, marks[k + 1] <= n - 1
               PROVE  snaps[k + 1] = After(log', View', marks[k + 1])
    BY <1>1, <1>3 DEF Snapshots
  <2>1. marks[k + 1] \in 0..(n - 1) /\ marks[k + 1] <= n
    BY <1>3, MarksAreNat
  <2>2. snaps[k + 1] = After(log, View, marks[k + 1])
    BY <1>2, <1>4, <2>1, Zenon DEF Snapshots, n
  <2> QED  BY <1>14, <2>1, <2>2
<1> QED
  BY <1>10, <1>13, <1>15, <1>16 DEF IInv

(* A list without tokens can be dropped: no token has its index.           *)
LEMMA ListStep ==
  ASSUME IInv, PopList \/ ClearList
  PROVE  IInv'
<1>1. /\ len > 0 /\ ~TopHasToken /\ len' = len - 1 /\ Busy
      /\ UNCHANGED <<enabled, pc, scal, own, heap, stk, log, target, clearing, snaps, marks>>
  BY DEF PopList, ClearList, IInv, TypeOK, Busy
<1>2. /\ TypeOK /\ Ownership /\ Lists /\ Chain /\ Snapshots /\ View' = View
      /\ pc \in Nat /\ len \in Nat /\ log \in Seq(Tokens) /\ Len(log) \in Nat
  BY <1>1 DEF IInv, TypeOK, View
<1>3. TypeOK'
  BY <1>1, <1>2 DEF TypeOK
<1>4. Ownership' /\ Chain' /\ Snapshots'
  <2>1. Ownership'
    BY <1>1, <1>2 DEF Ownership, OwnedTok
  <2> QED  BY <1>1, <1>2, <2>1, Zenon DEF Chain, Snapshots
<1>5. /\ Len(marks) = pc + 1 /\ Len(snaps) = pc + 1 /\ len <= pc + 1
      /\ \A i \in 1..Len(log) : log[i].at < len
      /\ \A i \in 1..Len(log), k \in 0..pc : i > marks[k + 1] <=> log[i].at >= k
      /\ \A m, k \in 0..pc : m <= k => marks[m + 1] <= marks[k + 1]
      /\ target # NoPop => target <= pc /\ marks[target + 1] <= Len(log) /\ ~clearing /\ enabled
      /\ enabled
  BY <1>1, <1>2, Zenon DEF Lists
<1>6. ASSUME NEW i \in 1..Len(log)
      PROVE  log[i].at < len'
  <2>1. log # <<>> /\ Len(log) \in 1..Len(log) /\ Last(log) = log[Len(log)]
    <3>1. log # <<>>
      BY <1>6, <1>2, Len(<<>>) = 0
    <3> QED  BY <3>1, TopToken
  <2> DEFINE n == Len(log)
  <2>2. log[n] \in Tokens /\ log[i] \in Tokens
    BY <1>2, <2>1, ElementOfSeq
  <2>3. log[n].at \in Nat /\ log[i].at \in Nat /\ log[n].at < len /\ log[n].at # len - 1
    BY <1>1, <1>5, <2>1, <2>2 DEF Tokens, TopHasToken
  <2>4. len - 1 \in 0..pc
    BY <1>1, <1>2, <1>5
  <2>5. ~(log[n].at >= len - 1)
    BY <1>2, <2>3
  <2>6. ~(n > marks[(len - 1) + 1])
    BY <1>5, <2>1, <2>4, <2>5
  <2>7. marks[(len - 1) + 1] \in Nat
    BY <2>4, MarksAreNat
  <2>8. ~(i > marks[(len - 1) + 1])
    BY <1>2, <2>6, <2>7
  <2>9. ~(log[i].at >= len - 1)
    BY <1>5, <2>4, <2>8
  <2> QED  BY <1>1, <1>2, <2>3, <2>9
<1>7. Lists'
  <2>1. Busy' /\ len' <= pc + 1
    BY <1>1, <1>2, <1>5 DEF Busy
  <2> QED  BY <1>1, <1>5, <1>6, <2>1, Zenon DEF Lists
<1> QED
  BY <1>3, <1>4, <1>7 DEF IInv

(* When the lists from n on are gone, exactly the tokens pushed before the *)
(* character at n was executed are left.                                   *)
LEMMA PoppedTo ==
  ASSUME IInv, target # NoPop, len <= target
  PROVE  /\ target \in 0..pc /\ ~clearing /\ enabled /\ Busy
         /\ marks[target + 1] = Len(log)
<1>1. /\ TypeOK /\ Lists /\ pc \in Nat /\ len \in Nat /\ target \in Nat /\ log \in Seq(Tokens)
      /\ Len(log) \in Nat
  BY DEF IInv, TypeOK
<1>2. /\ \A i \in 1..Len(log) : log[i].at < len
      /\ \A i \in 1..Len(log), k \in 0..pc : i > marks[k + 1] <=> log[i].at >= k
      /\ target <= pc /\ marks[target + 1] <= Len(log) /\ ~clearing /\ enabled
  BY <1>1, Zenon DEF Lists
<1>3. target \in 0..pc
  BY <1>1, <1>2
<1>4. marks[target + 1] \in Nat
  BY <1>3, MarksAreNat
<1>5. CASE Len(log) = 0
  BY <1>2, <1>3, <1>4, <1>5 DEF Busy
<1>6. CASE Len(log) # 0
  <2>1. Len(log) \in 1..Len(log)
    BY <1>1, <1>6
  <2>2. log[Len(log)] \in Tokens
    BY <1>1, <2>1, ElementOfSeq
  <2>3. log[Len(log)].at \in Nat /\ log[Len(log)].at < len
    BY <1>2, <2>1, <2>2 DEF Tokens
  <2>4. ~(log[Len(log)].at >= target)
    BY <1>1, <2>3
  <2>5. ~(Len(log) > marks[target + 1])
    BY <1>2, <1>3, <2>1, <2>4
  <2> QED  BY <1>1, <1>2, <1>3, <1>4, <2>5 DEF Busy
<1> QED
  BY <1>5, <1>6

(* The end of teco_undo_pop() preserves the invariant: the lists above the *)
(* character are empty.                                                    *)
LEMMA EndPopStep ==
  ASSUME IInv, EndPop
  PROVE  IInv'
<1>1. /\ target # NoPop /\ len <= target /\ target' = NoPop /\ pc' = target
      /\ snaps' = SubSeq(snaps, 1, target + 1) /\ marks' = SubSeq(marks, 1, target + 1)
      /\ UNCHANGED <<enabled, scal, own, heap, stk, log, len, clearing>>
  BY DEF EndPop
<1>2. target \in 0..pc /\ ~clearing /\ enabled /\ marks[target + 1] = Len(log)
  BY <1>1, PoppedTo
<1>3. /\ TypeOK /\ Ownership /\ Lists /\ Chain /\ Snapshots /\ View' = View
      /\ pc \in Nat /\ len \in Nat /\ log \in Seq(Tokens) /\ Len(log) \in Nat
      /\ marks \in Seq(Nat) /\ snaps \in Seq(Views)
  BY <1>1 DEF IInv, TypeOK, View
<1>4. /\ Len(marks) = pc + 1 /\ Len(snaps) = pc + 1
      /\ \A i \in 1..Len(log) : log[i].at < len
      /\ \A i \in 1..Len(log), k \in 0..pc : i > marks[k + 1] <=> log[i].at >= k
      /\ \A m, k \in 0..pc : m <= k => marks[m + 1] <= marks[k + 1]
  BY <1>3, Zenon DEF Lists
<1>5. /\ marks' \in Seq(Nat) /\ Len(marks') = target + 1
      /\ snaps' \in Seq(Views) /\ Len(snaps') = target + 1
      /\ \A k \in 1..(target + 1) : marks'[k] = marks[k] /\ snaps'[k] = snaps[k]
  <2>1. target + 1 \in 0..Len(marks) /\ target + 1 \in 0..Len(snaps) /\ target \in Nat
    BY <1>2, <1>3, <1>4
  <2> HIDE DEF TypeOK
  <2>2. \A i \in 1..(target + 1) : marks[i] \in Nat /\ snaps[i] \in Views
    <3> SUFFICES ASSUME NEW i \in 1..(target + 1) PROVE marks[i] \in Nat /\ snaps[i] \in Views
      OBVIOUS
    <3>1. i \in 1..Len(marks) /\ i \in 1..Len(snaps)
      BY <2>1, <1>3
    <3> QED  BY <1>3, <3>1, ElementOfSeq
  <2>3. marks' = [i \in 1..(target + 1) |-> marks[i]] /\ snaps' = [i \in 1..(target + 1) |-> snaps[i]]
    BY <1>1, <1>3, <2>1
  <2> QED  BY <2>1, <2>2, <2>3
<1>6. \A k \in 0..target : /\ k \in 0..pc /\ marks'[k + 1] = marks[k + 1] /\ snaps'[k + 1] = snaps[k + 1]
                           /\ marks[k + 1] \in Nat /\ marks[k + 1] <= Len(log)
  <2> SUFFICES ASSUME NEW k \in 0..target
               PROVE  /\ k \in 0..pc /\ marks'[k + 1] = marks[k + 1] /\ snaps'[k + 1] = snaps[k + 1]
                      /\ marks[k + 1] \in Nat /\ marks[k + 1] <= Len(log)
    OBVIOUS
  <2>1. k \in 0..pc /\ k + 1 \in 1..(target + 1) /\ k <= target
    BY <1>2, <1>3
  <2> QED  BY <1>2, <1>4, <1>5, <2>1, MarksAreNat
<1>7. TypeOK'
  BY <1>1, <1>2, <1>3, <1>5 DEF TypeOK
<1>8. Ownership'
  BY <1>1, <1>3 DEF Ownership, OwnedTok
<1>9. Chain'
  BY <1>1, <1>3, Zenon DEF Chain
<1>10. Lists'
  <2>1. ~Busy' /\ len' <= pc' + 1 /\ enabled' /\ target' = NoPop
    BY <1>1, <1>2, <1>3 DEF Busy
  <2>2. /\ \A i \in 1..Len(log'), k \in 0..pc' : i > marks'[k + 1] <=> log'[i].at >= k
        /\ \A m, k \in 0..pc' : m <= k => marks'[m + 1] <= marks'[k + 1]
        /\ \A k \in 0..pc' : marks'[k + 1] <= Len(log')
    BY <1>1, <1>4, <1>6
  <2>3. \A i \in 1..Len(log') : log'[i].at < len'
    BY <1>1, <1>4
  <2>4. Len(marks') = pc' + 1 /\ Len(snaps') = pc' + 1
    BY <1>1, <1>5
  <2> QED  BY <2>1, <2>2, <2>3, <2>4, Zenon DEF Lists
<1>11. Snapshots'
  <2> SUFFICES ASSUME NEW k \in 0..target
               PROVE  snaps'[k + 1] = After(log, View, marks'[k + 1])
    BY <1>1, <1>3, Zenon DEF Snapshots
  <2>1. snaps[k + 1] = After(log, View, marks[k + 1])
    BY <1>2, <1>3, <1>6, Zenon DEF Snapshots
  <2> QED  BY <1>6, <2>1
<1> QED
  BY <1>7, <1>8, <1>9, <1>10, <1>11 DEF IInv

-----------------------------------------------------------------------------
(* Clearing.                                                               *)

(* Discarding a token frees only what no variable points to.               *)
LEMMA ClearTokenStep ==
  ASSUME IInv, ClearToken
  PROVE  IInv' /\ View' = View
<1> DEFINE t == Last(log)
           n == Len(log)
<1>1. /\ clearing /\ Busy /\ log # <<>> /\ DiscardToken(t) /\ log' = Front(log) /\ UNCHANGED <<scal, own, stk>>
      /\ UNCHANGED <<enabled, pc, len, target, clearing, snaps, marks>>
  BY DEF ClearToken, TopHasToken, Busy, DiscardToken
<1>2. /\ TypeOK /\ Ownership /\ Lists
      /\ scal \in [Scalars -> Values] /\ stk \in Seq(Values)
      /\ own \in [Owners -> Objects \cup {Nil}] /\ heap \in [Objects -> Values \cup {Freed}]
  BY DEF IInv, TypeOK
<1>3. /\ n \in Nat /\ n \in 1..n /\ t = log[n] /\ t \in Tokens /\ WellFormed(t)
      /\ \A i \in 1..(n - 1) : i \in 1..n /\ i # n
  BY <1>1, TopToken
<1> HIDE DEF t
<1>4. t.kind = "owned" /\ t.val # Nil =>
        /\ \A v \in Owners : own[v] # t.val
        /\ \A i \in 1..(n - 1) : OwnedTok(i) => log[i].val # t.val
  BY <1>1, TopOwns DEF t
<1>5. /\ \A i \in 1..n : OwnedTok(i) => heap[log[i].val] # Freed
      /\ \A v \in Owners : \A i \in 1..n : OwnedTok(i) => own[v] # log[i].val
      /\ \A v, w \in Owners : own[v] # Nil /\ own[v] = own[w] => v = w
      /\ \A v \in Owners : own[v] # Nil => heap[own[v]] # Freed
      /\ \A o \in Objects : heap[o] # Freed =>
           \/ \E v \in Owners : own[v] = o
           \/ \E i \in 1..n : OwnedTok(i) /\ log[i].val = o
  BY <1>2, Zenon DEF Ownership, n
<1>6. \A i \in 1..n : OwnedTok(i) => log[i].val \in Objects
  <2> SUFFICES ASSUME NEW i \in 1..n, OwnedTok(i) PROVE log[i].val \in Objects
    OBVIOUS
  <2>1. WellFormed(log[i]) /\ log[i].kind = "owned" /\ log[i].val # Nil
    BY <1>2 DEF TypeOK, OwnedTok
  <2> QED  BY <2>1 DEF WellFormed
<1>7. /\ heap' \in [Objects -> Values \cup {Freed}]
      /\ \A v \in Owners : own[v] # Nil => heap'[own[v]] = heap[own[v]]
      /\ \A i \in 1..(n - 1) : OwnedTok(i) => heap'[log[i].val] = heap[log[i].val]
      /\ \A o \in Objects : heap'[o] # Freed => heap[o] # Freed /\ ~(OwnedTok(n) /\ log[n].val = o)
  <2>1. CASE t.kind = "owned" /\ t.val # Nil
    <3>1. t.val \in Objects /\ heap' = [heap EXCEPT ![t.val] = Freed]
      BY <1>1, <1>3, <2>1 DEF WellFormed, DiscardToken, Delete
    <3>2. /\ heap'[t.val] = Freed /\ \A o \in Objects : o # t.val => heap'[o] = heap[o]
          /\ heap' \in [Objects -> Values \cup {Freed}]
      BY <1>2, <3>1
    <3>3. \A v \in Owners : own[v] # Nil => heap'[own[v]] = heap[own[v]]
      BY <1>2, <1>4, <2>1, <3>2
    <3>4. \A i \in 1..(n - 1) : OwnedTok(i) => heap'[log[i].val] = heap[log[i].val]
      BY <1>3, <1>4, <1>6, <2>1, <3>2
    <3>5. \A o \in Objects : heap'[o] # Freed => heap[o] # Freed /\ ~(OwnedTok(n) /\ log[n].val = o)
      BY <1>3, <3>2
    <3> QED  BY <3>2, <3>3, <3>4, <3>5
  <2>2. CASE ~(t.kind = "owned" /\ t.val # Nil)
    <3>1. heap' = heap
      BY <1>1, <2>2 DEF DiscardToken, Delete
    <3>2. ~OwnedTok(n)
      BY <1>3, <2>2 DEF OwnedTok
    <3> QED  BY <1>2, <3>1, <3>2
  <2> QED  BY <2>1, <2>2
<1>8. View' = View
  <2>1. \A v \in Owners : Content(heap', own[v]) = Content(heap, own[v])
    BY <1>7 DEF Content
  <2>2. [v \in Owners |-> Content(heap', own[v])] = [v \in Owners |-> Content(heap, own[v])]
    BY <2>1
  <2> QED  BY <1>1, <2>2 DEF View, ViewOf
<1>9. Ownership'
  <2>1. ASSUME NEW o \in Objects, heap'[o] # Freed
        PROVE  \/ \E v \in Owners : own'[v] = o
               \/ \E i \in 1..(n - 1) : OwnedTok(i) /\ log[i].val = o
    <3>1. heap[o] # Freed /\ ~(OwnedTok(n) /\ log[n].val = o)
      BY <1>7, <2>1
    <3>2. CASE \E v \in Owners : own[v] = o
      BY <1>1, <3>2
    <3>3. CASE \E i \in 1..n : OwnedTok(i) /\ log[i].val = o
      <4>1. PICK i \in 1..n : OwnedTok(i) /\ log[i].val = o
        BY <3>3
      <4>2. i # n
        BY <3>1, <4>1
      <4>3. i \in 1..(n - 1)
        BY <1>3, <4>2
      <4> QED  BY <4>1, <4>3
    <3> QED  BY <1>5, <3>1, <3>2, <3>3
  <2>2. /\ \A v, w \in Owners : own'[v] # Nil /\ own'[v] = own'[w] => v = w
        /\ \A v \in Owners : own'[v] # Nil => heap'[own'[v]] # Freed
        /\ \A v \in Owners : \A i \in 1..(n - 1) : OwnedTok(i) => own'[v] # log[i].val
        /\ \A i \in 1..(n - 1) : OwnedTok(i) => heap'[log[i].val] # Freed
    BY <1>1, <1>3, <1>5, <1>7
  <2> QED  BY <1>1, <2>1, <2>2, TakeOwner DEF n
<1>10. target = NoPop
  BY <1>1, <1>2, Zenon DEF Lists
<1>11. TypeOK' /\ Lists'
  BY <1>1, <1>2, <1>7, <1>10, TakeToken DEF t
<1> QED
  BY <1>1, <1>8, <1>9, <1>11 DEF IInv, Chain, Snapshots

(* The end of a command line (teco_undo_clear, teco_cmdline_keypress)      *)
(* preserves the invariant: there are no tokens left.                      *)
LEMMA EndClearStep ==
  ASSUME IInv, EndClear
  PROVE  IInv' /\ View' = View
<1>1. /\ clearing /\ len = 0 /\ clearing' = FALSE /\ pc' = 0 /\ snaps' = <<View>> /\ marks' = <<0>>
      /\ UNCHANGED <<enabled, scal, own, heap, stk, log, len, target>>
  BY DEF EndClear, IInv, TypeOK
<1>2. /\ TypeOK /\ Ownership /\ Lists /\ View' = View /\ log \in Seq(Tokens) /\ Len(log) \in Nat
  BY <1>1 DEF IInv, TypeOK, View
<1>3. log = <<>>
  <2> SUFFICES ASSUME log # <<>> PROVE FALSE
    OBVIOUS
  <2>1. Len(log) \in 1..Len(log) /\ log[Len(log)] \in Tokens
    BY TopToken
  <2>2. log[Len(log)].at < len
    BY <1>2, <2>1, Zenon DEF Lists
  <2>3. log[Len(log)].at \in Nat
    BY <2>1 DEF Tokens
  <2> QED  BY <1>1, <2>2, <2>3
<1>4. View \in Views
  BY <1>2, ViewType DEF View, TypeOK, Ownership
<1>5. TypeOK'
  <2>1. snaps' \in Seq(Views)
    BY <1>1, <1>4
  <2>2. marks' \in Seq(Nat)
    BY <1>1
  <2>3. pc' \in Nat /\ clearing' \in BOOLEAN
    BY <1>1
  <2> QED  BY <1>1, <1>2, <2>1, <2>2, <2>3 DEF TypeOK
<1>6. Ownership'
  BY <1>1, <1>2 DEF Ownership, OwnedTok
<1>7. target' = NoPop /\ ~Busy'
  <2>1. target = NoPop
    BY <1>1, <1>2, Zenon DEF Lists
  <2> QED  BY <1>1, <2>1 DEF Busy
<1>8. /\ log' = <<>> /\ Len(log') = 0 /\ len' = 0 /\ pc' = 0 /\ marks' = <<0>>
      /\ Len(marks') = 1 /\ Len(snaps') = 1 /\ marks'[1] = 0
  BY <1>1, <1>3
<1>9. Lists' /\ Chain'
  BY <1>7, <1>8 DEF Lists, Chain
<1>10. Snapshots'
  <2> SUFFICES ASSUME NEW k \in 0..0
               PROVE  snaps'[k + 1] = After(log', View', marks'[k + 1])
    BY <1>8, Zenon DEF Snapshots
  <2>1. k = 0
    OBVIOUS
  <2> QED  BY <1>1, <1>2, <1>8, <2>1 DEF After
<1> QED
  BY <1>2, <1>5, <1>6, <1>9, <1>10 DEF IInv

-----------------------------------------------------------------------------
(* The invariant.                                                          *)

(* The program starts in batch mode, with nothing to undo.                 *)
LEMMA InitIInv == Init => IInv
<1> SUFFICES ASSUME Init PROVE IInv
  OBVIOUS
<1>1. /\ ~enabled /\ enabled \in BOOLEAN /\ pc = 0 /\ scal \in [Scalars -> Values] /\ own = [v \in Owners |-> Nil]
      /\ heap = [o \in Objects |-> Freed] /\ stk = <<>> /\ log = <<>> /\ len = 0
      /\ target = NoPop /\ ~clearing /\ clearing \in BOOLEAN /\ snaps = <<View>> /\ marks = <<0>>
  BY DEF Init
<1>2. /\ own \in [Owners -> Objects \cup {Nil}] /\ heap \in [Objects -> Values \cup {Freed}]
      /\ stk \in Seq(Values) /\ Len(log) = 0
  BY <1>1
<1>3. Ownership
  <2>1. /\ \A v \in Owners : own[v] = Nil
        /\ \A o \in Objects : heap[o] = Freed
        /\ \A i \in 1..Len(log) : FALSE
    BY <1>1, <1>2
  <2> QED  BY <2>1, Zenon DEF Ownership
<1>4. View \in Views
  BY <1>1, <1>2, <1>3, ViewType DEF View, Ownership
<1>5. TypeOK
  <2>1. snaps \in Seq(Views) /\ marks \in Seq(Nat) /\ log \in Seq(Tokens)
    BY <1>1, <1>4
  <2> QED  BY <1>1, <1>2, <2>1 DEF TypeOK
<1>6. ~Busy
  BY <1>1 DEF Busy
<1>7. Lists /\ Chain
  BY <1>1, <1>2, <1>6 DEF Lists, Chain
<1>8. Snapshots
  <2> SUFFICES ASSUME NEW k \in 0..0
               PROVE  snaps[k + 1] = After(log, View, marks[k + 1])
    BY <1>1, Zenon DEF Snapshots
  <2>1. k = 0
    OBVIOUS
  <2> QED  BY <1>1, <1>2, <2>1 DEF After
<1> QED
  BY <1>3, <1>5, <1>7, <1>8 DEF IInv

(* Nothing changes in a stuttering step.                                   *)
LEMMA StutterStep ==
  ASSUME IInv, UNCHANGED vars
  PROVE  IInv'
<1>1. UNCHANGED <<enabled, pc, scal, own, heap, stk, log, len, target, clearing, snaps, marks>> /\ View' = View
  BY DEF vars, View
<1>2. TypeOK' /\ Ownership' /\ Lists'
  BY <1>1 DEF IInv, TypeOK, Ownership, OwnedTok, Lists, Busy
<1> QED
  BY <1>1, <1>2, Zenon DEF IInv, Chain, Snapshots

(* Every step of the editor preserves the inductive invariant.             *)
LEMMA NextIInv == IInv /\ [Next]_vars => IInv'
<1> SUFFICES ASSUME IInv, [Next]_vars PROVE IInv'
  OBVIOUS
<1>1. CASE Command
  BY <1>1, SetScalarStep, ReplaceOwnedStep, EditOwnedStep, AppendValStep, RemoveIndexStep DEF Command
<1>2. CASE NextChar
  BY <1>2, NextCharStep
<1>3. CASE Enable \/ (\E n \in 0..pc : BeginPop(n)) \/ BeginClear
  BY <1>3, BeginSteps
<1>4. CASE PopToken
  BY <1>4, PopTokenStep
<1>5. CASE PopList \/ ClearList
  BY <1>5, ListStep
<1>6. CASE EndPop
  BY <1>6, EndPopStep
<1>7. CASE ClearToken
  BY <1>7, ClearTokenStep
<1>8. CASE EndClear
  BY <1>8, EndClearStep
<1>9. CASE UNCHANGED vars
  BY <1>9, StutterStep
<1> QED
  BY <1>1, <1>2, <1>3, <1>4, <1>5, <1>6, <1>7, <1>8, <1>9 DEF Next

(* The inductive invariant holds in every reachable state, for all         *)
(* variables, values, addresses and bounds: teco_undo_pop() always finds   *)
(* every token in the state that it was pushed in.                         *)
THEOREM Invariance == Spec => []IInv
  BY InitIInv, NextIInv, PTL DEF Spec

(* Type correctness.                                                       *)
THEOREM TypeCorrect == Spec => []TypeOK
<1>1. IInv => TypeOK
  BY DEF IInv
<1> QED
  BY <1>1, Invariance, PTL

(* A rubout to character n leaves the editor showing exactly what it       *)
(* showed when the character at n was about to be executed                 *)
(* (teco_undo_pop()).                                                      *)
THEOREM RuboutIsExact == Spec => []RuboutRestores
<1>1. ASSUME IInv PROVE RuboutRestores
  <2> SUFFICES ASSUME target # NoPop, len <= target PROVE View = snaps[target + 1]
    BY DEF RuboutRestores
  <2>1. target \in 0..pc /\ ~clearing /\ marks[target + 1] = Len(log)
    BY <1>1, PoppedTo
  <2>2. Len(log) \in Nat
    BY <1>1 DEF IInv, TypeOK
  <2>3. snaps[target + 1] = After(log, View, marks[target + 1])
    BY <1>1, <2>1, <2>2 DEF IInv, Snapshots
  <2> QED  BY <2>1, <2>3 DEF After
<1> QED
  BY <1>1, Invariance, PTL

(* No token removes or inserts an array element out of range.              *)
THEOREM NoIndexOutOfRange == Spec => []TokenIndexInRange
<1>1. ASSUME IInv PROVE TokenIndexInRange
  <2> SUFFICES ASSUME target # NoPop, len > target, TopHasToken
               PROVE  /\ Last(log).kind = "remove" => Last(log).idx \in 1..Len(stk)
                      /\ Last(log).kind = "insert" => Last(log).idx \in 1..(Len(stk) + 1)
    BY DEF TokenIndexInRange
  <2>1. log # <<>> /\ ~clearing
    BY <1>1 DEF TopHasToken, IInv, Lists
  <2>2. Len(log) \in 1..Len(log) /\ Last(log) = log[Len(log)]
    BY <1>1, <2>1, TopToken
  <2>3. IdxOK(log[Len(log)], After(log, View, Len(log)))
    BY <1>1, <2>1, <2>2, Zenon DEF IInv, Chain
  <2>4. After(log, View, Len(log)) = View /\ View.stk = stk
    BY DEF After, View, ViewOf
  <2> QED  BY <2>2, <2>3, <2>4 DEF IdxOK
<1> QED
  BY <1>1, Invariance, PTL

(* The assertion of teco_undo_push_size() holds.                           *)
THEOREM PushAssertion == Spec => []PushesToCurrentChar
<1>1. IInv => PushesToCurrentChar
  BY DEF IInv, Lists, PushesToCurrentChar
<1> QED
  BY <1>1, Invariance, PTL

(* No object is freed twice or shared by a variable and a token.           *)
THEOREM NoAliasing == Spec => []OneOwner
<1>1. ASSUME IInv PROVE OneOwner
  <2>1. Ownership
    BY <1>1 DEF IInv
  <2> SUFFICES ASSUME NEW p \in OwnerPtrs \cup TokenPtrs, NEW q \in OwnerPtrs \cup TokenPtrs,
                      Pointee(p) = Pointee(q)
               PROVE  p = q
    BY DEF OneOwner
  <2>2. ASSUME NEW r \in OwnerPtrs
        PROVE  \E v \in Owners : r = <<"var", v>> /\ own[v] # Nil /\ Pointee(r) = own[v]
    BY DEF OwnerPtrs, Pointee
  <2>3. ASSUME NEW r \in TokenPtrs
        PROVE  \E i \in 1..Len(log) : r = <<"tok", i>> /\ OwnedTok(i) /\ Pointee(r) = log[i].val
    BY DEF TokenPtrs, Pointee, OwnedTok
  <2>4. CASE p \in OwnerPtrs /\ q \in OwnerPtrs
    <3>1. PICK v \in Owners : p = <<"var", v>> /\ own[v] # Nil /\ Pointee(p) = own[v]
      BY <2>2, <2>4
    <3>2. PICK w \in Owners : q = <<"var", w>> /\ own[w] # Nil /\ Pointee(q) = own[w]
      BY <2>2, <2>4
    <3>3. v = w
      BY <2>1, <3>1, <3>2 DEF Ownership
    <3> QED  BY <3>1, <3>2, <3>3, Zenon
  <2>5. CASE p \in TokenPtrs /\ q \in TokenPtrs
    <3>1. PICK i \in 1..Len(log) : p = <<"tok", i>> /\ OwnedTok(i) /\ Pointee(p) = log[i].val
      BY <2>3, <2>5
    <3>2. PICK j \in 1..Len(log) : q = <<"tok", j>> /\ OwnedTok(j) /\ Pointee(q) = log[j].val
      BY <2>3, <2>5
    <3>3. i = j
      BY <2>1, <3>1, <3>2 DEF Ownership
    <3> QED  BY <3>1, <3>2, <3>3, Zenon
  <2>6. ASSUME NEW r \in OwnerPtrs, NEW s \in TokenPtrs
        PROVE  Pointee(r) # Pointee(s)
    <3>1. PICK v \in Owners : Pointee(r) = own[v]
      BY <2>2
    <3>2. PICK j \in 1..Len(log) : OwnedTok(j) /\ Pointee(s) = log[j].val
      BY <2>3
    <3> QED  BY <2>1, <3>1, <3>2 DEF Ownership
  <2>7. CASE (p \in OwnerPtrs /\ q \in TokenPtrs) \/ (p \in TokenPtrs /\ q \in OwnerPtrs)
    BY <2>6, <2>7
  <2> QED  BY <2>4, <2>5, <2>6, <2>7
<1> QED
  BY <1>1, Invariance, PTL

(* Exactly the objects that a variable or a token points to are allocated. *)
THEOREM Accounting == Spec => []NoLeak
<1>1. ASSUME IInv PROVE NoLeak
  <2>1. Ownership /\ own \in [Owners -> Objects \cup {Nil}]
    BY <1>1 DEF IInv, TypeOK
  <2>2. \A i \in 1..Len(log) : OwnedTok(i) => log[i].val \in Objects
    <3> SUFFICES ASSUME NEW i \in 1..Len(log), OwnedTok(i) PROVE log[i].val \in Objects
      OBVIOUS
    <3>1. WellFormed(log[i]) /\ log[i].kind = "owned" /\ log[i].val # Nil
      BY <1>1 DEF IInv, TypeOK, OwnedTok
    <3> QED  BY <3>1 DEF WellFormed
  <2>3. ASSUME NEW p \in OwnerPtrs \cup TokenPtrs
        PROVE  Pointee(p) \in Objects /\ heap[Pointee(p)] # Freed
    <3>1. CASE p \in OwnerPtrs
      <4>1. PICK v \in Owners : own[v] # Nil /\ Pointee(p) = own[v]
        BY <3>1 DEF OwnerPtrs, Pointee
      <4> QED  BY <2>1, <4>1 DEF Ownership
    <3>2. CASE p \in TokenPtrs
      <4>1. PICK i \in 1..Len(log) : OwnedTok(i) /\ Pointee(p) = log[i].val
        BY <3>2 DEF TokenPtrs, Pointee, OwnedTok
      <4> QED  BY <2>1, <2>2, <4>1 DEF Ownership
    <3> QED  BY <2>3, <3>1, <3>2
  <2>4. ASSUME NEW o \in Objects, heap[o] # Freed
        PROVE  \E p \in OwnerPtrs \cup TokenPtrs : Pointee(p) = o
    <3>1. CASE \E v \in Owners : own[v] = o
      <4>1. PICK v \in Owners : own[v] = o
        BY <3>1
      <4>2. <<"var", v>> \in OwnerPtrs /\ Pointee(<<"var", v>>) = o
        BY <4>1, UndoAssumption DEF OwnerPtrs, Pointee
      <4> QED  BY <4>2
    <3>2. CASE \E i \in 1..Len(log) : OwnedTok(i) /\ log[i].val = o
      <4>1. PICK i \in 1..Len(log) : OwnedTok(i) /\ log[i].val = o
        BY <3>2
      <4>2. <<"tok", i>> \in TokenPtrs /\ Pointee(<<"tok", i>>) = o
        BY <4>1 DEF TokenPtrs, Pointee, OwnedTok
      <4> QED  BY <4>2
    <3> QED  BY <2>1, <2>4, <3>1, <3>2 DEF Ownership
  <2> QED  BY <2>3, <2>4 DEF NoLeak
<1> QED
  BY <1>1, Invariance, PTL

(* Terminating the command line changes nothing the user could see         *)
(* (teco_undo_clear()).                                                    *)
THEOREM ClearKeepsView == Spec => ClearIsInvisible
<1>1. ASSUME IInv, [Next]_vars PROVE [clearing => View' = View]_vars
  <2> SUFFICES ASSUME clearing, Next PROVE View' = View
    BY <1>1
  <2>1. Busy /\ target = NoPop
    BY <1>1, Zenon DEF IInv, Lists, Busy
  <2>2. ClearToken \/ ClearList \/ EndClear
    BY <2>1 DEF Next, Command, SetScalar, ReplaceOwned, EditOwned, AppendVal, RemoveIndex, NextChar,
                Enable, BeginPop, PopToken, PopList, EndPop, BeginClear
  <2>3. CASE ClearToken
    BY <1>1, <2>3, ClearTokenStep
  <2>4. CASE ClearList
    BY <2>4 DEF ClearList, View
  <2>5. CASE EndClear
    BY <1>1, <2>5, EndClearStep
  <2> QED  BY <2>2, <2>3, <2>4, <2>5
<1> QED
  BY <1>1, Invariance, PTL DEF Spec, ClearIsInvisible
=============================================================================
