-------------------------------- MODULE Undo --------------------------------
(***************************************************************************)
(* The undo stack of SciTECO (undo.c, undo.h, the array tokens of          *)
(* expressions.h) together with the kinds of editor state it protects:     *)
(*                                                                         *)
(*   scal   variables of scalar type (teco_undo_int(), teco_undo_ptr()...) *)
(*   own    variables that own a heap object (teco_undo_string() and       *)
(*          teco_undo_string_own()), heap being the objects themselves     *)
(*   stk    a GArray changed by g_array_append_val() and                   *)
(*          g_array_remove_index(), as the expression and loop stacks are  *)
(*                                                                         *)
(* Every command line character at index pc leaves a list of tokens.  The  *)
(* array of lists is the flat sequence log, whose tokens are tagged with   *)
(* the index of the list they are in (field "at"), and the array's length  *)
(* len.  A token carries one ghost field, "before": what the editor showed *)
(* when the token was pushed.  A command may stop (fail) after any of its  *)
(* changes, so Begin Pop may follow every step.                            *)
(***************************************************************************)
EXTENDS Integers, SequencesExt

CONSTANTS
  Scalars,   \* names of scalar variables
  Owners,    \* names of variables that own a heap object
  Values,    \* scalar values, contents of heap objects, elements of the array
  Objects,   \* addresses of heap objects
  Nil,       \* the null pointer
  Freed,     \* content of an address that is not allocated
  NoPop,     \* no teco_undo_pop() is in progress
  MaxPc,     \* bound: length of the command line
  MaxLog,    \* bound: tokens on the stack
  MaxStk     \* bound: length of the array

ASSUME UndoAssumption ==
  /\ Nil \notin Objects \cup Values
  /\ Freed \notin Values \cup {Nil}
  /\ NoPop \notin Nat
  /\ MaxPc \in Nat /\ MaxLog \in Nat /\ MaxStk \in Nat

(* Addresses are alike, and so are the owners.                             *)
Symmetry == Permutations(Objects) \cup Permutations(Owners)

VARIABLES
  enabled,   \* teco_undo_enabled
  pc,        \* teco_cmdline.pc: the character being executed
  scal, own, heap, stk,
  log,       \* the tokens of all lists, oldest first
  len,       \* teco_undo_heads->len
  target,    \* the argument of the teco_undo_pop() in progress
  clearing,  \* a teco_undo_clear() is in progress
  snaps,     \* ghost: snaps[n+1] is what the editor showed when pc became n
  marks      \* ghost: marks[n+1] is Len(log) at that moment

state == <<scal, own, heap, stk>>
vars  == <<enabled, pc, scal, own, heap, stk, log, len, target, clearing, snaps, marks>>

Kinds == {"scalar", "owned", "insert", "remove"}

(* The content a pointer refers to.                                        *)
Content(h, o) == IF o = Nil THEN Nil ELSE h[o]

(* What a user can observe of the editor: addresses do not show.           *)
ViewOf(s, w, h, k) == [scal |-> s, own |-> [v \in Owners |-> Content(h, w[v])], stk |-> k]
View == ViewOf(scal, own, heap, stk)

Views == [scal : [Scalars -> Values], own : [Owners -> Values \cup {Nil}], stk : Seq(Values)]

(* Fields a kind of token does not use hold the token's variable-free      *)
(* default: Nil for var and val, 0 for idx.                                *)
Tokens ==
  [kind   : Kinds,
   var    : Scalars \cup Owners \cup {Nil},
   val    : Values \cup Objects \cup {Nil},
   idx    : Nat,
   at     : Nat,
   before : Views]

WellFormed(t) ==
  CASE t.kind = "scalar" -> t.var \in Scalars /\ t.val \in Values
    [] t.kind = "owned"  -> t.var \in Owners /\ t.val \in Objects \cup {Nil}
    [] t.kind = "insert" -> t.val \in Values /\ t.idx >= 1
    [] t.kind = "remove" -> t.idx >= 1

Busy == target # NoPop \/ clearing

TypeOK ==
  /\ enabled \in BOOLEAN
  /\ pc \in Nat
  /\ scal \in [Scalars -> Values]
  /\ own \in [Owners -> Objects \cup {Nil}]
  /\ heap \in [Objects -> Values \cup {Freed}]
  /\ stk \in Seq(Values)
  /\ log \in Seq(Tokens)
  /\ \A i \in 1..Len(log) : WellFormed(log[i])
  /\ len \in Nat
  /\ target \in Nat \cup {NoPop}
  /\ clearing \in BOOLEAN
  /\ snaps \in Seq(Views)
  /\ marks \in Seq(Nat)

Init ==
  /\ enabled = FALSE
  /\ pc = 0
  /\ scal \in [Scalars -> Values]
  /\ own = [v \in Owners |-> Nil]
  /\ heap = [o \in Objects |-> Freed]
  /\ stk = <<>>
  /\ log = <<>>
  /\ len = 0
  /\ target = NoPop
  /\ clearing = FALSE
  /\ snaps = <<View>>
  /\ marks = <<0>>

-----------------------------------------------------------------------------
(* Pushing tokens.                                                         *)

(* teco_undo_push_size(): nothing is recorded when undo is disabled;       *)
(* otherwise the array is padded with empty lists up to index pc and the   *)
(* token joins the list at pc.                                             *)
Push(kind, var, val, idx) ==
  IF enabled
  THEN /\ Len(log) < MaxLog
       /\ log' = Append(log, [kind |-> kind, var |-> var, val |-> val, idx |-> idx,
                              at |-> pc, before |-> View])
       /\ len' = IF len <= pc THEN pc + 1 ELSE len
       /\ snaps' = snaps
  ELSE /\ UNCHANGED <<log, len>>
       /\ snaps' = <<View'>>

(* Faulty: the value is saved after the assignment.                        *)
SetScalarTooLate(v, x) ==
  /\ ~Busy
  /\ scal' = [scal EXCEPT ![v] = x]
  /\ UNCHANGED <<own, heap, stk>>
  /\ Push("scalar", v, x, 0)
  /\ UNCHANGED <<enabled, pc, target, clearing, marks>>

(* teco_undo_int(v) = x, likewise the other scalar types.                  *)
SetScalar(v, x) ==
  /\ ~Busy
  /\ scal' = [scal EXCEPT ![v] = x]
  /\ UNCHANGED <<own, heap, stk>>
  /\ Push("scalar", v, scal[v], 0)
  /\ UNCHANGED <<enabled, pc, target, clearing, marks>>

(* DELETE(o): a null pointer has nothing to free.                          *)
Delete(h, o) == IF o = Nil THEN h ELSE [h EXCEPT ![o] = Freed]

(* teco_undo_string_own(v), then v = a new object: the old object passes   *)
(* to the token, or is deleted if undo is disabled.                        *)
ReplaceOwned(v, x) ==
  /\ ~Busy
  /\ \E o \in Objects :
       /\ heap[o] = Freed
       /\ own' = [own EXCEPT ![v] = o]
       /\ heap' = [(IF enabled THEN heap ELSE Delete(heap, own[v])) EXCEPT ![o] = x]
  /\ UNCHANGED <<scal, stk>>
  /\ Push("owned", v, own[v], 0)
  /\ UNCHANGED <<enabled, pc, target, clearing, marks>>

(* Faulty: the token shares the object that is changed in place.           *)
EditOwnedShared(v, x) ==
  /\ ~Busy
  /\ own[v] # Nil
  /\ heap' = [heap EXCEPT ![own[v]] = x]
  /\ UNCHANGED <<scal, own, stk>>
  /\ Push("owned", v, own[v], 0)
  /\ UNCHANGED <<enabled, pc, target, clearing, marks>>

(* teco_undo_string(v), then v's object is changed in place: the token     *)
(* gets a copy of the object.                                              *)
EditOwned(v, x) ==
  /\ ~Busy
  /\ own[v] # Nil
  /\ IF enabled
     THEN \E c \in Objects :
            /\ heap[c] = Freed
            /\ heap' = [heap EXCEPT ![c] = heap[own[v]], ![own[v]] = x]
            /\ UNCHANGED <<scal, own, stk>>
            /\ Push("owned", v, c, 0)
     ELSE /\ heap' = [heap EXCEPT ![own[v]] = x]
          /\ UNCHANGED <<scal, own, stk>>
          /\ Push("owned", v, Nil, 0)
  /\ UNCHANGED <<enabled, pc, target, clearing, marks>>

(* g_array_append_val() with undo__remove_index__ARRAY(len-1).             *)
AppendVal(x) ==
  /\ ~Busy
  /\ Len(stk) < MaxStk
  /\ stk' = Append(stk, x)
  /\ UNCHANGED <<scal, own, heap>>
  /\ Push("remove", Nil, Nil, Len(stk) + 1)
  /\ UNCHANGED <<enabled, pc, target, clearing, marks>>

(* undo__insert_val__ARRAY(i, val) with g_array_remove_index(i): the       *)
(* element need not be the last one.                                       *)
RemoveIndex(i) ==
  /\ ~Busy
  /\ i \in 1..Len(stk)
  /\ stk' = RemoveAt(stk, i)
  /\ UNCHANGED <<scal, own, heap>>
  /\ Push("insert", Nil, stk[i], i)
  /\ UNCHANGED <<enabled, pc, target, clearing, marks>>

(* The character at pc has been executed: teco_cmdline.pc++.               *)
NextChar ==
  /\ ~Busy /\ enabled
  /\ pc < MaxPc
  /\ pc' = pc + 1
  /\ snaps' = Append(snaps, View)
  /\ marks' = Append(marks, Len(log))
  /\ UNCHANGED <<enabled, scal, own, heap, stk, log, len, target, clearing>>

(* The interactive mode begins.                                            *)
Enable ==
  /\ ~Busy /\ ~enabled
  /\ enabled' = TRUE
  /\ UNCHANGED <<pc, scal, own, heap, stk, log, len, target, clearing, snaps, marks>>

-----------------------------------------------------------------------------
(* Popping and clearing.  Both take the top list off the array and run its *)
(* tokens, latest first; here a token is one step.                         *)

(* Faulty: the object that is replaced is not deleted.                     *)
RunTokenLeaking(t) ==
  /\ scal' = IF t.kind = "scalar" THEN [scal EXCEPT ![t.var] = t.val] ELSE scal
  /\ own' = IF t.kind = "owned" THEN [own EXCEPT ![t.var] = t.val] ELSE own
  /\ stk' = CASE t.kind = "insert" -> InsertAt(stk, t.idx, t.val)
              [] t.kind = "remove" -> RemoveAt(stk, t.idx)
              [] OTHER -> stk
  /\ UNCHANGED heap

(* A token's action_cb(run = TRUE).                                        *)
RunToken(t) ==
  /\ scal' = IF t.kind = "scalar" THEN [scal EXCEPT ![t.var] = t.val] ELSE scal
  /\ own' = IF t.kind = "owned" THEN [own EXCEPT ![t.var] = t.val] ELSE own
  /\ heap' = IF t.kind = "owned" THEN Delete(heap, own[t.var]) ELSE heap
  /\ stk' = CASE t.kind = "insert" -> InsertAt(stk, t.idx, t.val)
              [] t.kind = "remove" -> RemoveAt(stk, t.idx)
              [] OTHER -> stk

(* A token's action_cb(run = FALSE).                                       *)
DiscardToken(t) ==
  /\ heap' = IF t.kind = "owned" THEN Delete(heap, t.val) ELSE heap
  /\ UNCHANGED <<scal, own, stk>>

(* The top list has a token left.                                          *)
TopHasToken == log # <<>> /\ Last(log).at = len - 1

BeginPop(n) ==
  /\ ~Busy /\ enabled
  /\ n <= pc
  /\ target' = n
  /\ UNCHANGED <<enabled, pc, scal, own, heap, stk, log, len, clearing, snaps, marks>>

PopToken ==
  /\ target # NoPop /\ len > target
  /\ TopHasToken
  /\ RunToken(Last(log))
  /\ log' = Front(log)
  /\ UNCHANGED <<enabled, pc, len, target, clearing, snaps, marks>>

PopList ==
  /\ target # NoPop /\ len > target
  /\ ~TopHasToken
  /\ len' = len - 1
  /\ UNCHANGED <<enabled, pc, scal, own, heap, stk, log, target, clearing, snaps, marks>>

EndPop ==
  /\ target # NoPop /\ len <= target
  /\ target' = NoPop
  /\ pc' = target
  /\ snaps' = SubSeq(snaps, 1, target + 1)
  /\ marks' = SubSeq(marks, 1, target + 1)
  /\ UNCHANGED <<enabled, scal, own, heap, stk, log, len, clearing>>

BeginClear ==
  /\ ~Busy /\ enabled
  /\ clearing' = TRUE
  /\ UNCHANGED <<enabled, pc, scal, own, heap, stk, log, len, target, snaps, marks>>

ClearToken ==
  /\ clearing /\ len > 0
  /\ TopHasToken
  /\ DiscardToken(Last(log))
  /\ log' = Front(log)
  /\ UNCHANGED <<enabled, pc, len, target, clearing, snaps, marks>>

ClearList ==
  /\ clearing /\ len > 0
  /\ ~TopHasToken
  /\ len' = len - 1
  /\ UNCHANGED <<enabled, pc, scal, own, heap, stk, log, target, clearing, snaps, marks>>

(* The command line is empty again.                                        *)
EndClear ==
  /\ clearing /\ len = 0
  /\ clearing' = FALSE
  /\ pc' = 0
  /\ snaps' = <<View>>
  /\ marks' = <<0>>
  /\ UNCHANGED <<enabled, scal, own, heap, stk, log, len, target>>

Command ==
  \/ \E v \in Scalars, x \in Values : SetScalar(v, x)
  \/ \E v \in Owners, x \in Values : ReplaceOwned(v, x) \/ EditOwned(v, x)
  \/ \E x \in Values : AppendVal(x)
  \/ \E i \in 1..Len(stk) : RemoveIndex(i)

Next ==
  \/ Command
  \/ NextChar
  \/ Enable
  \/ \E n \in 0..pc : BeginPop(n)
  \/ PopToken \/ PopList \/ EndPop
  \/ BeginClear \/ ClearToken \/ ClearList \/ EndClear

Spec == Init /\ [][Next]_vars

-----------------------------------------------------------------------------
(* What the undo stack promises.                                           *)

(* Once teco_undo_pop(n) has emptied every list from n on, the editor      *)
(* shows exactly what it showed when the character at n was about to be    *)
(* executed, whatever the commands changed since, in whatever order, and   *)
(* even if the last of them failed half way.                               *)
RuboutRestores ==
  target # NoPop /\ len <= target => View = snaps[target + 1]

(* An index a token removes or inserts at exists when the token runs: the  *)
(* GArray functions are never called out of range.                         *)
TokenIndexInRange ==
  target # NoPop /\ len > target /\ TopHasToken =>
    LET t == Last(log) IN
      /\ t.kind = "remove" => t.idx \in 1..Len(stk)
      /\ t.kind = "insert" => t.idx \in 1..(Len(stk) + 1)

(* The assertion of teco_undo_push_size(): after padding, the top list is  *)
(* the one of the current character.                                       *)
PushesToCurrentChar == ~Busy => len <= pc + 1

(* No object has two owners: nothing is freed twice, and no token holds an *)
(* object that a command can still change in place.                        *)
OwnerPtrs == {<<"var", v>> : v \in {w \in Owners : own[w] # Nil}}
TokenPtrs == {<<"tok", i>> : i \in {j \in 1..Len(log) : log[j].kind = "owned" /\ log[j].val # Nil}}
Pointee(p) == IF p[1] = "var" THEN own[p[2]] ELSE log[p[2]].val
OneOwner ==
  \A p, q \in OwnerPtrs \cup TokenPtrs : Pointee(p) = Pointee(q) => p = q

(* Exactly the objects somebody owns are allocated: no dangling pointer,   *)
(* no leak.                                                                *)
NoLeak ==
  {o \in Objects : heap[o] # Freed} = {Pointee(p) : p \in OwnerPtrs \cup TokenPtrs}

(* Terminating the command line drops the undo information without any     *)
(* effect the user could see.                                              *)
ClearIsInvisible == [][clearing => View' = View]_vars
=============================================================================
