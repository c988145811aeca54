----------------------------- MODULE Documents ------------------------------
(***************************************************************************)
(* Documents of registers (doc.c).  All registers share one Scintilla      *)
(* view, which shows one document at a time: whoever wants to read or      *)
(* change a register puts its document into the view and afterwards the    *)
(* one of the register that is being edited.  Documents are counted        *)
(* references; undo tokens hold some of them and mention others.           *)
(*                                                                         *)
(* An editor is a record, and the functions are operators on it:           *)
(*   docs     the Scintilla documents: text, what SCI_UNDO goes back to,   *)
(*            the number of references, and whether a file has been loaded *)
(*   view     teco_qreg_view: the document it shows and dot                *)
(*   regs     the registers: integer, document (0: not created yet), dot   *)
(*   current  teco_qreg_current                                            *)
(*   table    teco_qreg_table_current                                      *)
(*   stack    the push-down list, array the block of memory it lives in    *)
(*   outside  the strings of the registers that stand for something else   *)
(*   tokens   undo tokens, the latest one last                             *)
(*   undo     teco_undo_enabled                                            *)
(*   failed   an error is on its way                                       *)
(*   dangling memory has been used that had been freed                     *)
(***************************************************************************)
EXTENDS Integers, SequencesExt

CONSTANTS
  Locals,     \* local registers, the ones of a running macro
  MaxDocs,    \* bound on the documents that exist
  Capacity    \* elements that fit into the first block of the push-down list

ASSUME DocumentsAssumption == MaxDocs \in Nat /\ Capacity \in Nat

MustUndo(q) == q \notin Locals
Reg(q) == <<"reg", q>>
Entry(e, i) == <<"stack", i, e.array>>

(* A teco_doc_t belongs to a register or to an element of the push-down    *)
(* list.                                                                   *)
Ctx(e, p) == IF p[1] = "reg" THEN e.regs[p[2]] ELSE e.stack[p[2]]
SetCtx(e, p, c) ==
  IF p[1] = "reg" THEN [e EXCEPT !.regs[p[2]] = c] ELSE [e EXCEPT !.stack[p[2]] = c]
(* A pointer into the push-down list is good while that has not moved.     *)
Valid(e, p) == p[1] = "reg" \/ (p[2] \in DOMAIN e.stack /\ p[3] = e.array)

-----------------------------------------------------------------------------
(* Scintilla documents.                                                    *)

Free == [text |-> <<>>, undo |-> <<>>, refs |-> 0, loaded |-> FALSE]
Ref(e, d) == IF d = 0 THEN e ELSE [e EXCEPT !.docs[d].refs = @ + 1]
Release(e, d) ==
  IF d = 0 THEN e
  ELSE [e EXCEPT !.docs[d] = IF @.refs = 1 THEN Free ELSE [@ EXCEPT !.refs = @ - 1],
                 !.dangling = @ \/ e.docs[d].refs = 0]

(* A number that nobody remembers.                                         *)
Mentioned(e) ==
  {t.doc : t \in {u \in {e.tokens[i] : i \in DOMAIN e.tokens} : u.kind \in {"show", "doc"}}}
Unused(e) == {d \in DOMAIN e.docs : e.docs[d].refs = 0} \ Mentioned(e)
Created(e, p) ==
  IF Ctx(e, p).doc # 0 THEN e
  ELSE LET d == CHOOSE x \in Unused(e) : \A y \in Unused(e) : x <= y IN
       Ref(SetCtx(e, p, [Ctx(e, p) EXCEPT !.doc = d]), d)

Text(e, d) == IF d = 0 THEN <<>> ELSE e.docs[d].text
Least(a, b) == IF a < b THEN a ELSE b

(* SCI_SETDOCPOINTER and SCI_SETSEL.                                       *)
Show(e, d, dot) ==
  [Release(Ref(e, d), e.view.doc) EXCEPT
     !.view = [doc |-> d, dot |-> Least(dot, Len(Text(e, d)))],
     !.dangling = @ \/ e.docs[d].refs = 0]

(* What is done is one action for SCI_UNDO, which leaves dot where it was  *)
(* undone; inserting or deleting nothing is none.                          *)
ChangeText(e, text, dot, back) ==
  LET d == e.view.doc IN
  IF text = <<>> /\ e.docs[d].text = <<>> THEN e
  ELSE [e EXCEPT !.docs[d].undo = Append(@, [text |-> e.docs[d].text, dot |-> back]),
                 !.docs[d].text = text, !.view.dot = dot]
AppendText(e, text) ==
  LET old == Text(e, e.view.doc) IN
  IF text = <<>> THEN e ELSE ChangeText(e, old \o text, e.view.dot, Len(old))
ReplaceText(e, text) == ChangeText(e, text, Len(text), Len(Text(e, e.view.doc)))
SciUndo(e) ==
  LET d == e.view.doc IN
  IF e.docs[d].undo = <<>> THEN e
  ELSE [e EXCEPT !.docs[d].text = Last(e.docs[d].undo).text,
                 !.view.dot = Last(e.docs[d].undo).dot, !.docs[d].undo = Front(@)]

-----------------------------------------------------------------------------
(* Undo tokens.                                                            *)

Push(e, t) == IF e.undo THEN [e EXCEPT !.tokens = Append(@, t)] ELSE e
UndoDot(e, p) == Push(e, [kind |-> "dot", place |-> p, dot |-> Ctx(e, p).dot])
UndoDocUncounted(e, p) == Push(e, [kind |-> "doc", place |-> p, doc |-> Ctx(e, p).doc])
UndoDoc(e, p) ==
  IF ~e.undo THEN e
  ELSE Push(Ref(e, Ctx(e, p).doc), [kind |-> "doc", place |-> p, doc |-> Ctx(e, p).doc])
UndoInt(e, p) == Push(e, [kind |-> "int", place |-> p, int |-> Ctx(e, p).int])
UndoCurrent(e) == Push(e, [kind |-> "current", current |-> e.current])
UndoOutside(e, q) == Push(e, [kind |-> "outside", q |-> q, text |-> e.outside[q]])
UndoSci(e) == Push(e, [kind |-> "undo"])
UndoGoto(e) == Push(e, [kind |-> "goto", dot |-> e.view.dot])

-----------------------------------------------------------------------------
(* doc.c                                                                   *)

DocEdit(e, p) == LET f == Created(e, p) IN Show(f, Ctx(f, p).doc, Ctx(f, p).dot)
DocUndoEdit(e, p) ==
  LET f == Created(e, p) IN Push(f, [kind |-> "show", doc |-> Ctx(f, p).doc, dot |-> Ctx(f, p).dot])

(* The view knows best where dot is in the document it shows; it is asked  *)
(* without regard to which one that is.                                    *)
UpdateFromView(e, p) == SetCtx(e, p, [Ctx(e, p) EXCEPT !.dot = e.view.dot])
UpdateCurrent(e) == IF e.current = "none" THEN e ELSE UpdateFromView(e, Reg(e.current))
EditCurrent(e) == IF e.current = "none" THEN e ELSE DocEdit(e, Reg(e.current))
UndoEditCurrent(e) ==
  IF e.current # "none" /\ MustUndo(e.current) THEN DocUndoEdit(e, Reg(e.current)) ELSE e

(* The document of a register is put into the view for a moment.           *)
EnterHastily(e, p) == DocEdit(e, p)
Enter(e, p) == DocEdit(UpdateCurrent(e), p)

DocSetString(e, p, text) ==
  LET f == UpdateCurrent(e)
      g == SetCtx(Release(f, Ctx(f, p).doc), p, [Ctx(f, p) EXCEPT !.doc = 0, !.dot = 0]) IN
  EditCurrent(AppendText(DocEdit(g, p), text))
DocUndoSetString(e, p) ==
  LET f == UpdateFromView(e, p) IN
  UndoDoc(UndoDot(IF p = Reg(e.current) THEN UndoEditCurrent(f) ELSE f, p), p)
DocGetStringOnly(e, p) == IF Ctx(e, p).doc = 0 THEN e ELSE Enter(e, p)
DocGetString(e, p) == IF Ctx(e, p).doc = 0 THEN e ELSE EditCurrent(Enter(e, p))

DocExchange(e, p, r) ==
  LET c == Ctx(e, p)  d == Ctx(e, r) IN
  SetCtx(SetCtx(e, p, [c EXCEPT !.doc = d.doc, !.dot = d.dot]), r,
         [d EXCEPT !.doc = c.doc, !.dot = c.dot])
DocUndoExchange(e, p) == UndoDot(UndoDoc(e, p), p)

-----------------------------------------------------------------------------
(* Running and dropping tokens.                                            *)

RestoreDoc(e, t) ==
  SetCtx(Release(e, Ctx(e, t.place).doc), t.place, [Ctx(e, t.place) EXCEPT !.doc = t.doc])
RunToken(e, t) ==
  CASE t.kind \in {"dot", "doc", "int"} /\ ~Valid(e, t.place) -> [e EXCEPT !.dangling = TRUE]
    [] t.kind = "dot" /\ Valid(e, t.place) -> SetCtx(e, t.place, [Ctx(e, t.place) EXCEPT !.dot = t.dot])
    [] t.kind = "doc" /\ Valid(e, t.place) -> RestoreDoc(e, t)
    [] t.kind = "int" /\ Valid(e, t.place) -> SetCtx(e, t.place, [Ctx(e, t.place) EXCEPT !.int = t.int])
    [] t.kind = "show" -> Show(e, t.doc, t.dot)
    [] t.kind = "current" -> [e EXCEPT !.current = t.current]
    [] t.kind = "outside" -> [e EXCEPT !.outside[t.q] = t.text]
    [] t.kind = "undo" -> SciUndo(e)
    [] t.kind = "goto" -> [e EXCEPT !.view.dot = Least(t.dot, Len(Text(e, e.view.doc)))]
    [] t.kind = "entry" -> [e EXCEPT !.stack = Append(@, t.entry)]
    [] t.kind = "remove last" ->
         [Release(e, Last(e.stack).doc) EXCEPT !.stack = Front(@)]

(* The tokens from the n-th one on are run, the latest one first.          *)
RECURSIVE RunTokens(_, _)
RunTokens(e, n) ==
  IF Len(e.tokens) < n THEN e
  ELSE RunTokens(RunToken([e EXCEPT !.tokens = Front(@)], Last(e.tokens)), n)

Owned(t) == CASE t.kind = "doc" -> t.doc [] t.kind = "entry" -> t.entry.doc [] OTHER -> 0
RECURSIVE DropTokens(_)
DropTokens(e) ==
  IF e.tokens = <<>> THEN e
  ELSE DropTokens(Release([e EXCEPT !.tokens = Front(@)], Owned(Last(e.tokens))))
=============================================================================
