------------------------------ MODULE Editing -------------------------------
(***************************************************************************)
(* The commands that move through a document, delete from it, insert into  *)
(* it, ask for positions and change its encoding (move-commands.c,         *)
(* core-commands.c, stdio-commands.c), with the undo tokens they leave.    *)
(* Module Search adds searching, and typing and rubbing out.               *)
(*                                                                         *)
(* An editor is a record, and the functions are operators on it:           *)
(*   docs     the documents of the two buffers of the ring                 *)
(*   current  teco_ring_current                                            *)
(*   shown    the buffer whose view is shown, which the commands work on   *)
(*   ranges   teco_ranges[0] in characters, and teco_ranges_count          *)
(*   search   teco_search_parameters; 0 stands for no buffer               *)
(*   result, pattern  number and string of register _                      *)
(*   replacement      string of register -                                 *)
(*   state    of the parser                                                *)
(*   str      the argument typed so far                                    *)
(*   colons   teco_machine_main_eval_colon()                               *)
(*   tokens   undo tokens, the latest one last                             *)
(*   failed   an error is on its way                                       *)
(***************************************************************************)
EXTENDS Patterns

CONSTANTS
  UseTabs,    \* whether an indention is a tab
  TabWidth    \* or else reaches to a multiple of this column

ASSUME EditingAssumption == UseTabs \in BOOLEAN /\ TabWidth \in Nat \ {0}

Buffers == 1..2
Other(b) == 3 - b
Doc(e) == e.docs[e.shown]
Dot(e) == Doc(e).dot
SetDoc(e, d) == [e EXCEPT !.docs[e.shown] = d]
Fail(e) == [e EXCEPT !.failed = TRUE]
ToStart(e) == [e EXCEPT !.state = "start", !.str = <<>>]

-----------------------------------------------------------------------------
(* Undo tokens.  Most are messages for the view that will be shown then.   *)

Push(e, kind, value) == [e EXCEPT !.tokens = Append(@, [kind |-> kind, value |-> value])]
UndoGoto(e, p) == Push(e, "SCI_GOTOPOS", p)
UndoSel(e) == Push(e, "SCI_SETSEL", <<Doc(e).anchor, Dot(e)>>)
UndoAnchor(e) == Push(e, "SCI_SETANCHOR", Doc(e).anchor)
UndoChange(e) == Push(e, "SCI_UNDO", 0)
UndoRanges(e) == Push(e, "ranges", e.ranges)
UndoRingEdit(e) == Push(e, "ring", e.current)

RunToken(e, t) ==
  CASE t.kind = "SCI_GOTOPOS" -> SetDoc(e, GotoPos(Doc(e), t.value))
    [] t.kind = "SCI_SETSEL" -> SetDoc(e, SetSel(Doc(e), t.value[1], t.value[2]))
    [] t.kind = "SCI_SETANCHOR" -> SetDoc(e, SetSel(Doc(e), t.value, Dot(e)))
    [] t.kind = "SCI_UNDO" -> SetDoc(e, SciUndo(Doc(e)))
    [] t.kind = "SCI_SETCODEPAGE" -> SetDoc(e, [Doc(e) EXCEPT !.utf8 = t.value])
    [] t.kind = "charset" -> SetDoc(e, [Doc(e) EXCEPT !.charset = t.value])
    [] t.kind = "allocate index" -> SetDoc(e, [Doc(e) EXCEPT !.index = @ + 1])
    [] t.kind = "release index" -> SetDoc(e, [Doc(e) EXCEPT !.index = @ - 1])
    [] t.kind = "ranges" -> [e EXCEPT !.ranges = t.value]
    [] t.kind = "ring" -> [e EXCEPT !.current = t.value, !.shown = t.value]
    [] t.kind = "search" -> [e EXCEPT !.search = t.value]
    [] t.kind = "result" -> [e EXCEPT !.result = t.value]
    [] t.kind = "pattern" -> [e EXCEPT !.pattern = t.value]
    [] t.kind = "replacement" -> [e EXCEPT !.replacement = t.value]
RunTokens(e, n) ==
  FoldRight(LAMBDA t, f : RunToken([f EXCEPT !.tokens = Front(@)], t),
            SubSeq(e.tokens, n, Len(e.tokens)), e)

-----------------------------------------------------------------------------
(* Arguments.  The sign in front of a command is its number, if there is   *)
(* no other; teco_expressions_pop_num_calc().                              *)

Number(k, default) == IF k.args = <<>> THEN default ELSE Last(k.args)
Colon(k) == k.colons > 0
IsRange(k) == Len(k.args) > 1
Invalid(from, to) == from < 0 \/ to < 0 \/ from > to

-----------------------------------------------------------------------------
(* Moving (move-commands.c).  Where a colon asks for the outcome, a move   *)
(* that is impossible does nothing, otherwise it fails.                    *)

Impossible(e, k) == IF Colon(k) THEN e ELSE Fail(e)
MoveTo(e, p) == SetDoc(UndoGoto(e, Dot(e)), GotoPos(Doc(e), p))

IfPossible(e, k, p) == IF p >= 0 THEN MoveTo(e, p) ELSE Impossible(e, k)
LineStart(d, l) == IF ValidateLine(d, l) THEN PositionFromLine(d, l) ELSE -1

Jump(e, k) == IfPossible(e, k, Glyphs2Bytes(Doc(e), Number(k, 0)))
MoveChars(e, k, n) == IfPossible(e, k, Glyphs2BytesRelative(Doc(e), Dot(e), n))
MoveLines(e, k, n) == IfPossible(e, k, LineStart(Doc(e), LineFromPosition(Doc(e), Dot(e)) + n))

MoveForward(e, k) == MoveChars(e, k, Number(k, 1))
MoveReverse(e, k) == MoveChars(e, k, -Number(k, 1))
LineForward(e, k) == MoveLines(e, k, Number(k, 1))
LineBack(e, k) == MoveLines(e, k, -Number(k, 1))

(* The gap of Scintilla's buffer is where the text was changed last.       *)
Gap(d) == IF d.undo = <<>> THEN Size(d) ELSE Clamped(d, Last(d.undo).dot)
WordsOf(e, k, n) == FindWords(Doc(e).text, Dot(e), n, k.at, Gap(Doc(e)))
ToWord(e, k, w) == IF w.ok THEN MoveTo(e, w.pos) ELSE Impossible(e, k)
MoveWords(e, k, n) == ToWord(e, k, WordsOf(e, k, n))

Delete(e, from, n) ==
  SetDoc(UndoChange(UndoGoto(e, Dot(e))), DeleteRange(Doc(e), from, n))
DeleteToWord(e, k, w, dot) ==
  CASE ~w.ok -> Impossible(e, k)
    [] w.ok /\ w.pos = dot -> e
    [] w.ok /\ w.pos > dot -> Delete(e, dot, w.pos - dot)
    [] w.ok /\ w.pos < dot -> Delete(e, w.pos, dot - w.pos)
DeleteWords(e, k, n) == DeleteToWord(e, k, WordsOf(e, k, n), Dot(e))

(* The range from..to, or up to a character or a line relative to dot.     *)
Between(p, dot) == IF p < dot THEN <<p, dot>> ELSE <<dot, p>>
DotTo(p, dot) == IF p < 0 THEN <<-1, -1>> ELSE Between(p, dot)
LineRange(e, n) == DotTo(LineStart(Doc(e), LineFromPosition(Doc(e), Dot(e)) + n), Dot(e))
CharRange(e, n) == DotTo(Glyphs2BytesRelative(Doc(e), Dot(e), n), Dot(e))
KillRange(e, k, from, to) ==
  IF Invalid(from, to) THEN Impossible(e, k)
  ELSE IF from = to THEN e ELSE Delete(e, from, to - from)
KillBetween(e, k, r) == KillRange(e, k, r[1], r[2])
Kill(e, k, byLines) ==
  KillBetween(e, k,
    IF IsRange(k) THEN <<Glyphs2Bytes(Doc(e), k.args[1]), Glyphs2Bytes(Doc(e), k.args[2])>>
    ELSE IF byLines THEN LineRange(e, Number(k, 1)) ELSE CharRange(e, Number(k, 1)))

-----------------------------------------------------------------------------
(* Queries.                                                                *)

(* A: the character relative to dot; -1 is off page.                       *)
GetAt(d, p) == IF p < 0 \/ p = Size(d) THEN "off page" ELSE GetCharacter(d, p)

(* ^E and :^E                                                              *)
ToBytes(d, n) == Glyphs2Bytes(d, n)
ToGlyphs(d, p) == IF p \in 0..Size(d) THEN Bytes2Glyphs(d, p) ELSE -1

(* ^Q, the characters up to a line, and :^Q, the line of a position.       *)
NoAnswer == <<>>
LinesToGlyphs(d, n) ==
  LET l == LineFromPosition(d, d.dot) + n IN
  IF ValidateLine(d, l) THEN <<Bytes2Glyphs(d, PositionFromLine(d, l)) - Bytes2Glyphs(d, d.dot)>>
  ELSE NoAnswer
GlyphsToLine(d, n) ==
  IF Glyphs2Bytes(d, n) < 0 THEN NoAnswer ELSE <<LineFromPosition(d, Glyphs2Bytes(d, n)) + 1>>

(* ^Y and ^S: the last match or insertion, nothing when there is none.     *)
LastRange(e, n) == IF n < 0 \/ n >= e.ranges.count THEN NoAnswer ELSE <<e.ranges.from, e.ranges.to>>
LastLength(e, n) == IF n < 0 \/ n >= e.ranges.count THEN NoAnswer ELSE <<e.ranges.from - e.ranges.to>>

(* The range of T, and what it types out if that is valid.                 *)
RangeArgs(d, args) ==
  IF Len(args) > 1 THEN <<Glyphs2Bytes(d, args[1]), Glyphs2Bytes(d, args[2])>>
  ELSE DotTo(LineStart(d, LineFromPosition(d, d.dot) + args[1]), d.dot)
TypedOut(d, args) ==
  LET r == RangeArgs(d, args) IN
  IF Invalid(r[1], r[2]) THEN NoAnswer ELSE << Slice(d.text, r[1], r[2]) >>
Typeout(e, k) == IF TypedOut(Doc(e), k.args) = NoAnswer THEN Fail(e) ELSE e

-----------------------------------------------------------------------------
(* EE and :EE: the encoding of the document, and its conversion (which may *)
(* fail when the tokens have been pushed already).                         *)

UTF8 == 65001
Codepage(d) == IF d.utf8 THEN UTF8 ELSE d.charset
Supported(cp) == cp = UTF8 \/ cp \in DOMAIN Narrow
Encoded(c, cp) ==
  CASE c \notin DOMAIN Wide -> <<c>>
    [] c \in DOMAIN Wide /\ cp = UTF8 -> Wide[c]
    [] OTHER -> IF c \in DOMAIN Narrow[cp] THEN <<Narrow[cp][c]>> ELSE <<"lossy">>
FromByte(b, chars) ==
  CASE \E c \in DOMAIN chars : chars[c] = b -> CHOOSE c \in DOMAIN chars : chars[c] = b
    [] b \notin High -> b
    [] OTHER -> "invalid"
CharAt(d, p) == IF d.utf8 THEN GetCharacter(d, p) ELSE FromByte(d.text[p + 1], Narrow[d.charset])
Decoded(d) == [i \in 1..(Cardinality(Borders(d)) - 1) |-> CharAt(d, Nth(Borders(d), i))]
Converts(d, cp) ==
  /\ Supported(cp) /\ Supported(Codepage(d))
  /\ \A i \in DOMAIN Decoded(d) : Decoded(d)[i] \notin {"invalid", "incomplete"}
                                   /\ Encoded(Decoded(d)[i], cp) # <<"lossy">>
Converted(d, cp) == FlattenSeq([i \in DOMAIN Decoded(d) |-> Encoded(Decoded(d)[i], cp)])

EncodingTokens(e, cp) ==
  IF Doc(e).utf8 THEN Push(Push(e, "allocate index", 0), "SCI_SETCODEPAGE", TRUE)
  ELSE IF cp = UTF8
  THEN Push(Push(Push(e, "SCI_SETCODEPAGE", FALSE), "charset", Doc(e).charset), "release index", 0)
  ELSE Push(Push(e, "SCI_SETCODEPAGE", FALSE), "charset", Doc(e).charset)
SetEncoding(d, cp) ==
  IF cp = UTF8 THEN [d EXCEPT !.utf8 = TRUE, !.index = @ + 1]
  ELSE [d EXCEPT !.utf8 = FALSE, !.charset = cp, !.index = IF d.utf8 THEN @ - 1 ELSE @]

(* Clearing and appending is one undo action, if there is anything at all. *)
Replaced(d, t) ==
  IF t = <<>> /\ d.text = <<>> THEN d
  ELSE [d EXCEPT !.text = t, !.undo = Append(@, [text |-> d.text, dot |-> Len(t)])]
ConvertDoc(e, cp) ==
  LET n == Bytes2Glyphs(Doc(e), Dot(e))
      d == SetEncoding(Replaced(Doc(e), Converted(Doc(e), cp)), cp) IN
  SetDoc(UndoChange(UndoGoto(e, Dot(e))), GotoPos(d, Glyphs2Bytes(d, n)))
SetCodepage(e, cp, converts) ==
  LET f == EncodingTokens(e, cp) IN
  IF ~converts THEN SetDoc(f, SetEncoding(Doc(f), cp))
  ELSE IF Converts(Doc(f), cp) THEN ConvertDoc(f, cp) ELSE Fail(f)
Encoding(e, k) ==
  IF k.args = <<>> \/ (Codepage(Doc(e)) = UTF8 /\ Last(k.args) = UTF8) THEN e
  ELSE SetCodepage(e, Last(k.args), Colon(k))

-----------------------------------------------------------------------------
(* Inserting (core-commands.c).                                            *)

(* Mutant: ^Y in bytes.                                                    *)
RangeFromByte(e) == [e.ranges EXCEPT !.from = Dot(e), !.count = 1]
RangeFrom(e) == [e.ranges EXCEPT !.from = Bytes2Glyphs(Doc(e), Dot(e)), !.count = 1]
StartRange(e) == [UndoRanges(e) EXCEPT !.ranges = RangeFrom(e)]
EndRange(e) == [UndoRanges(e) EXCEPT !.ranges.to = Bytes2Glyphs(Doc(e), Dot(e))]
Insert(e, s) == SetDoc(UndoChange(e), AddText(Doc(e), s))

(* A number that has been formatted; \ without one only reads.             *)
RangeOf(from, n) == [from |-> from, to |-> from + n, count |-> 1]
Backslash(e, k) ==
  IF k.args = <<>> THEN e
  ELSE Insert([UndoRanges(e) EXCEPT !.ranges = RangeOf(Bytes2Glyphs(Doc(e), Dot(e)), Len(k.args))],
              k.args)

(* The arguments are characters in front of the text.                      *)
InsertInitial(e, k) ==
  IF k.args = <<>> THEN StartRange(e)
  ELSE Insert(StartRange(e), FlattenSeq([i \in DOMAIN k.args |-> BytesOf(k.args[i])]))
Indention(d) ==
  IF UseTabs THEN <<"tab">>
  ELSE [i \in 1..(TabWidth - (Column(d, d.dot) % TabWidth)) |-> " "]
Indent(e) == Insert(e, Indention(Doc(e)))
IndentInitial(e, k) == Indent(InsertInitial(e, k))

InsertProcess(e, new) == Insert(e, FlattenSeq([i \in DOMAIN new |-> BytesOf(new[i])]))
InsertDone(e) == ToStart(EndRange(e))
=============================================================================
