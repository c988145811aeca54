------------------------------ MODULE TextView ------------------------------
(***************************************************************************)
(* The text a view shows, as the commands see it: the messages of          *)
(* Scintilla they send (external), the conversion between positions in     *)
(* bytes and in characters (view.c), and the search for words              *)
(* (move-commands.c).  A position lies between two bytes, 0 in front of    *)
(* the first one.  A document is a record:                                 *)
(*   text         bytes                                                    *)
(*   dot, anchor  the ends of the selection                                *)
(*   undo         for each undo action the text before it and where dot    *)
(*                comes to lie when it is undone                           *)
(*   utf8         whether the code page is UTF-8                           *)
(*   charset      of the styles of the view, if it is not                  *)
(*   index        how often the line character index has been allocated    *)
(***************************************************************************)
EXTENDS Integers, SequencesExt, FiniteSetsExt

CONSTANTS
  WordBytes,      \* bytes that belong to words
  Wide,           \* the characters of several bytes in UTF-8, and these bytes
  Narrow,         \* for each single-byte codepage: its bytes for them
  RelativeLimit   \* characters up to which Scintilla is asked to walk

ASSUME TextViewAssumption == RelativeLimit \in Nat

Newline == "nl"
BytesOf(c) == IF c \in DOMAIN Wide THEN Wide[c] ELSE <<c>>
CharOf(b) ==
  IF \E c \in DOMAIN Wide : Head(Wide[c]) = b THEN CHOOSE c \in DOMAIN Wide : Head(Wide[c]) = b ELSE b
Trails == UNION {ToSet(Tail(Wide[c])) : c \in DOMAIN Wide}
High == UNION {ToSet(Wide[c]) : c \in DOMAIN Wide}
          \cup UNION {{Narrow[cp][c] : c \in DOMAIN Narrow[cp]} : cp \in DOMAIN Narrow}
Size(d) == Len(d.text)
Slice(t, from, to) == SubSeq(t, from + 1, to)
Document(t, p, utf8) == [text |-> t, dot |-> p, anchor |-> p, undo |-> <<>>,
                         utf8 |-> utf8, charset |-> 0, index |-> IF utf8 THEN 1 ELSE 0]
HasIndex(d) == d.index > 0

-----------------------------------------------------------------------------
(* Scintilla.                                                              *)

Clamped(d, p) == IF p < 0 THEN 0 ELSE IF p > Size(d) THEN Size(d) ELSE p
SetSel(d, a, p) == [d EXCEPT !.anchor = Clamped(d, a), !.dot = Clamped(d, p)]
GotoPos(d, p) == SetSel(d, p, p)

(* Texts are added at dot and removed as one undo action.                  *)
AddText(d, s) ==
  IF s = <<>> THEN d
  ELSE [d EXCEPT !.text = Slice(@, 0, d.dot) \o s \o Slice(@, d.dot, Size(d)),
                 !.undo = Append(@, [text |-> d.text, dot |-> d.dot]),
                 !.dot = @ + Len(s), !.anchor = d.dot + Len(s)]
Removed(p, from, to) == IF p > to THEN p - (to - from) ELSE IF p > from THEN from ELSE p
DeleteRange(d, from, n) ==
  IF from < 0 \/ n <= 0 \/ from + n > Size(d) THEN d
  ELSE [d EXCEPT !.text = Slice(@, 0, from) \o Slice(@, from + n, Size(d)),
                 !.undo = Append(@, [text |-> d.text, dot |-> from + n]),
                 !.dot = Removed(@, from, from + n), !.anchor = Removed(@, from, from + n)]
DeleteSelection(d) ==
  IF d.anchor < d.dot THEN DeleteRange(d, d.anchor, d.dot - d.anchor)
  ELSE DeleteRange(d, d.dot, d.anchor - d.dot)
SciUndo(d) ==
  IF d.undo = <<>> THEN d
  ELSE [d EXCEPT !.text = Last(d.undo).text, !.undo = Front(@),
                 !.dot = Last(d.undo).dot, !.anchor = Last(d.undo).dot]

(* The places that are not inside of a character.                          *)
IsAt(c, t, p) == p >= 0 /\ IsPrefix(Wide[c], Slice(t, p, Len(t)))
Inside(t, p) == \E c \in DOMAIN Wide : \E i \in 1..(Len(Wide[c]) - 1) : IsAt(c, t, p - i)
Borders(d) ==
  IF ~d.utf8 THEN 0..Size(d)
  ELSE {p \in 0..Size(d) : ~(p < Size(d) /\ d.text[p + 1] \in Trails /\ Inside(d.text, p))}
Nth(ps, n) == CHOOSE p \in ps : Cardinality({q \in ps : q <= p}) = n
PositionRelative(d, p, n) ==
  LET after == {q \in Borders(d) : q > p}  before == {q \in Borders(d) : q < p} IN
  CASE n = 0 -> p
    [] n > 0 -> IF n <= Cardinality(after) THEN Nth(after, n) ELSE 0
    [] n < 0 -> IF -n <= Cardinality(before) THEN Nth(before, Cardinality(before) + 1 + n) ELSE 0
CountCharacters(d, from, to) == Cardinality({p \in Borders(d) : from <= p /\ p <= to}) - 1

LineCount(d) == 1 + Cardinality({i \in 1..Size(d) : d.text[i] = Newline})
LineFromPosition(d, p) == Cardinality({i \in 1..p : d.text[i] = Newline})
PositionFromLine(d, l) ==
  IF l = 0 THEN 0 ELSE Nth({i \in 1..Size(d) : d.text[i] = Newline}, l)
IndexPositionFromLine(d, l) == CountCharacters(d, 0, PositionFromLine(d, l))
LineFromIndexPosition(d, n) ==
  Max({l \in 0..(LineCount(d) - 1) : IndexPositionFromLine(d, l) <= n})
Column(d, p) == CountCharacters(d, PositionFromLine(d, LineFromPosition(d, p)), p)

-----------------------------------------------------------------------------
(* Characters and bytes (view.c); -1 is an invalid position.  The message  *)
(* for a relative position returns 0 for these, so 0 needs care.           *)

OnLine(d, line, n) ==
  PositionRelative(d, PositionFromLine(d, line), n - IndexPositionFromLine(d, line))
OrInvalid(p) == IF p = 0 THEN -1 ELSE p
Glyphs2Bytes(d, n) ==
  CASE n < 0 -> -1
    [] n = 0 -> 0
    [] n > 0 /\ ~HasIndex(d) -> IF n <= Size(d) THEN n ELSE -1
    [] OTHER -> OrInvalid(OnLine(d, LineFromIndexPosition(d, n), n))
UpTo(d, line, p) ==
  IndexPositionFromLine(d, line) + CountCharacters(d, PositionFromLine(d, line), p)
Bytes2Glyphs(d, p) ==
  CASE p = 0 -> 0
    [] p > 0 /\ ~HasIndex(d) -> p
    [] OTHER -> UpTo(d, LineFromPosition(d, p), p)
(* Mutant: 0 is taken for the beginning whenever one goes left.            *)
OrAlwaysStart(d, p, n, q) == IF q # 0 \/ n < 0 THEN q ELSE -1
OrStart(d, p, n, q) ==
  IF q # 0 THEN q ELSE IF n > 0 \/ Bytes2Glyphs(d, p) + n < 0 THEN -1 ELSE 0
Glyphs2BytesRelative(d, p, n) ==
  CASE n = 0 -> p
    [] n # 0 /\ (n > RelativeLimit \/ -n > RelativeLimit) -> Glyphs2Bytes(d, Bytes2Glyphs(d, p) + n)
    [] OTHER -> OrStart(d, p, n, PositionRelative(d, p, n))

(* The character behind p, or that there is no whole one.                  *)
GetCharacter(d, p) ==
  LET rest == Slice(d.text, p, Size(d)) IN
  CASE ~d.utf8 \/ rest[1] \notin High -> rest[1]
    [] d.utf8 /\ (\E c \in DOMAIN Wide : IsPrefix(Wide[c], rest)) -> CharOf(rest[1])
    [] d.utf8 /\ (\E c \in DOMAIN Wide : IsStrictPrefix(rest, Wide[c])) -> "incomplete"
    [] OTHER -> "invalid"

ValidateLine(d, l) == l \in 0..(LineCount(d) - 1)

-----------------------------------------------------------------------------
(* teco_find_words(): the text is read in two chunks, up to the gap of     *)
(* Scintilla's buffer and behind it; what lies outside of the chunk that   *)
(* has been asked for is not the text.                                     *)

Chunk(t, lo, hi, p) == IF lo <= p /\ p < hi THEN t[p + 1] ELSE "garbage"
IsWord(b) == b \in WordBytes
Found(p, ok) == [pos |-> p, ok |-> ok]

(* n counts what is left after this word; skip tells whether word bytes    *)
(* are skipped at the moment.                                              *)
RECURSIVE WordsForward(_, _, _, _, _, _, _)
WordsForward(t, p, n, end, skip, lo, hi) ==
  IF p = Len(t) THEN Found(p, n = 0)
  ELSE IF p >= hi THEN WordsForward(t, p, n, end, skip, hi, Len(t))
  ELSE IF IsWord(Chunk(t, lo, hi, p)) = skip THEN WordsForward(t, p + 1, n, end, skip, lo, hi)
  ELSE IF skip # end THEN WordsForward(t, p, n, end, ~skip, lo, hi)
  ELSE IF n = 0 THEN Found(p, TRUE) ELSE WordsForward(t, p, n - 1, end, ~end, lo, hi)

RECURSIVE WordsBackward(_, _, _, _, _, _, _)
WordsBackward(t, p, n, end, skip, lo, hi) ==
  IF p = 0 THEN Found(p, n = 0)
  ELSE IF p <= lo THEN WordsBackward(t, p, n, end, skip, 0, p)
  ELSE IF IsWord(Chunk(t, lo, hi, p - 1)) = skip THEN WordsBackward(t, p - 1, n, end, skip, lo, hi)
  ELSE IF skip = end THEN WordsBackward(t, p, n, end, ~skip, lo, hi)
  ELSE IF n = 0 THEN Found(p, TRUE) ELSE WordsBackward(t, p, n + 1, end, end, lo, hi)

FindWords(t, p, n, end, gap) ==
  CASE n = 0 -> Found(p, TRUE)
    [] n > 0 -> IF p = Len(t) THEN Found(p, FALSE)
                ELSE WordsForward(t, p, n - 1, end, ~end, p, IF gap > p THEN gap ELSE Len(t))
    [] n < 0 -> IF p = 0 THEN Found(p, FALSE)
                ELSE WordsBackward(t, p, n + 1, end, end, IF gap < p THEN gap ELSE 0, p)
=============================================================================
