-------------------------------- MODULE Eol ---------------------------------
(***************************************************************************)
(* Automatic translation of line ends (eol.c).  A text is a sequence of    *)
(* "CR", "LF" and other characters.  In documents every line ends with LF; *)
(* files and pipes have the line ends CRLF, CR or LF.  A reader translates *)
(* while it reads in blocks that end anywhere, a writer translates while   *)
(* the other end takes as many bytes as it likes.  Both are records, and   *)
(* operators from records to records.                                      *)
(***************************************************************************)
EXTENDS Integers, SequencesExt

CONSTANT AutoEol   \* bit TECO_ED_AUTOEOL of teco_ed

ASSUME AutoEolAssumption == AutoEol \in BOOLEAN

EolStyles == {"CRLF", "CR", "LF"}
EolSeq(style) == IF style = "CRLF" THEN <<"CR", "LF">> ELSE <<style>>

-----------------------------------------------------------------------------
(* What the translation means for whole texts.                             *)

EndsCRLF(text, i) == i > 1 /\ text[i] = "LF" /\ text[i - 1] = "CR"

Normalised(text) ==
  FlattenSeq([i \in DOMAIN text |->
    CASE EndsCRLF(text, i) -> <<>> [] text[i] = "CR" -> <<"LF">> [] OTHER -> <<text[i]>>])

(* The line ends of a text in their order.                                 *)
LineEnds(text) ==
  FlattenSeq([i \in DOMAIN text |->
    CASE text[i] = "LF" -> IF EndsCRLF(text, i) THEN <<"CRLF">> ELSE <<"LF">>
      [] text[i] = "CR" /\ ~(i < Len(text) /\ text[i + 1] = "LF") -> <<"CR">>
      [] OTHER -> <<>>])

StyleOf(text) == IF LineEnds(text) = <<>> THEN "none" ELSE LineEnds(text)[1]
IsMixed(text) == \E i \in DOMAIN LineEnds(text) : LineEnds(text)[i] # LineEnds(text)[1]

Encoded(text, style) ==
  FlattenSeq([i \in DOMAIN text |->
    CASE text[i] \in {"CR", "LF"} -> IF EndsCRLF(text, i) THEN <<>> ELSE EolSeq(style)
      [] OTHER -> <<text[i]>>])

-----------------------------------------------------------------------------
(* The reader: the block that was read last, how much of it is in front of *)
(* the piece that was returned last (off) and how long that was (piece),   *)
(* the last character, or "CRLF" when that has just been translated, the   *)
(* first line end and whether another kind has been found.                 *)

NewReader == [block |-> <<>>, off |-> 0, piece |-> 0, last |-> "none",
              style |-> "none", mixed |-> FALSE]

(* A line end has been recognised.                                         *)
Found(r, eol) == IF r.style = "none" THEN [r EXCEPT !.style = eol]
                 ELSE [r EXCEPT !.mixed = @ \/ eol # r.style]

(* Behind the piece that was returned last, and behind the LF of a CRLF.   *)
Advance(r) == [r EXCEPT !.off = @ + r.piece + (IF r.last = "CRLF" THEN 1 ELSE 0),
                        !.piece = 0, !.last = IF @ = "CRLF" THEN "LF" ELSE @]
NeedsBlock(r) == r.off >= Len(r.block)
Fill(r, block) == [r EXCEPT !.block = block, !.off = 0]

(* The last character of all may be a CR.                                  *)
AtEOF(r) == IF r.last = "CR" THEN Found(Fill(r, <<>>), "CR") ELSE Fill(r, <<>>)

Previous(r, i) == IF i = r.off + 1 THEN r.last ELSE r.block[i - 1]
EolAt(r, i) ==
  CASE r.block[i] = "LF" -> IF Previous(r, i) = "CR" THEN "CRLF" ELSE "LF"
    [] OTHER -> IF Previous(r, i) = "CR" THEN "CR" ELSE "none"

(* The piece ends in front of the LF of the first CRLF: the CR has become  *)
(* an LF already.                                                          *)
PieceEnd(r) == SelectInSeq([i \in 1..Len(r.block) |-> i > r.off /\ EolAt(r, i) = "CRLF"],
                           LAMBDA b : b)
LineEndsSeen(r) ==
  LET end == IF PieceEnd(r) = 0 THEN Len(r.block) ELSE PieceEnd(r) IN
  {i \in (r.off + 1)..end : EolAt(r, i) # "none"}

(* All of these are recognised, the first one first.                       *)
FoundAll(r) ==
  LET ends == LineEndsSeen(r)
      style == IF r.style = "none" /\ ends # {} THEN EolAt(r, Min(ends)) ELSE r.style
  IN  [r EXCEPT !.style = style, !.mixed = @ \/ \E i \in ends : EolAt(r, i) # style]

Translate(r) ==
  IF ~AutoEol THEN [r EXCEPT !.piece = Len(r.block)]
  ELSE IF PieceEnd(r) > 0
  THEN [FoundAll(r) EXCEPT !.piece = PieceEnd(r) - 1 - r.off, !.last = "CRLF"]
  ELSE [FoundAll(r) EXCEPT !.piece = Len(r.block) - r.off,
                           !.last = IF NeedsBlock(r) THEN @ ELSE Last(r.block)]

(* What is returned.                                                       *)
Piece(r) == [i \in 1..r.piece |->
               IF AutoEol /\ r.block[r.off + i] = "CR" THEN "LF" ELSE r.block[r.off + i]]

-----------------------------------------------------------------------------
(* The writer: whether the LF of a CRLF is still to be written, the last   *)
(* character that was converted, and the line ends it writes.              *)

NewWriter(style) == [halfway |-> FALSE, last |-> "none", seq |-> EolSeq(style)]

(* A conversion under way: the writer, what the other end has taken, how   *)
(* many characters of the text that stands for, how many bytes it will     *)
(* still take, and whether it has refused one.                             *)
Conversion(w, room) == [w |-> w, out |-> <<>>, taken |-> 0, room |-> room, stuck |-> FALSE]

Take(s, bytes) == [s EXCEPT !.out = @ \o bytes, !.room = @ - Len(bytes), !.taken = @ + 1]
After(s, c) == [s EXCEPT !.w.last = c]
Stuck(s) == [s EXCEPT !.stuck = TRUE]

ConvertLineEnd(s, c) ==
  CASE s.room = 0 -> Stuck(s)
    [] s.room \in 1..(Len(s.w.seq) - 1) ->
         Stuck([s EXCEPT !.out = Append(@, "CR"), !.room = 0, !.w.halfway = TRUE])
    [] s.room >= Len(s.w.seq) -> After(Take(s, s.w.seq), c)

ConvertChar(s, c) ==
  IF s.stuck THEN s
  ELSE IF c \in {"CR", "LF"}
  THEN IF c = "LF" /\ s.w.last = "CR" THEN After(Take(s, <<>>), c) ELSE ConvertLineEnd(s, c)
  ELSE IF s.room = 0 THEN Stuck(s) ELSE After(Take(s, <<c>>), c)

ConvertAll(s, text) ==
  LET done[n \in 0..Len(text)] == IF n = 0 THEN s ELSE ConvertChar(done[n - 1], text[n])
  IN  done[Len(text)]

(* Half of a CRLF is completed by its LF, without looking at the text.     *)
CompleteUncounted(s) ==
  IF s.room = 0 THEN Stuck(s) ELSE [Take(s, <<"LF">>) EXCEPT !.w.halfway = FALSE, !.taken = 0]
Complete(s) == IF s.room = 0 THEN Stuck(s) ELSE Take([s EXCEPT !.w.halfway = FALSE], <<"LF">>)

Convert(w, text, room) ==
  LET s == Conversion(w, room)
      n == IF Len(text) < room THEN Len(text) ELSE room IN
  IF ~AutoEol THEN [s EXCEPT !.out = SubSeq(text, 1, n), !.taken = n]
  ELSE IF w.halfway THEN ConvertAll(Complete(s), Tail(text))
  ELSE ConvertAll(s, text)
=============================================================================
