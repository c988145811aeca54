------------------------------- MODULE Search -------------------------------
(***************************************************************************)
(* Searching (search.c), and a command line into which commands of module  *)
(* Editing and searches are typed.  The argument of a command is carried   *)
(* out while it is typed: with each key the whole pattern is searched      *)
(* again, from where the command began.  Each key can be rubbed out.       *)
(***************************************************************************)
EXTENDS Editing

CONSTANTS
  Commands,      \* the commands: letters, arguments, colons, @
  Words,         \* for each state what is typed into an argument at once
  Beginnings,    \* what the two buffers contain in the beginning, whether that is UTF-8,
                 \* and what an earlier command line has left in registers _ and -
  MaxKeys,       \* bound on the keys in the command line
  MaxCommands,   \* bound on the commands in it
  MaxArgument,   \* arguments that are as long as that are not extended
  MaxRubouts,    \* bound on the keys rubbed out in the whole behaviour
  FailingConversions  \* whether :EE may fail

(* Ranges of buffers for N, and numbers 0 for searches, are left out.      *)
ASSUME SearchAssumption ==
  /\ FailingConversions \in BOOLEAN
  /\ {MaxKeys, MaxCommands, MaxArgument, MaxRubouts} \subseteq Nat
  /\ \A k \in Commands : k.cmd \in {"N", "FN"} => Len(k.args) < 2

VARIABLES
  ed,      \* the editor
  line,    \* the command line: its keys, each with the editor before it
  rubbed   \* number of keys rubbed out so far
vars == <<ed, line, rubbed>>

-----------------------------------------------------------------------------
(* The parameters of a search.                                             *)

SetSearch(e, from, to, count) ==
  [Push(e, "search", e.search) EXCEPT
     !.search = [dot |-> Dot(e), from |-> from, to |-> to, count |-> count,
                 fromBuffer |-> e.current, toBuffer |-> 0]]

(* From dot on, up to dot, or in a range, which may be given backwards.    *)
SearchRange(e, p, q) ==
  CASE p < 0 \/ q < 0 -> Fail(Push(e, "search", e.search))
    [] 0 <= p /\ p <= q -> SetSearch(e, p, q, 1)
    [] 0 <= q /\ q < p -> SetSearch(e, q, p, -1)
SearchFromDot(e, n) ==
  IF n >= 0 THEN SetSearch(e, Dot(e), Size(Doc(e)), n) ELSE SetSearch(e, 0, Dot(e), n)
SearchInitial(e, k) ==
  IF IsRange(k) THEN SearchRange(e, Glyphs2Bytes(Doc(e), k.args[1]), Glyphs2Bytes(Doc(e), k.args[2]))
  ELSE SearchFromDot(e, Number(k, 1))
(* N goes round the ring and ends in the buffer it begins in.              *)
SearchAllInitial(e, k) ==
  [SearchInitial(e, k) EXCEPT !.search.toBuffer = e.current]

-----------------------------------------------------------------------------
(* Looking for the pattern in a part of the document that is shown.        *)

(* The count-th match, and what is left of count if there are fewer.       *)
Outcome(m, n) == [match |-> m, count |-> n]
RECURSIVE SearchForward(_, _, _, _, _, _)
SearchForward(re, d, m, n, to, anchored) ==
  IF m = NoMatch THEN Outcome(NoMatch, n)
  ELSE IF n = 1 THEN Outcome(m, 0)
  ELSE SearchForward(re, d, NextMatch(re, d, m, to, anchored), n - 1, to, anchored)

(* Backwards, the last matches are kept in a buffer of as many as count.   *)
RECURSIVE SearchBackward(_, _, _, _, _, _, _)
SearchBackward(re, d, m, kept, total, to, anchored) ==
  IF m # NoMatch
  THEN SearchBackward(re, d, NextMatch(re, d, m, to, anchored),
                      [kept EXCEPT ![(total % Len(kept)) + 1] = m], total + 1, to, anchored)
  ELSE IF total < Len(kept) THEN Outcome(NoMatch, total - Len(kept))
  ELSE Outcome(kept[(total % Len(kept)) + 1], 0)

SearchFrom(re, d, m, n, to, anchored) ==
  IF n >= 0 THEN SearchForward(re, d, m, n, to, anchored)
  ELSE SearchBackward(re, d, m, [i \in 1..-n |-> NoMatch], 0, to, anchored)

(* teco_do_search() selects the match, and ^Y tells where it is.           *)
Select(e, m) ==
  IF m = NoMatch THEN e
  ELSE [SetDoc(UndoRanges(e), SetSel(Doc(e), m.from, m.to)) EXCEPT
          !.ranges = [from |-> Bytes2Glyphs(Doc(e), m.from),
                      to |-> Bytes2Glyphs(Doc(e), m.to), count |-> 1]]
Selected(e, o) == [ed |-> Select(e, o.match), count |-> o.count]
DoSearch(e, re, from, to, n, anchored) ==
  Selected(e, SearchFrom(re, Doc(e), FirstMatch(re, Doc(e), from, to, anchored), n, to, anchored))

(* The rest of the ring, until as many matches have been found, or the     *)
(* buffer is reached again in which the search began.                      *)
SearchIn(e, re, n, back, anchored) ==
  DoSearch(e, re, IF back /\ n < 0 THEN e.search.dot ELSE 0,
           IF back /\ n > 0 THEN e.search.dot ELSE Size(Doc(e)), n, anchored)
RECURSIVE SearchRing(_, _, _, _), SearchOn(_, _, _)
SearchOn(s, re, anchored) ==
  IF s.count = 0 \/ s.ed.shown = s.ed.search.toBuffer THEN [s EXCEPT !.ed.current = s.ed.shown]
  ELSE SearchRing(s.ed, re, s.count, anchored)
SearchRing(e, re, n, anchored) ==
  SearchOn(SearchIn([e EXCEPT !.shown = Other(@)], re, n, Other(e.shown) = e.search.toBuffer, anchored),
           re, anchored)

-----------------------------------------------------------------------------
(* The callbacks of a search.                                              *)

UndoResult(e) == Push(e, "result", e.result)
BackToDot(e) == SetDoc(e, GotoPos(Doc(e), e.search.dot))
BackToBuffer(e) ==
  IF e.current = e.search.fromBuffer THEN e
  ELSE [UndoRingEdit(e) EXCEPT !.shown = e.search.fromBuffer]

(* Mutant: the buffer the search began in is not restored.                 *)
NoUndoRing(e) == e
UndoRing(e) == IF e.current = e.search.fromBuffer THEN UndoRingEdit(e) ELSE e
SearchAll(s, re, anchored) ==
  IF s.count = 0 \/ s.ed.search.toBuffer = 0 THEN s
  ELSE SearchRing(UndoRing(s.ed), re, s.count, anchored)
(* Mutant: where a longer pattern is not found, the last match stays.      *)
SetResultOnly(s) == [s.ed EXCEPT !.result = s.count = 0]
SetResult(s) == IF s.count = 0 THEN [s.ed EXCEPT !.result = TRUE] ELSE BackToDot(s.ed)
SearchBuffers(e, re, anchored) ==
  SetResult(SearchAll(DoSearch(e, re, e.search.from, e.search.to, e.search.count, anchored), re, anchored))
Process(e, t) ==
  IF t.ok THEN SearchBuffers(BackToBuffer(e), t.re, e.colons = 2) ELSE BackToDot(e)
SearchProcess(e, pattern) ==
  Process([UndoResult(UndoSel(e)) EXCEPT !.result = FALSE], Pattern2Regexp(pattern))

(* An empty argument means the last pattern.                               *)
SearchDone(e) ==
  IF e.str # <<>>
  THEN [Push(UndoAnchor(e), "pattern", e.pattern) EXCEPT !.pattern = e.str]
  ELSE SearchProcess(e, e.pattern)

(* FK deletes up to the match.  Then ^Y has to be adjusted.                *)
Deleted(e, d, from, n) ==
  IF n = 0 THEN SetDoc(e, d) ELSE UndoChange(SetDoc(e, DeleteRange(d, from, n)))
ShiftRange(e, n) == [e EXCEPT !.ranges.from = @ - n, !.ranges.to = @ - n]
(* Mutant: forwards, the match is deleted as well.                         *)
KillsMatch(e, dot, begin, anchor) ==
  CASE ~e.result -> e
    [] e.result /\ begin < dot -> Deleted(UndoGoto(e, dot), GotoPos(Doc(e), anchor), begin, dot - begin)
    [] e.result /\ begin >= dot -> Deleted(e, Doc(e), dot, begin - dot)
Kills(e, dot, begin, anchor) ==
  CASE ~e.result -> e
    [] e.result /\ begin < dot ->
         ShiftRange(Deleted(UndoGoto(e, dot), GotoPos(Doc(e), anchor), begin, anchor - begin),
                    Bytes2Glyphs(Doc(e), anchor) - Bytes2Glyphs(Doc(e), begin))
    [] e.result /\ begin >= dot -> Deleted(e, Doc(e), dot, begin - dot)
KillMatch(e) == Kills(e, Dot(e), e.search.dot, Doc(e).anchor)
KillDone(e) == KillMatch(SearchDone(e))

(* FD deletes the match, FS replaces it by its second argument, and FR by  *)
(* that or, if it is empty, the string of register -.                      *)
DeleteMatch(e) == IF e.result THEN UndoChange(SetDoc(e, DeleteSelection(Doc(e)))) ELSE e
DeleteDone(e) == DeleteMatch(SearchDone(e))
GoOn(e, insert, ignore) == [e EXCEPT !.str = <<>>, !.state = IF e.result THEN insert ELSE ignore]
ReplaceDone(e) == GoOn(DeleteDone(e), "replace insert", "replace ignore")
ReplaceDefaultDone(e) == GoOn(DeleteDone(e), "replace default insert", "replace default ignore")
SetReplacement(e) == [Push(e, "replacement", e.replacement) EXCEPT !.replacement = e.str]
ReplaceDefaultInsertDone(e) ==
  IF e.str # <<>> THEN SetReplacement(e)
  ELSE IF e.replacement # <<>> THEN InsertProcess(e, e.replacement) ELSE e
ReplaceDefaultIgnoreDone(e) == IF e.str = <<>> THEN e ELSE SetReplacement(e)

-----------------------------------------------------------------------------
(* The parser.                                                             *)

Searches == {"S", "N", "FK", "FD", "FS", "FR", "FN"}
Insertions == {"I", "^I", "replace insert", "replace default insert"}
Ignoring == {"replace ignore", "replace default ignore"}

(* A command letter: the command is carried out, or its argument begins.   *)
Simple(e, k) ==
  CASE k.cmd = "J" -> Jump(e, k)
    [] k.cmd = "C" -> MoveForward(e, k)
    [] k.cmd = "R" -> MoveReverse(e, k)
    [] k.cmd = "L" -> LineForward(e, k)
    [] k.cmd = "B" -> LineBack(e, k)
    [] k.cmd = "W" -> MoveWords(e, k, Number(k, 1))
    [] k.cmd = "P" -> MoveWords(e, k, -Number(k, 1))
    [] k.cmd = "V" -> DeleteWords(e, k, Number(k, 1))
    [] k.cmd = "Y" -> DeleteWords(e, k, -Number(k, 1))
    [] k.cmd = "K" -> Kill(e, k, TRUE)
    [] k.cmd = "D" -> Kill(e, k, FALSE)
    [] k.cmd = "BACKSLASH" -> Backslash(e, k)
    [] k.cmd = "T" -> Typeout(e, k)
    [] k.cmd = "EE" -> Encoding(e, k)
Begin(e, k) ==
  CASE k.cmd = "I" -> InsertInitial(e, k)
    [] k.cmd = "^I" -> IndentInitial(e, k)
    [] k.cmd \in {"N", "FN"} -> SearchAllInitial(e, k)
    [] k.cmd \in Searches \ {"N", "FN"} -> SearchInitial(e, k)
HasArgument(k) == k.cmd \in Searches \cup Insertions
TypeCommand(e, k) ==
  IF HasArgument(k) THEN [Begin([e EXCEPT !.colons = k.colons], k) EXCEPT !.state = k.cmd]
  ELSE Simple(e, k)

(* Characters of the argument.                                             *)
TypeWord(e, w) ==
  LET f == [e EXCEPT !.str = @ \o w] IN
  CASE e.state \in Searches -> SearchProcess(f, f.str)
    [] e.state \in Insertions -> InsertProcess(f, w)
    [] e.state \in Ignoring -> f

(* Its end.                                                                *)
TypeEscape(e) ==
  CASE e.state \in {"I", "^I", "replace insert"} -> InsertDone(e)
    [] e.state = "replace default insert" -> ToStart(ReplaceDefaultInsertDone(e))
    [] e.state = "replace ignore" -> ToStart(e)
    [] e.state = "replace default ignore" -> ToStart(ReplaceDefaultIgnoreDone(e))
    [] e.state \in {"S", "N"} -> ToStart(SearchDone(e))
    [] e.state = "FK" -> ToStart(KillDone(e))
    [] e.state = "FD" -> ToStart(DeleteDone(e))
    [] e.state = "FS" -> ReplaceDone(e)
    [] e.state \in {"FR", "FN"} -> ReplaceDefaultDone(e)

-----------------------------------------------------------------------------
(* The command line.                                                       *)

Ready == ~ed.failed /\ Len(line) < MaxKeys
Commanded == Cardinality({i \in DOMAIN line : line[i].kind = "command"})
Key(kind, key) == [kind |-> kind, key |-> key, before |-> ed]
Typed(key, e) == line' = Append(line, key) /\ ed' = e /\ UNCHANGED rubbed

(* Patterns are only looked for in texts that are well-formed.             *)
WellFormed(d) ==
  \A p \in {d.dot} \cup Borders(d) :
    p \in Borders(d) /\ (p < Size(d) => GetCharacter(d, p) \notin {"invalid", "incomplete"})
Allowed(k) ==
  /\ k.cmd \in Searches => WellFormed(Doc(ed))
  /\ (k.cmd = "EE" /\ Colon(k) /\ ~Converts(Doc(ed), Last(k.args))) => FailingConversions
Command ==
  /\ Ready /\ ed.state = "start" /\ Commanded < MaxCommands
  /\ \E k \in Commands : Allowed(k) /\ Typed(Key("command", k), TypeCommand(ed, k))
(* Wide characters are only typed into documents that can hold them.       *)
Word == \E w \in Words[ed.state] :
  /\ Ready /\ Len(ed.str) < MaxArgument
  /\ Doc(ed).utf8 \/ ToSet(w) \cap DOMAIN Wide = {}
  /\ Typed(Key("word", w), TypeWord(ed, w))
Escape == Ready /\ ed.state # "start" /\ Typed(Key("escape", "escape"), TypeEscape(ed))

(* The last key is rubbed out, by the user or because it has failed.  The  *)
(* state of the parser is restored too, which other modules are about.     *)
Rubout ==
  /\ line # <<>> /\ rubbed < MaxRubouts
  /\ ed' = [RunTokens(ed, Len(Last(line).before.tokens) + 1) EXCEPT
              !.state = Last(line).before.state, !.str = Last(line).before.str,
              !.colons = Last(line).before.colons, !.failed = FALSE]
  /\ line' = Front(line) /\ rubbed' = rubbed + 1

Init ==
  /\ \E from \in Beginnings :
     \E docs \in {[b \in Buffers |-> Document(from.texts[b], 0, from.utf8)]} :
     \E p \in Borders(docs[1]) :
          ed = [docs |-> [docs EXCEPT ![1] = GotoPos(@, p)],
                current |-> 1, shown |-> 1, ranges |-> [from |-> 0, to |-> 0, count |-> 0],
                search |-> [dot |-> 0, from |-> 0, to |-> 0, count |-> 0,
                            fromBuffer |-> 0, toBuffer |-> 0],
                result |-> FALSE, pattern |-> from.earlier, replacement |-> from.earlier,
                state |-> "start", str |-> <<>>, colons |-> 0, tokens |-> <<>>, failed |-> FALSE]
  /\ line = <<>> /\ rubbed = 0

Next == Command \/ Word \/ Escape \/ Rubout
Spec == Init /\ [][Next]_vars

-----------------------------------------------------------------------------
(* Properties.  What a search should find, and what a command should do,   *)
(* is defined from the editor as it was when the command letter was typed. *)

CommandKey == Max({i \in DOMAIN line : line[i].kind = "command"})
FirstEscape == Min({i \in DOMAIN line : i > CommandKey /\ line[i].kind = "escape"})
Base == line[CommandKey].before
Typing == line[CommandKey].key

(* All matches in a part of a buffer, from left to right.                  *)
RECURSIVE MatchesFrom(_, _, _, _, _)
MatchesFrom(re, d, m, to, anchored) ==
  IF m = NoMatch THEN <<>>
  ELSE <<m>> \o MatchesFrom(re, d, NextMatch(re, d, m, to, anchored), to, anchored)
MatchesOf(b, from, to, t, anchored) ==
  IF t.ok THEN MatchesFrom(t.re, Base.docs[b], FirstMatch(t.re, Base.docs[b], from, to, anchored), to, anchored)
  ELSE <<>>
Located(b, ms) == [i \in DOMAIN ms |-> [buffer |-> b, from |-> ms[i].from, to |-> ms[i].to]]
MatchesIn(b, from, to, pattern) ==
  Located(b, MatchesOf(b, from, to, Pattern2Regexp(pattern), Typing.colons = 2))

(* They are met in this order.                                             *)
IsBackwards(k) == IF IsRange(k) THEN k.args[1] > k.args[2] ELSE Number(k, 1) < 0
Parts(k) ==
  LET b == Base.current  end == Size(Doc(Base))  dot == Dot(Base) IN
  CASE IsRange(k) -> << <<b, Glyphs2Bytes(Doc(Base), Min(ToSet(k.args))),
                          Glyphs2Bytes(Doc(Base), Max(ToSet(k.args)))>> >>
    [] ~IsRange(k) /\ k.cmd \in {"N", "FN"} ->
         << <<b, dot, end>>, <<Other(b), 0, Size(Base.docs[Other(b)])>>, <<b, 0, dot>> >>
    [] ~IsRange(k) /\ k.cmd \notin {"N", "FN"} ->
         << IF IsBackwards(k) THEN <<b, 0, dot>> ELSE <<b, dot, end>> >>
InParts(ps, pattern) ==
  FlattenSeq([i \in DOMAIN ps |-> MatchesIn(ps[i][1], ps[i][2], ps[i][3], pattern)])
Met(k, ms) == IF IsBackwards(k) THEN Reverse(ms) ELSE ms
Candidates(pattern) == Met(Typing, InParts(Parts(Typing), pattern))
Wanted(k) == IF IsRange(k) THEN 1 ELSE Max({Number(k, 1), -Number(k, 1)})
NthOf(cs, n) == IF n \in DOMAIN cs THEN cs[n] ELSE [buffer |-> Base.current, from |-> -1, to |-> -1]
Expected(pattern) == NthOf(Candidates(pattern), Wanted(Typing))
IsFound(x) == x.from >= 0

(* While a pattern is typed the selection is always the match that the     *)
(* whole pattern has from where the command began - the n-th one, forwards *)
(* or backwards, and for N round the ring -, as though it had been typed   *)
(* at once; if there is none, dot is back where it was.                    *)
SearchFindsTheNth ==
  ~ed.failed /\ ed.state \in Searches /\ ed.str # <<>> =>
    \E x \in {Expected(ed.str)} :
    /\ ed.result = IsFound(x)
    /\ ed.current = x.buffer /\ ed.shown = x.buffer
    /\ IF IsFound(x) THEN Doc(ed).anchor = x.from /\ Dot(ed) = x.to
       ELSE Doc(ed).anchor = Dot(Base) /\ Dot(ed) = Dot(Base)
    /\ \A b \in Buffers : ed.docs[b].text = Base.docs[b].text

(* What has been completed with the last key.                              *)
Complete == ~ed.failed /\ ed.state = "start" /\ line # <<>> /\ Last(line).kind = "escape"
PatternTyped ==
  IF line[FirstEscape].before.str = <<>> THEN Base.pattern ELSE line[FirstEscape].before.str
Bytes(s) == FlattenSeq([i \in DOMAIN s |-> BytesOf(s[i])])
Inserted ==
  Bytes(IF Typing.cmd \in {"FR", "FN"} /\ Last(line).before.str = <<>> THEN Base.replacement
        ELSE Last(line).before.str)
Spliced(t, from, to, new) == Slice(t, 0, from) \o new \o Slice(t, to, Len(t))

(* A search selects the match, FD deletes it, FK what lies between it and  *)
(* where dot was, FS and FR replace it by what is typed or in register -;  *)
(* and nothing happens when there is no match.                             *)
Result(x, cmd, t, dot) ==
  CASE ~IsFound(x) -> <<t, dot>>
    [] IsFound(x) /\ cmd \in {"S", "N"} -> <<t, x.to>>
    [] IsFound(x) /\ cmd = "FD" -> <<Spliced(t, x.from, x.to, <<>>), x.from>>
    [] IsFound(x) /\ cmd = "FK" -> IF x.from >= dot THEN <<Spliced(t, dot, x.from, <<>>), dot>>
                                   ELSE <<Spliced(t, x.to, dot, <<>>), x.to>>
    [] IsFound(x) /\ cmd \in {"FS", "FR", "FN"} ->
         <<Spliced(t, x.from, x.to, Inserted), x.from + Len(Inserted)>>
EditsWhatItFound ==
  Complete /\ Typing.cmd \in Searches =>
    \E x \in {Expected(PatternTyped)} :
    /\ ed.shown = x.buffer /\ ed.current = x.buffer /\ ed.pattern = PatternTyped
    /\ <<Doc(ed).text, Dot(ed)>>
         = Result(x, Typing.cmd, Base.docs[x.buffer].text, Base.docs[x.buffer].dot)
    /\ ed.docs[Other(x.buffer)].text = Base.docs[Other(x.buffer)].text

(* ^Y gives the range of the text that was inserted or matched last, in    *)
(* characters, as it is after the command, and ^SC goes to its beginning.  *)
(* The range of FK is adjusted each time its end is typed, and not when    *)
(* that is rubbed out.                                                     *)
TextOf(t, p, q) == IF Invalid(p, q) THEN <<"invalid">> ELSE Slice(t, p, q)
TextAt(d, r) == TextOf(d.text, Glyphs2Bytes(d, r[1]), Glyphs2Bytes(d, r[2]))
RangeText(e) == TextAt(Doc(e), LastRange(e, 0))
BeginningOfRange(e) == Glyphs2BytesRelative(Doc(e), Dot(e), LastLength(e, 0)[1])
LastRangeIsTheText ==
  /\ Complete /\ Typing.cmd = "I" => RangeText(ed) = Bytes(Typing.args) \o Inserted
  /\ Complete /\ Typing.cmd = "^I" =>
       RangeText(ed) = Bytes(Typing.args) \o Indention(AddText(Doc(Base), Bytes(Typing.args))) \o Inserted
  /\ Complete /\ Typing.cmd \in {"S", "N", "FS"} =>
       \E x \in {Expected(PatternTyped)} : IsFound(x) =>
         RangeText(ed) = IF Typing.cmd = "FS" THEN Inserted ELSE Slice(Base.docs[x.buffer].text, x.from, x.to)
  /\ Complete /\ Typing.cmd \in Searches \cup Insertions =>
       \/ Typing.cmd \in {"FK", "FD", "FR", "FN"}
       \/ Typing.cmd \in Searches /\ ~IsFound(Expected(PatternTyped))
       \/ BeginningOfRange(ed) = Glyphs2Bytes(Doc(ed), LastRange(ed, 0)[1])
LastRangeIsBehindTheKill ==
  Complete /\ Typing.cmd = "FK" /\ IsFound(Expected(PatternTyped)) =>
    \E x \in {Expected(PatternTyped)} :
    RangeText(ed) = Slice(Base.docs[x.buffer].text, x.from, x.to)
(* That is also so for the replacements of FR and FN.                      *)
LastRangeIsTheReplacement ==
  Complete /\ Typing.cmd \in {"FR", "FN"} /\ IsFound(Expected(PatternTyped)) =>
    RangeText(ed) = Inserted

(* Rubbing out a key takes back everything it did: texts, dot, the buffer, *)
(* registers - except for what FK does to ^Y and for the dots of buffers   *)
(* that are not shown.  Inside of a pattern the whole selection is         *)
(* restored, since the user sees the match he gets back to; after the      *)
(* command only dot matters.                                               *)
Restored(e, f) ==
  /\ e.current = f.current /\ e.shown = f.shown /\ e.search = f.search
  /\ e.result = f.result /\ e.pattern = f.pattern /\ e.replacement = f.replacement
  /\ \A b \in Buffers :
       /\ e.docs[b].text = f.docs[b].text /\ e.docs[b].undo = f.docs[b].undo
       /\ Codepage(e.docs[b]) = Codepage(f.docs[b]) /\ HasIndex(e.docs[b]) = HasIndex(f.docs[b])
  /\ Dot(e) = Dot(f) /\ (f.state \in Searches => Doc(e).anchor = Doc(f).anchor)
RuboutRestores == [][Len(line') < Len(line) => Restored(ed', Last(line).before)]_vars
RuboutRestoresRanges == [][Len(line') < Len(line) => ed'.ranges = Last(line).before.ranges]_vars
RuboutRestoresAllDots == [][Len(line') < Len(line) => ed'.docs = Last(line).before.docs]_vars

(* The conversions between bytes and characters are inverse to each other, *)
(* also across lines and at both ends of the text, moving by characters    *)
(* agrees with them, and A reads the character that D would delete (or     *)
(* says that there is none), whatever has been done to the encoding.       *)
Whole(d, p) ==
  IF p \in Borders(d) \ {Size(d)} THEN Slice(d.text, p, Min({q \in Borders(d) : q > p})) ELSE <<>>
CharactersAgree(d) ==
  /\ \A n \in -1..(Size(d) + 1) :
       Glyphs2Bytes(d, n) = IF n \in 0..(Cardinality(Borders(d)) - 1) THEN Nth(Borders(d), n + 1) ELSE -1
  /\ \A p \in -1..(Size(d) + 1) :
       ToBytes(d, ToGlyphs(d, p)) = IF p \in 0..Size(d) THEN Max({q \in Borders(d) : q <= p}) ELSE -1
  /\ \A p \in Borders(d), n \in -Size(d)..Size(d) : \E q \in {Glyphs2BytesRelative(d, p, n)} :
       /\ q = Glyphs2Bytes(d, Bytes2Glyphs(d, p) + n)
       /\ \/ GetAt(d, q) \in {"invalid", "incomplete"}
          \/ Whole(d, q) = IF GetAt(d, q) = "off page" THEN <<>>
                           ELSE IF d.utf8 THEN BytesOf(GetAt(d, q)) ELSE <<GetAt(d, q)>>

(* A word begins, or ends, where the bytes change their kind, or at the    *)
(* end of the text; where the gap of the buffer is makes no difference.    *)
WordBorders(t, end) ==
  {p \in 1..(Len(t) - 1) : IsWord(t[p]) = end /\ IsWord(t[p + 1]) # end} \cup {0, Len(t)}
NthWord(t, p, n, end) ==
  LET after == {q \in WordBorders(t, end) : q > p}
      before == {q \in WordBorders(t, end) : q < p} IN
  CASE n = 0 -> Found(p, TRUE)
    [] n > 0 -> IF n <= Cardinality(after) THEN Found(Nth(after, n), TRUE) ELSE Found(p, FALSE)
    [] n < 0 -> IF -n <= Cardinality(before)
                THEN Found(Nth(before, Cardinality(before) + 1 + n), TRUE) ELSE Found(p, FALSE)
WordsIgnoreTheGap(t) ==
  \A p, gap \in 0..Len(t), n \in -3..3, end \in BOOLEAN :
    LET w == FindWords(t, p, n, end, gap)  x == NthWord(t, p, n, end) IN
    w.ok = x.ok /\ (w.ok => w.pos = x.pos)

(* T types out what K would delete.                                        *)
IsKilled(s, t, u) == \E p \in 0..(Len(t) - Len(s)) :
  Slice(t, p, p + Len(s)) = s /\ Spliced(t, p, p + Len(s), <<>>) = u
TypesWhatIsKilled(e) ==
  \A args \in {<<n>> : n \in -2..2} \cup {<<p, q>> : p, q \in 0..2} :
    \E f \in {Kill(e, [args |-> args, colons |-> 0], TRUE)}, typed \in {TypedOut(Doc(e), args)} :
      IF f.failed THEN typed = NoAnswer
      ELSE typed # NoAnswer /\ IsKilled(typed[1], Doc(e).text, Doc(f).text)

(* ^QC is L, and :^Q of where that leads is the line.                      *)
LinesAgree(e) ==
  \A n \in -2..2 :
    \E f \in {MoveLines(e, [colons |-> 0], n)}, glyphs \in {LinesToGlyphs(Doc(e), n)} :
      IF f.failed THEN glyphs = NoAnswer
      ELSE /\ MoveChars(e, [colons |-> 0], glyphs[1]) = f
           /\ GlyphsToLine(Doc(f), Bytes2Glyphs(Doc(f), Dot(f)))
                = <<LineFromPosition(Doc(e), Dot(e)) + n + 1>>

(* :EE keeps the characters of the document, and dot between the same two. *)
ConversionsAgree ==
  line # <<>> /\ Last(line).kind = "command" /\ ~ed.failed =>
    \/ Last(line).key.cmd # "EE" \/ ~Colon(Last(line).key)
    \/ \E d \in {Doc(Last(line).before)} :
         Decoded(Doc(ed)) = Decoded(d) /\ Bytes2Glyphs(Doc(ed), Dot(ed)) = Bytes2Glyphs(d, d.dot)

PositionsAgree ==
  /\ line = <<>> => \A b \in Buffers : WordsIgnoreTheGap(ed.docs[b].text)
  /\ line = <<>> => TypesWhatIsKilled(ed) /\ LinesAgree(ed)
  /\ line = <<>> \/ (Last(line).kind = "command" /\ Last(line).key.cmd = "EE") =>
       \A b \in Buffers : CharactersAgree(ed.docs[b])
  /\ ConversionsAgree
=============================================================================
