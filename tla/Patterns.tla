------------------------------ MODULE Patterns ------------------------------
(***************************************************************************)
(* Search patterns: their translation to regular expressions (search.c),   *)
(* and the matches of these in a text (GRegex, external).                  *)
(*                                                                         *)
(* A pattern is a sequence of characters and of the constructs             *)
(*   "^X" any character     "^N" none of the class that follows            *)
(*   "^S" a separator       "^EM" many of the construct that follows       *)
(*   "^Q" the character that follows, whatever it means                    *)
(*   "^E[" an alternative, its parts separated by "," and closed by "]"    *)
(* and may be incomplete, since the user has not typed the rest yet.       *)
(* A regular expression is a sequence of                                   *)
(*   [kind |-> "class", of |-> characters, not |-> whether all others]     *)
(*   [kind |-> "many", body |-> expression]                                *)
(*   [kind |-> "alternative", parts |-> sequence of expressions]           *)
(***************************************************************************)
EXTENDS TextView

CONSTANT Separators    \* characters that are neither letters nor digits

Class(cs, not) == [kind |-> "class", of |-> cs, not |-> not]
Alternative(parts) == [kind |-> "alternative", parts |-> parts]
Translated(re, rest, ok) == [re |-> re, rest |-> rest, ok |-> ok]
Nothing == Translated(<<>>, <<>>, FALSE)

(* teco_class2regexp(): the class in front of a pattern, or with           *)
(* escape_default any character; none when that is something else.         *)
ClassOf(p, escape) ==
  CASE p # <<>> /\ Head(p) = "^S" -> <<Separators>>
    [] p # <<>> /\ Head(p) # "^S" /\ escape -> <<{Head(p)}>>
    [] OTHER -> <<>>

(* teco_pattern2regexp(): the whole pattern, or with single only its first *)
(* construct.  state is the parser's, re what has been translated, alts    *)
(* the parts of the alternative that is open.  Nothing is the empty        *)
(* expression, which matches nowhere.                                      *)
RECURSIVE Translate(_, _, _, _, _)

Done(single, state) == single /\ state = "start"
Continue(p, single, state, re, alts) ==
  IF Done(single, state) THEN Translated(re, p, re # <<>>)
  ELSE Translate(p, single, state, re, alts)
OpenPart(alts, items) == Append(Front(alts), Last(alts) \o items)

Ended(p, state, re, alts) ==
  LET all == IF state = "alternative" THEN Append(re, Alternative(alts)) ELSE re IN
  Translated(all, p, all # <<>>)

Translate(p, single, state, re, alts) ==
  CASE p = <<>> -> Ended(p, state, re, alts)
    [] p # <<>> /\ state = "start" /\ ClassOf(p, FALSE) # <<>> ->
         Continue(Tail(p), single, "start", Append(re, Class(ClassOf(p, FALSE)[1], FALSE)), alts)
    [] p # <<>> /\ state = "start" /\ ClassOf(p, FALSE) = <<>> ->
         CASE Head(p) = "^X" ->
                Continue(Tail(p), single, "start", Append(re, Class({}, TRUE)), alts)
           [] Head(p) = "^N" -> Continue(Tail(p), single, "not", re, alts)
           [] Head(p) = "^Q" -> Continue(Tail(p), single, "escape", re, alts)
           [] Head(p) = "^EM" -> Continue(Tail(p), single, "many", re, alts)
           [] Head(p) = "^E[" -> Continue(Tail(p), single, "alternative", re, <<<<>>>>)
           [] OTHER -> Continue(p, single, "escape", re, alts)
    [] p # <<>> /\ state = "escape" ->
         Continue(Tail(p), single, "start", Append(re, Class({Head(p)}, FALSE)), alts)
    [] p # <<>> /\ state = "not" /\ Head(p) \in {"^EM", "^E["} -> Nothing
    [] p # <<>> /\ state = "not" /\ Head(p) \notin {"^EM", "^E["} ->
         Continue(Tail(p), single, "start", Append(re, Class(ClassOf(p, TRUE)[1], TRUE)), alts)
    [] p # <<>> /\ state = "many" ->
         LET t == Translate(p, TRUE, "start", <<>>, <<>>) IN
         IF ~t.ok THEN Nothing
         ELSE Continue(t.rest, single, "start", Append(re, [kind |-> "many", body |-> t.re]), alts)
    [] p # <<>> /\ state = "alternative" ->
         CASE Head(p) = "," -> Continue(Tail(p), single, state, re, Append(alts, <<>>))
           [] Head(p) = "]" -> Continue(Tail(p), single, "start", Append(re, Alternative(alts)), <<>>)
           [] OTHER ->
                LET t == Translate(p, TRUE, "start", <<>>, <<>>) IN
                IF ~t.ok THEN Nothing
                ELSE Continue(t.rest, single, state, re, OpenPart(alts, t.re))

Pattern2Regexp(p) == Translate(p, FALSE, "start", <<>>, <<>>)

-----------------------------------------------------------------------------
(* Matches.                                                                *)

NextBorder(d, p) == Min({q \in Borders(d) : q > p})
Matches1(d, item, p) == (GetCharacter(d, p) \in item.of) # item.not

(* Where a match that starts at p can end, the preferred ends first.       *)
RECURSIVE Ends(_, _, _, _)
Ends(re, d, p, to) ==
  IF re = <<>> THEN <<p>>
  ELSE LET item == Head(re)  rest == Tail(re) IN
       CASE item.kind = "class" ->
              IF p < to /\ Matches1(d, item, p) THEN Ends(rest, d, NextBorder(d, p), to) ELSE <<>>
         [] item.kind = "alternative" ->
              FlattenSeq([i \in DOMAIN item.parts |-> Ends(item.parts[i] \o rest, d, p, to)])
         [] item.kind = "many" ->
              LET once == Ends(item.body, d, p, to) IN
              FlattenSeq([i \in DOMAIN once |->
                            (IF once[i] > p THEN Ends(re, d, once[i], to) ELSE <<>>)
                            \o Ends(rest, d, once[i], to)])

(* The first match at or behind p (GRegex).                                *)
Match(from, to) == [from |-> from, to |-> to]
NoMatch == Match(-1, -1)
FirstMatch(re, d, p, to, anchored) ==
  LET starts == {q \in Borders(d) : p <= q /\ q <= to /\ (anchored => q = p)
                                    /\ Ends(re, d, q, to) # <<>>} IN
  IF starts = {} THEN NoMatch ELSE Match(Min(starts), Ends(re, d, Min(starts), to)[1])

(* g_match_info_next(): behind a match, or a character further when that   *)
(* was empty.                                                              *)
NextMatch(re, d, m, to, anchored) ==
  IF m.from < m.to THEN FirstMatch(re, d, m.to, to, anchored)
  ELSE IF m.to >= to THEN NoMatch
  ELSE FirstMatch(re, d, NextBorder(d, m.to), to, anchored)
=============================================================================
