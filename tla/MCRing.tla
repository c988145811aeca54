------------------------------- MODULE MCRing -------------------------------
(***************************************************************************)
(* The ring for TLC: one, two or three buffers, of which the first one has *)
(* been loaded from a file, another one is new and not saved, and the last *)
(* one has no name.  There is another file that is not in the ring.        *)
(***************************************************************************)
EXTENDS Ring

MCTexts == {"", "x", "y"}
MCNames == {"f", "g", "h"}
MCDisk == [n \in Names |-> IF n = "g" THEN Absent ELSE "x"]
Nth(n) == SetToSeq(Entries)[n]
MCRing(undo, n) ==
  LET e == NewEditor(undo, MCDisk, {})
      add(f, b) == NewBuffer(f, b)
      first == e.current
      new == SetToSeq(Entries \ {first}) IN
  [FoldLeft(add, e, SubSeq(new, 1, n - 1)) EXCEPT
     !.name[first] = "f", !.text[first] = "x", !.past[first] = <<"">>,
     !.name[new[1]] = IF n > 1 THEN "g" ELSE NoName, !.text[new[1]] = IF n > 1 THEN "y" ELSE "",
     !.past[new[1]] = IF n > 1 THEN <<"">> ELSE <<>>, !.dirty[new[1]] = n > 1]
MCInitStates == {MCRing(undo, n) : undo \in BOOLEAN, n \in 1..3}
=============================================================================
