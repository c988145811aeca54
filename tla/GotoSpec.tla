------------------------------ MODULE GotoSpec ------------------------------
(***************************************************************************)
(* What gotos promise: a goto continues behind the first definition of its *)
(* label, wherever that is in the macro; without such a label it is an     *)
(* error, or, with a colon, it does nothing.  It makes no difference which *)
(* part of the macro has been parsed already.                              *)
(***************************************************************************)
EXTENDS Integers, Sequences

CONSTANT Texts     \* the macros

VARIABLES
  text,    \* the macro
  pc,      \* the index of the next command, or 0
  colon,   \* how many colons there are in front of it
  failed   \* whether it has ended with an error

absVars == <<text, pc, colon, failed>>

Definitions(l) == {i \in DOMAIN text : text[i] = (IF l = "a" THEN "!a" ELSE "!b")}
IsDefined(l) == Definitions(l) # {}
Definition(l) == CHOOSE i \in Definitions(l) : \A j \in Definitions(l) : i <= j
Wanted == IF text[pc] = "Oa" THEN "a" ELSE "b"

At(cs) == ~failed /\ pc <= Len(text) /\ text[pc] \in cs
MoveTo(i) == pc' = i /\ colon' = 0 /\ UNCHANGED <<text, failed>>
Failure == pc' = 0 /\ colon' = 0 /\ failed' = TRUE /\ UNCHANGED text

AbsInit == text \in Texts /\ pc = 1 /\ colon = 0 /\ failed = FALSE

AbsColon == At({":"}) /\ colon < 2 /\ colon' = colon + 1 /\ pc' = pc + 1 /\ UNCHANGED <<text, failed>>
AbsOther == At({"!a", "!b", "'"}) /\ colon = 0 /\ MoveTo(pc + 1)
AbsGoto ==
  /\ At({"Oa", "Ob"}) /\ colon <= 1
  /\ IF IsDefined(Wanted) THEN MoveTo(Definition(Wanted) + 1)
     ELSE IF colon = 1 THEN MoveTo(pc + 1)
     ELSE Failure
AbsEnd == ~failed /\ pc > Len(text) /\ MoveTo(pc)
AbsRefuse ==
  /\ \/ At({":"}) /\ colon = 2
     \/ At({"Oa", "Ob"}) /\ colon = 2
     \/ At({"!a", "!b", "'"}) /\ colon > 0
  /\ Failure

GotoSpec == AbsInit /\ [][AbsColon \/ AbsOther \/ AbsGoto \/ AbsEnd \/ AbsRefuse]_absVars
=============================================================================
