---------------------------- MODULE Expressions ----------------------------
(***************************************************************************)
(* The expression stacks of SciTECO (expressions.c): an operator stack, on *)
(* which every number, argument separator and brace has a marker, beside   *)
(* the stack of the numbers themselves.  The stacks are a record           *)
(*                                                                         *)
(*   ops     teco_operators        nums    teco_numbers                    *)
(*   level   teco_brace_level      sign    teco_num_sign                   *)
(*   err     the error that has stopped the current command, or "none"     *)
(*                                                                         *)
(* and every function of expressions.c is an operator from records to      *)
(* records.  Numbers do not overflow here.                                 *)
(***************************************************************************)
EXTENDS Integers, SequencesExt

Clear == [ops |-> <<>>, nums |-> <<>>, level |-> 0, sign |-> 1, err |-> "none"]

(* Precedence; the pseudo operators have none.                             *)
Binary == {"POW", "MOD", "DIV", "MUL", "SUB", "ADD", "AND", "XOR", "OR"}
Pseudo == {"BRACE", "NEW", "NUMBER"}
Prec == [op \in Binary \cup Pseudo |->
  CASE op = "POW" -> 6 [] op \in {"MOD", "DIV", "MUL"} -> 5 [] op \in {"SUB", "ADD"} -> 4
    [] op = "AND" -> 3 [] op = "XOR" -> 2 [] op = "OR" -> 1 [] OTHER -> 0]

OK(x) == x.err = "none"
Fail(x, why) == [x EXCEPT !.err = why]

(* Statements in sequence: Rest is what follows, unless x has failed.      *)
Then(x, Rest(_)) == IF OK(x) THEN Rest(x) ELSE x

(* n turns of a loop whose body is Body.                                   *)
Turns(x, n, Body(_)) ==
  LET f[i \in 0..n] == IF i = 0 THEN x ELSE Then(f[i - 1], Body) IN f[n]

-----------------------------------------------------------------------------
(* Peeking: the top of the operator stack has index 0.                     *)

PeekOp(x, i) == x.ops[Len(x.ops) - i]
TopIs(x, op) == x.ops # <<>> /\ Last(x.ops) = op

(* teco_expressions_args(): the markers of numbers on top.                 *)
Args(x) == CHOOSE n \in 0..Len(x.ops) :
             /\ \A i \in 0..(n - 1) : PeekOp(x, i) = "NUMBER"
             /\ n = Len(x.ops) \/ PeekOp(x, n) # "NUMBER"

(* teco_expressions_first_op(): the top most operator or brace, or -1.     *)
FirstOp(x) ==
  LET I == {i \in 0..(Len(x.ops) - 1) : PeekOp(x, i) \notin {"NUMBER", "NEW"}} IN
  IF I = {} THEN -1 ELSE Min(I)

-----------------------------------------------------------------------------
(* Pushing and popping.                                                    *)

PushOp(x, op) == [x EXCEPT !.ops = Append(@, op)]

(* Separators on top have done their duty when something follows them.     *)
PopNew(x) == [x EXCEPT !.ops =
  SubSeq(@, 1, CHOOSE n \in 0..Len(@) : /\ \A i \in (n + 1)..Len(@) : @[i] = "NEW"
                                        /\ n = 0 \/ @[n] # "NEW")]

(* teco_expressions_push_int(): the prefix sign is used up.                *)
PushInt(x, n) ==
  LET y == PushOp(PopNew(x), "NUMBER") IN
  [y EXCEPT !.nums = Append(@, IF x.sign < 0 THEN -n ELSE n), !.sign = 1]

PopOp(x, i) == [x EXCEPT !.ops = RemoveAt(@, Len(@) - i)]

(* teco_expressions_pop_num(0).                                            *)
TopNum(x) == Last(x.nums)
PopNum(x) == [x EXCEPT !.ops = Front(@), !.nums = Front(@)]

-----------------------------------------------------------------------------
(* Calculating.                                                            *)

Abs(n) == IF n < 0 THEN -n ELSE n
Sgn(n) == IF n < 0 THEN -1 ELSE 1

(* Division of C: towards zero.                                            *)
Quot(a, b) == Sgn(a) * Sgn(b) * (Abs(a) \div Abs(b))

(* Mutant: the bits of the exponent are taken for one another.             *)
PowerOddEven(base, exp) ==
  IF exp = 0 THEN 1
  ELSE IF exp < 0 THEN IF Abs(base) = 1 THEN base ELSE 0
  ELSE LET f[e \in 1..exp] == IF e = 1 THEN base
                              ELSE f[e \div 2] * f[e \div 2] * (IF e % 2 = 0 THEN base ELSE 1)
       IN f[exp]

(* The power of teco_expressions_calc(): square and multiply.              *)
Power(base, exp) ==
  CASE exp = 0 -> Sgn(base)
    [] exp < 0 -> IF Abs(base) = 1 THEN base ELSE 0
    [] OTHER ->
         LET f[e \in 1..exp] == IF e = 1 THEN base
                                ELSE f[e \div 2] * f[e \div 2] * (IF e % 2 = 1 THEN base ELSE 1)
         IN f[exp]

(* Two's complement of Width bits; the top most bit carries the sign.       *)
Width == 20
Bit(n, k) == (n \div 2^k) % 2
Bitwise2(a, b, F(_, _)) ==
  LET f[k \in 0..Width] ==
        IF k = 0 THEN 0
        ELSE f[k - 1] + (IF k = Width THEN -1 ELSE 1) * 2^(k - 1) * F(Bit(a, k - 1), Bit(b, k - 1))
  IN f[Width]

Apply(op, l, r) ==
  CASE op = "POW" -> Power(l, r)
    [] op = "MUL" -> l * r
    [] op = "DIV" -> Quot(l, r)
    [] op = "MOD" -> l - r * Quot(l, r)
    [] op = "ADD" -> l + r
    [] op = "SUB" -> l - r
    [] op = "AND" -> Bitwise2(l, r, LAMBDA a, b : a * b)
    [] op = "XOR" -> Bitwise2(l, r, LAMBDA a, b : (a + b) % 2)
    [] op = "OR"  -> Bitwise2(l, r, LAMBDA a, b : IF a + b > 0 THEN 1 ELSE 0)

Undefined(op, l, r) ==
  \/ op \in {"DIV", "MOD"} /\ r = 0
  \/ op = "POW" /\ r < 0 /\ l = 0

(* teco_expressions_calc(): what is popped before an error stays popped.   *)
(* That there is no operator between the numbers is an assertion.          *)
CalcNumbers(y, op, right) ==
  IF ~TopIs(y, "NUMBER") THEN Fail(y, "Missing left operand")
  ELSE IF op \in Pseudo THEN Fail(PopNum(y), "not reached")
  ELSE IF Undefined(op, TopNum(y), right) THEN Fail(PopNum(y), "Undefined")
  ELSE PushInt(PopNum(y), Apply(op, TopNum(y), right))
CalcOperator(y, right) ==
  IF y.ops = <<>> THEN Fail(y, "Missing left operand")
  ELSE CalcNumbers(PopOp(y, 0), Last(y.ops), right)
Calc(x) ==
  IF TopIs(x, "NUMBER") THEN CalcOperator(PopNum(x), TopNum(x)) ELSE Fail(x, "Missing right operand")

(* teco_expressions_eval(): calculate down to the next brace, which may be *)
(* popped, or until the operator has no right operand yet.                 *)
Calculates(x) == FirstOp(x) >= 1 /\ PeekOp(x, FirstOp(x)) # "BRACE"
EvalTurn(x) == IF Calculates(x) THEN Calc(x) ELSE x
PopBrace(x) ==
  IF FirstOp(x) >= 0 /\ PeekOp(x, FirstOp(x)) = "BRACE" THEN PopOp(x, FirstOp(x)) ELSE x
Evaluated(x) == Turns(x, Len(x.ops), EvalTurn)

Eval(x, popBrace) == IF popBrace THEN Then(Evaluated(x), PopBrace) ELSE Evaluated(x)

(* teco_expressions_push_calc(): calculate what binds at least as strong.  *)
Waits(x, op) == FirstOp(x) < 0 \/ Prec[op] > Prec[PeekOp(x, FirstOp(x))]
PushCalcTurn(x, op) == IF Waits(x, op) THEN x ELSE Calc(x)
PushCalc(x, op) ==
  Then(Turns(x, Len(x.ops), LAMBDA y : PushCalcTurn(y, op)), LAMBDA y : PushOp(y, op))

(* teco_expressions_pop_num_calc(): the stacks and the number.             *)
TakeNum(y, imply) ==
  IF ~OK(y) THEN [x |-> y, n |-> imply]
  ELSE IF Args(y) > 0 THEN [x |-> [PopNum(y) EXCEPT !.sign = 1], n |-> TopNum(y)]
  ELSE [x |-> [y EXCEPT !.sign = 1], n |-> imply]
PopNumCalc(x, imply) == TakeNum(Eval(x, FALSE), imply)

DiscardArgs(x) ==
  Then(Eval(x, FALSE), LAMBDA y : Turns(y, Args(y), LAMBDA z : PopNumCalc(z, 0).x))

-----------------------------------------------------------------------------
(* Braces.                                                                 *)

BraceOpen(x) == [PushOp(PopNew(x), "BRACE") EXCEPT !.level = @ + 1]

BraceClose(x) ==
  IF x.level = 0 THEN Fail(x, "Missing opening brace")
  ELSE Eval([x EXCEPT !.level = @ - 1], TRUE)

(* teco_expressions_brace_return(): the arguments survive the braces.      *)
BraceReturnTurn(x, keep) ==
  IF x.level <= keep THEN x
  ELSE Then(Then(DiscardArgs(x), LAMBDA y : Eval(y, TRUE)), LAMBDA y : [y EXCEPT !.level = @ - 1])
LeaveBraces(x, keep) == Turns(x, x.level, LAMBDA y : BraceReturnTurn(y, keep))
Numbers(x, args) == SubSeq(x.nums, Len(x.nums) - args + 1, Len(x.nums))
PushAll(x, numbers) == FoldLeft(PushInt, x, numbers)

(* Mutant: the arguments come back in the order they were popped.          *)
BraceReturnReversed(x, keep, args) ==
  Then(LeaveBraces(Turns(x, args, PopNum), keep), LAMBDA y : PushAll(y, Reverse(Numbers(x, args))))

BraceReturn(x, keep, args) ==
  Then(LeaveBraces(Turns(x, args, PopNum), keep), LAMBDA y : PushAll(y, Numbers(x, args)))

-----------------------------------------------------------------------------
(* The commands of core-commands.c that work on nothing but the stacks.    *)

(* A digit is appended to the number on top.  The radix is 10.             *)
Digit(x, d) ==
  LET has == Args(x) > 0
      n == IF has THEN TopNum(x) ELSE 0
  IN PushInt(IF has THEN PopNum(x) ELSE x, n * 10 + (IF n < 0 THEN -d ELSE d))

Minus(x) == IF Args(x) = 0 THEN [x EXCEPT !.sign = -@] ELSE PushCalc(x, "SUB")

Open(x) ==
  IF x.sign > 0 THEN BraceOpen(x)
  ELSE Then(Then(Eval([x EXCEPT !.sign = 1], FALSE), LAMBDA y : PushCalc(PushInt(y, -1), "MUL")), BraceOpen)

Comma(x) == Then(Eval(x, FALSE), LAMBDA y : PushOp(y, "NEW"))

(* Commands that return a value: dot and Z.                                *)
Value(x, n) == Then(Eval(x, FALSE), LAMBDA y : PushInt(y, n))

(* The number on top is negated bit by bit.                                *)
Negate(x) ==
  Then(Eval(x, FALSE), LAMBDA y :
    IF Args(y) = 0 THEN Fail(y, "Argument expected") ELSE PushInt(PopNum(y), -1 - TopNum(y)))

(* $$ returns all arguments there are and leaves the braces above keep.    *)
ReturnTo(x, keep) == Then(Eval(x, FALSE), LAMBDA y : BraceReturn(y, keep, Args(y)))
=============================================================================
