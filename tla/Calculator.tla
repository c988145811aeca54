----------------------------- MODULE Calculator -----------------------------
(***************************************************************************)
(* The expression stacks of a session in which arithmetic commands are     *)
(* entered in any order.  A command that fails is rejected: everything it  *)
(* has done to the stacks is undone, as cmdline.c does with a key press    *)
(* whose command fails.                                                    *)
(***************************************************************************)
EXTENDS Expressions

CONSTANTS
  Digits,      \* the digits that can be entered
  Operators,   \* the binary operators that can be entered, besides "-"
  Dot,         \* the value of the command "."
  MaxOps,      \* bound on the length of the operator stack
  MaxNum       \* bound on the magnitude of a number

ASSUME CalculatorAssumption == Digits \subseteq 0..9 /\ Operators \subseteq Binary \ {"SUB"}

VARIABLE x     \* the stacks
vars == x

Init == x = Clear

(* A command leads to the stacks y, or it fails and is undone, unless  *)
(* it is a failed assertion that ends the program.                         *)
Run(result) == \E y \in {result} :
  /\ OK(x)
  /\ Len(y.ops) <= MaxOps
  /\ \A i \in DOMAIN y.nums : Abs(y.nums[i]) <= MaxNum
  /\ x' = IF y.err \in {"none", "not reached"} THEN y ELSE x

EnterDigit == \E d \in Digits : Run(Digit(x, d))
EnterOperator == \E op \in Operators : Run(PushCalc(x, op))
EnterMinus == Run(Minus(x))
EnterOpen == Run(Open(x))
EnterClose == Run(BraceClose(x))
EnterComma == Run(Comma(x))
EnterDot == Run(Value(x, Dot))
EnterNegate == Run(Negate(x))
EnterReturn == \E keep \in 0..x.level : Run(ReturnTo(x, keep))

Next == \/ EnterDigit \/ EnterOperator \/ EnterMinus \/ EnterOpen \/ EnterClose
        \/ EnterComma \/ EnterDot \/ EnterNegate \/ EnterReturn

Spec == Init /\ [][Next]_vars

-----------------------------------------------------------------------------
(* Properties.                                                             *)

Markers(s, op) == {i \in DOMAIN s.ops : s.ops[i] = op}

(* The two stacks never get out of step: there is a marker for every       *)
(* number, so that pop_num() never finds the number of somebody else.      *)
NumbersMatch == OK(x) => Len(x.nums) = Cardinality(Markers(x, "NUMBER"))

(* A return hands over all of its arguments in their order, whatever       *)
(* braces it leaves, if there is no prefix sign waiting for a number.      *)
Arguments(s) == SubSeq(s.nums, Len(s.nums) - Args(s) + 1, Len(s.nums))
ReturnDelivers ==
  [][LET y == Eval(x, FALSE) IN
     \/ Args(x') >= Args(y) /\ IsSuffix(Arguments(y), x'.nums)
     \/ x.sign = -1
     \/ ~EnterReturn]_vars

(* "The nesting level of braces" (expressions.c:364) is the number of      *)
(* braces on the stack.                                                    *)
LevelIsNesting == x.level = Cardinality(Markers(x, "BRACE"))

(* Every mark on the stack is a known one and the sign is a sign.          *)
TypeOK ==
  /\ x.ops \in Seq(Binary \cup Pseudo) /\ x.nums \in Seq(Int)
  /\ x.level \in Nat /\ x.sign \in {-1, 1}
  /\ x.err \in {"none", "not reached"}

(* Nothing but an operator is ever calculated: "shouldn't happen" says     *)
(* the assertion (expressions.c:279).                                      *)
OperatorsAreCalculated == x.err # "not reached"
=============================================================================
