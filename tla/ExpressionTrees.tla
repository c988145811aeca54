-------------------------- MODULE ExpressionTrees ---------------------------
(***************************************************************************)
(* Expressions as the documentation defines them - numbers, left           *)
(* associative operators with a precedence, brackets - and the commands    *)
(* that SciTECO executes when they are typed in.  An expression is a tree: *)
(*                                                                         *)
(*   [op |-> "NUMBER", n |-> Int]    [op |-> Binary, l |-> tree, r |-> tree]*)
(*                                                                         *)
(* It is printed with no more brackets than it needs and executed from     *)
(* left to right, one command after the other, behind other commands.      *)
(***************************************************************************)
EXTENDS Calculator

CONSTANTS
  Cases,       \* the expressions, each with the commands in front of it
  Zeros        \* the zeros in front of every number

-----------------------------------------------------------------------------
(* Trees and what they mean.                                               *)

(* The expressions of size numbers.                                        *)
RECURSIVE Trees(_, _, _)
Trees(leaves, operators, size) ==
  IF size = 1 THEN {[op |-> "NUMBER", n |-> n] : n \in leaves}
  ELSE UNION {{[op |-> op, l |-> l, r |-> r] : op \in operators,
               l \in Trees(leaves, operators, k), r \in Trees(leaves, operators, size - k)}
              : k \in 1..(size - 1)}

(* The power as mathematics defines it, rounded towards zero.              *)
Raised(base, exp) ==
  LET f[e \in 0..Abs(exp)] == IF e = 0 THEN 1 ELSE base * f[e - 1] IN
  IF exp >= 0 THEN f[exp] ELSE IF Abs(f[-exp]) = 1 THEN f[-exp] ELSE 0

Meaning(op, l, r) == IF op = "POW" THEN Raised(l, r) ELSE Apply(op, l, r)

RECURSIVE ValueOf(_)
ValueOf(t) ==
  IF t.op = "NUMBER" THEN <<t.n>>
  ELSE LET l == ValueOf(t.l)
           r == ValueOf(t.r)
       IN IF l = <<>> \/ r = <<>> \/ Undefined(t.op, l[1], r[1]) THEN <<>>
          ELSE <<Meaning(t.op, l[1], r[1])>>

(* Powers of negative numbers are a chapter of their own.                  *)
RECURSIVE PlainPowers(_)
PlainPowers(t) ==
  t.op # "NUMBER" =>
    /\ PlainPowers(t.l) /\ PlainPowers(t.r)
    /\ LET l == ValueOf(t.l)
           r == ValueOf(t.r)
       IN t.op = "POW" /\ l # <<>> /\ r # <<>> => l[1] >= 0 \/ r[1] > 0

-----------------------------------------------------------------------------
(* Printing: the commands of an expression.                                *)

Enclosed(s) == <<"(">> \o s \o <<")">>

(* The decimal digits of a number and its prefix sign.                     *)
DigitNames == <<"0", "1", "2", "3", "4", "5", "6", "7", "8", "9">>
DigitsOf(n) ==
  IF n < 10 THEN <<DigitNames[n + 1]>> ELSE <<DigitNames[n \div 10 + 1], DigitNames[(n % 10) + 1]>>
Number(n) == IF n < 0 THEN <<"-">> \o Zeros \o DigitsOf(-n) ELSE Zeros \o DigitsOf(n)

(* A product whose left operand is -1 is a negated bracket: "-(...)" is    *)
(* "roughly equivalent to -1*(...)" (doc/sciteco.7.template:1113).         *)
IsNegation(t) == t.op = "MUL" /\ t.l.op = "NUMBER" /\ t.l.n = -1

RECURSIVE Commands(_)
Commands(t) ==
  IF t.op = "NUMBER" THEN Number(t.n)
  ELSE IF IsNegation(t) THEN <<"-">> \o Enclosed(Commands(t.r))
  ELSE LET l == Commands(t.l)
           r == Commands(t.r)
       IN (IF Prec[t.l.op] \in 1..(Prec[t.op] - 1) THEN Enclosed(l) ELSE l)
          \o <<t.op>> \o
          (IF Prec[t.r.op] \in 1..Prec[t.op] THEN Enclosed(r) ELSE r)

-----------------------------------------------------------------------------
(* Execution.                                                              *)

DigitValue(c) == CHOOSE d \in 0..9 : DigitNames[d + 1] = c

Execute(s, c) ==
  CASE Contains(DigitNames, c) -> Digit(s, DigitValue(c))
    [] c \in {"-", "SUB"} -> Minus(s)
    [] c = "(" -> Open(s)
    [] c = ")" -> BraceClose(s)
    [] c = "," -> Comma(s)
    [] OTHER -> PushCalc(s, c)

(* One command after the other until one fails; "=" or whatever comes last *)
(* evaluates the stack.                                                    *)
Executed(text) ==
  Then(FoldLeft(LAMBDA s, c : IF OK(s) THEN Execute(s, c) ELSE s, Clear, text),
       LAMBDA y : Eval(y, FALSE))

-----------------------------------------------------------------------------
(* Properties.                                                             *)

(* The numbers that were entered in front of the expression.               *)
Before(context) ==
  LET digits == SelectSeq(context, LAMBDA c : Contains(DigitNames, c)) IN
  [i \in DOMAIN digits |-> DigitValue(digits[i])]

(* The value on the stack is what the expression means, it is the only one *)
(* that has been added, and an expression fails if and only if it is       *)
(* undefined.  (This is about all cases in the initial state.)  At any     *)
(* time there is a marker for every number.                                *)
IsValue(y, context, value) ==
  IF OK(y) THEN value # <<>> /\ y.nums = Before(context) \o value
  ELSE value = <<>> /\ y.err = "Undefined"
ComputesTheValue ==
  /\ NumbersMatch
  /\ x = Clear =>
       \A case \in Cases :
         IsValue(Executed(case[2] \o Commands(case[1])), case[2], ValueOf(case[1]))

-----------------------------------------------------------------------------
(* Expressions for TLC: all operators with few numbers, at the beginning,  *)
(* behind a comma and in brackets, and nested more deeply with operators   *)
(* of different precedence in brackets.                                    *)

MCOperators == {"POW", "MOD", "DIV", "MUL", "SUB", "AND", "XOR", "OR"}
MCContexts == {<<>>, <<"7", ",">>, <<"5", "MUL", "(">>}
Shallow == UNION {Trees({-2, -1, 0, 2}, MCOperators, k) : k \in 1..3}
Deep == Trees({-1, 12}, {"DIV", "MUL", "SUB", "OR"}, 4)
MCCases ==
  {t \in Shallow : PlainPowers(t)} \X MCContexts \cup Deep \X MCContexts
MCNoZeros == <<>>

(* Negative numbers to negative powers, and zeros in front of numbers.     *)
MCPowers == Trees({-2, -1, 2}, MCOperators, 2) \X {<<>>}
MCPlain == Trees({-2, -1, 0, 2}, {"SUB"}, 2) \X {<<>>}
MCOneZero == <<"0">>
=============================================================================
