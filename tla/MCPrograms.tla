----------------------------- MODULE MCPrograms -----------------------------
EXTENDS Programs

Fx(n) == [k |-> "effect", n |-> n]
Jump(k) == [k |-> k]
Loops(N, bodies) == {[k |-> "loop", n |-> n, body |-> b] : n \in N, b \in bodies}
Ifs(N, thens, elses) ==
  {[k |-> "if", n |-> n, then |-> a, else |-> b] : n \in N, a \in thens, b \in elses}

(* The callee returns from within a loop in a conditional.                 *)
MCCallee == <<[k |-> "loop", n |-> 2,
               body |-> <<Fx(4), [k |-> "if", n |-> 1, then |-> <<Jump("return")>>, else |-> <<>>], Fx(5)>>]>>
MCMacros == {Text(MCCallee)}

Simple == {Fx(1), Jump("break"), Jump("continue"), Jump("return"), [k |-> "call"]}
Bodies == {<<>>} \cup {<<s>> : s \in Simple}

(* Statements in a loop, in the middle of which there may be a loop or a   *)
(* conditional.                                                            *)
Inner == Simple \cup {Jump("stay"), Jump("leave"), Jump("exit")}
         \cup Loops({0, 1, 2}, Bodies) \cup Ifs({0, 1}, Bodies, Bodies)
MCLoops == {<<l, Fx(9)>> : l \in Loops({1, 2}, {<<Fx(7), s, t>> : s, t \in Inner})}

(* Conditionals with jumps, in a conditional.                              *)
Choosing == {<<>>} \cup {<<Jump(j), Fx(1)>> : j \in {"toElse", "toEnd", "return", "leave"}} \cup {<<Fx(2)>>}
InnerIfs == Ifs({0, 1}, Choosing, Choosing)
MCIfs == {<<i, Fx(9)>> : i \in Ifs({0, 1}, {<<s, Fx(3)>> : s \in InnerIfs},
                                  Choosing \cup {<<s, Fx(3)>> : s \in InnerIfs})}

MCStructured == MCLoops \cup MCIfs

(* All short texts of labels, gotos, modifiers and other commands.         *)
CONSTANT MaxText
MCTexts == UNION {[1..n -> {"!a", "!b", "Oa", "Ob", ":", "'"}] : n \in 0..MaxText}

(* Bound: more effects than any of the programs has.                       *)
FewEffects == Len(trace) <= 12
=============================================================================
