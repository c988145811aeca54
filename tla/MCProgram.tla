----------------------------- MODULE MCProgram ------------------------------
(* Model checking of Program: keys of every kind on every interface, and   *)
(* every way to start and end the program.                                 *)
EXTENDS Program

Interactively(i, b, keys) ==
  [interface |-> i, backend |-> b, keys |-> keys, signals |-> i # "pad",
   options |-> "ok", stdin |-> "none", stdout |-> "none", eval |-> "none", mung |-> "none", profile |-> "none",
   fallback |-> "none", fake |-> "none", hook |-> "none", argument |-> "none", screen |-> TRUE]
Batch == [Interactively("tty", "poll", {}) EXCEPT !.stdout = "saved"]

MCBusy ==
  {Interactively(i, "poll", keys) : i \in {"tty", "gtk"},
     keys \in {{"loop", "^C", "exits"}, {"delays", "plain", "^C"}, {"hog", "limits", "unlimits"}}}
  \cup {Interactively("pad", "poll", keys) : keys \in {{"loop", "plain", "^C"}, {"hog", "limits", "exits"}}}
  \cup {Interactively("tty", "malloc", {"hog", "limits", "^C"})}

MCBytes ==
  {Interactively(i, "poll", {"lead", "cont", "plain", "function", "close"}) : i \in {"tty", "pad"}}
  \cup {Interactively("gtk", "poll", {"plain", "function", "close", "^C"})}

MCAsking ==
  {Interactively("tty", "poll", {"asks", "commits", "^C", "rubs"}),
   Interactively("tty", "poll", {"asks", "lead", "cont", "^D"}),
   Interactively("pad", "poll", {"asksByte", "limits", "fails", "rubs"}),
   Interactively("gtk", "poll", {"asks", "function", "close", "^C"})}

MCBatch ==
  {[Batch EXCEPT !.eval = e, !.hook = h, !.stdin = s] :
     e \in {"plain", "fails", "loop", "hog", "exits", "asks"}, h \in {"none", "plain", "fails"},
     s \in {"text", "fails"}}
  \cup {[Batch EXCEPT !.mung = m, !.profile = p, !.fallback = f, !.hook = "plain", !.keys = {"close"}] :
     m \in {"none", "missing", "ex", "plain"}, p \in {"none", "ex", "exits", "fails"},
     f \in {"none", "plain"}}
  \cup {[Batch EXCEPT !.fake = f, !.hook = "plain"] : f \in {"plain", "fails", "loop"}}
  \cup {[Batch EXCEPT !.eval = e, !.hook = h, !.argument = a, !.stdout = s] :
           e \in {"fails", "plain", "exits"}, h \in {"none", "fails"}, a \in {"code", "fails"},
           s \in {"saved", "fails"}}
  \cup {[Batch EXCEPT !.mung = m, !.keys = {"close"}, !.hook = "plain", !.argument = a] :
           m \in {"ex", "plain"}, a \in {"code", "fails"}}
  \cup {[Batch EXCEPT !.interface = i, !.screen = FALSE, !.profile = p, !.hook = "plain"] :
           i \in {"tty", "gtk"}, p \in {"none", "ex", "plain"}}
  \cup {[Batch EXCEPT !.options = o] : o \in {"version", "bad"}}

(* Scenarios with deviations, see the README.                              *)
MCPadSignals == {[Interactively("pad", "poll", {"loop", "plain"}) EXCEPT !.signals = TRUE],
                 Interactively("pad", "poll", {"asks", "plain", "^C"})}
MCPadDelays == {Interactively("pad", "poll", {"delays", "^C"})}
MCGtkAsks == {Interactively("gtk", "poll", {"asks", "plain"})}
MCGtkCommits == {Interactively("gtk", "poll", {"commits", "plain"})}
MCGtkRubs == {Interactively("gtk", "poll", {"unlimits", "rubs", "hog"})}
MCFake == {[Batch EXCEPT !.fake = "exits", !.hook = "plain"]}
MCHook == {[Batch EXCEPT !.eval = "plain", !.hook = "exits"]}
MCTorn == {Interactively("tty", "poll", {"lead", "cont", "^C"})}
MCTornByAsking == {Interactively("tty", "poll", {"lead", "cont", "asksByte"})}
MCHogs == {Interactively("tty", "poll", {"hog", "plain"})}
MCFunctions == {Interactively("tty", "poll", {"asks", "function"})}
MCGarbage == {Interactively("tty", "poll", {"lead", "plain"})}

MCScenarios == MCBusy \cup MCBytes \cup MCAsking \cup MCBatch
=============================================================================
