--------------------------- MODULE ProgramProofs ----------------------------
(***************************************************************************)
(* Keys are handled in the order in which they are typed in, none of them  *)
(* is lost, an interruption ends only the key it came for, and the program *)
(* ends once.                                                              *)
(***************************************************************************)
EXTENDS Program, SequenceLemmas

(* What is assumed of the scenario, each with a deviation behind it.       *)
(* Bytes that belong to a character are typed in and read together.        *)
CharactersArriveWhole(s) ==
  s.keys \cap {"lead", "cont"} # {} =>
    Utf8 /\ "asksByte" \notin s.keys /\ ~(s.interface = "tty" /\ "^C" \in s.keys)
(* On Curses windows a flag is only raised between keys by signals, and by *)
(* a ^C that answers a macro.                                              *)
FlagIsLowered(s) ==
  s.interface = "pad" => ~s.signals /\ ~("^C" \in s.keys /\ s.keys \cap {"asks", "asksByte"} # {})
(* GTK's input methods end the main loop but not the handling of keys; and *)
(* fake keys and the QUIT hook may not end the program themselves.         *)
Exiting == {"exits", "commits"}
LeavesCleanly(s) ==
  /\ s.interface = "gtk" => "commits" \notin s.keys
  /\ {s.fake, s.hook} \cap Exiting = {}

-----------------------------------------------------------------------------
(* The inductive invariant.                                                *)

LimiterTypeOK ==
  /\ backend \in {"malloc", "poll"}
  /\ memory \in Nat /\ usage \in Nat /\ limit \in Nat
  /\ state \in {"on", "off", "shutdown"}
  /\ thread \in {"none", "locking", "polling", "waiting", "gone"}

Numbers == Nat \ {0}
Entered == [keys: Seq(Numbers), outcome: Outcomes, wanted: BOOLEAN]
Kinds == KeyKinds \cup {"nobody"}
Macros == [kind: Kinds, entry: Nat, memory: Nat]
LoopTypeOK ==
  /\ interface \in {"tty", "pad", "gtk"} /\ interactive \in BOOLEAN
  /\ pc \in {"main", "step", "delays", "nested", "ready", "waits", "fetched", "drains", "stops"}
  /\ reader \in {"loop", "macro"}
  /\ typed \in Seq(KeyKinds)
  /\ terminal \in Seq(Numbers) /\ queue \in Seq(Numbers) /\ keybuf \in Seq(Numbers) /\ held \in Nat
  /\ interrupted \in BOOLEAN /\ wanted \in BOOLEAN /\ undo \in BOOLEAN /\ exit \in BOOLEAN
  /\ signals \in Nat /\ levels \in Seq(Nat)
  /\ running \in Macros
  /\ error \in Rejecting \cup {"none", "quit", "input", "argument", "screen", "output"}
  /\ handled \in Seq(Entered)

Before == {"options", "setup", "stdin", "macro", "evaluated", "munged", "interactive"}
Phases == Before \cup {"keys", "hook", "cleanup", "exits", "joins", "exited"}
TypeOK ==
  /\ LimiterTypeOK
  /\ LoopTypeOK
  /\ scenario \in Scenarios /\ interface = scenario.interface
  /\ phase \in Phases
  /\ hooks \in Nat /\ printed \in BOOLEAN /\ status \in {"none", "code", "success", "failure"}

(* Who is where.                                                           *)
Executing == pc \in {"step", "delays"}
MacroPhases == {"evaluated", "munged", "keys", "cleanup"}
Control ==
  /\ phase = "keys" => undo
  /\ undo => phase = "keys" \/ (pc = "main" /\ phase \in {"cleanup", "exits", "joins", "exited"})
  /\ interactive => phase = "keys" /\ scenario.fake = "none" /\ pc # "main"
  /\ pc # "main" => phase \in MacroPhases
  /\ phase \notin {"options", "exits", "joins", "exited"} => scenario.mung # "missing"
  /\ interactive \/ pc \in {"main", "step", "delays"}
  /\ running.kind = "nobody" <=> ~Executing /\ reader = "loop"
  /\ reader = "macro" => IsAsking /\ pc \in {"ready", "waits", "fetched", "nested"}
  /\ pc = "nested" => interface = "gtk" /\ reader = "macro"
  /\ reader = "macro" /\ interface = "gtk" => pc = "nested"

Keys == 1 .. Len(typed)

(* The keys in each place.  They are on their way from the terminal through *)
(* the queue, or the hands of wgetch(), into the bytes of a character.     *)
Buffered == ToSet(keybuf)
HeldKey == IF held = 0 THEN {} ELSE {held}
Queued == ToSet(queue)
Waiting == ToSet(terminal)
Pending == HeldKey \cup Queued \cup Waiting
Lines ==
  /\ Increasing(keybuf) /\ Increasing(queue) /\ Increasing(terminal)
  /\ Buffered \cup Pending \subseteq Keys
  /\ Ahead(Buffered, Pending) /\ Ahead(HeldKey \cup Queued, Waiting)

(* What is typed in, and executed for it.                                  *)
KindsTyped ==
  /\ \A key \in Keys : typed[key] \in scenario.keys
  /\ interactive /\ running.kind # "nobody" => running.kind \in scenario.keys \cup {"plain"}

(* Where keys can be.                                                      *)
Places ==
  /\ pc = "drains" => interface = "gtk"
  /\ pc = "fetched" <=> held # 0
  /\ held # 0 => interface # "gtk"
  /\ interface # "gtk" /\ pc \in {"waits", "fetched"} => queue = <<>>
  /\ interface = "tty" => queue = <<>>
  /\ interface = "gtk" => keybuf = <<>>
  /\ interface = "gtk" /\ pc = "ready" => queue # <<>>
  /\ undo /\ keybuf # <<>> =>
       running.kind = "nobody" \/ (running.kind = "asks" /\ reader = "macro")
  /\ phase \in Before => /\ handled = <<>> /\ typed = <<>>
                        /\ terminal = <<>> /\ queue = <<>> /\ keybuf = <<>>

-----------------------------------------------------------------------------
(* Types and places.                                                       *)

LEMMA ScenarioTypes ==
  ASSUME NEW s \in Scenarios
  PROVE  /\ s.interface \in {"tty", "pad", "gtk"} /\ s.backend \in {"malloc", "poll"}
         /\ s.keys \subseteq KeyKinds
         /\ s.interface = "gtk" => s.keys \cap {"lead", "cont"} = {}
         /\ s.eval \in MacroKinds \cup {"none"}
         /\ s.mung \in MacroKinds \cup {"none", "missing"}
         /\ s.profile \in MacroKinds \cup {"none"} /\ s.fallback \in MacroKinds \cup {"none"}
         /\ s.fake \in MacroKinds \cup {"none"} /\ s.hook \in MacroKinds \cup {"none"}
  BY ScenariosAssumption

LEMMA NextKeys ==
  ASSUME TypeOK, Lines
  PROVE  /\ queue # <<>> => /\ Head(queue) \in Keys /\ Tail(queue) \in Seq(Numbers)
                            /\ Queued = {Head(queue)} \cup ToSet(Tail(queue))
                            /\ Increasing(Tail(queue)) /\ Ahead({Head(queue)}, ToSet(Tail(queue)))
         /\ terminal # <<>> => /\ Head(terminal) \in Keys /\ Tail(terminal) \in Seq(Numbers)
                               /\ Waiting = {Head(terminal)} \cup ToSet(Tail(terminal))
                               /\ Increasing(Tail(terminal))
                               /\ Ahead({Head(terminal)}, ToSet(Tail(terminal)))
         /\ held # 0 => held \in Keys
<1>1. Numbers \in SUBSET Int /\ queue \in Seq(Numbers) /\ terminal \in Seq(Numbers)
  BY DEF Numbers, TypeOK, LoopTypeOK
<1>2. ASSUME NEW s \in {queue, terminal}, s # <<>>
      PROVE  /\ Head(s) \in Keys /\ Tail(s) \in Seq(Numbers)
             /\ ToSet(s) = {Head(s)} \cup ToSet(Tail(s))
             /\ Increasing(Tail(s)) /\ Ahead({Head(s)}, ToSet(Tail(s)))
  <2>1. s \in Seq(Numbers) /\ Increasing(s) /\ ToSet(s) \subseteq Keys
    BY <1>1 DEF Lines, Queued, Waiting, Pending
  <2>2. /\ Tail(s) \in Seq(Numbers)
        /\ ToSet(s) = {Head(s)} \cup ToSet(Tail(s))
        /\ Increasing(Tail(s)) /\ Ahead({Head(s)}, ToSet(Tail(s)))
    BY <1>1, <1>2, <2>1, HeadAndTail
  <2> QED
    BY <2>1, <2>2
<1>3. held # 0 => held \in Keys
  BY DEF Lines, HeldKey, Pending
<1> QED
  BY <1>2, <1>3 DEF Queued, Waiting

LEMMA InitPlaces == Init => TypeOK /\ Control /\ Places
<1> SUFFICES ASSUME Init PROVE TypeOK /\ Control /\ Places
  OBVIOUS
<1> USE DEF Init, LoopInit, LimiterInit, Nobody, Executing, Before, Phases, MacroPhases
<1>1. LimiterTypeOK
  BY LimiterAssumption, ScenarioTypes DEF LimiterTypeOK
<1>2. LoopTypeOK
  <2>1. running \in Macros
    BY DEF Macros, Kinds
  <2>2. /\ typed \in Seq(KeyKinds) /\ terminal \in Seq(Numbers) /\ queue \in Seq(Numbers)
        /\ keybuf \in Seq(Numbers) /\ levels \in Seq(Nat) /\ handled \in Seq(Entered)
    OBVIOUS
  <2>3. interface \in {"tty", "pad", "gtk"}
    BY ScenarioTypes
  <2> QED  BY <2>1, <2>2, <2>3 DEF LoopTypeOK
<1>3. TypeOK
  BY <1>1, <1>2 DEF TypeOK
<1>4. Control
  BY DEF Control
<1>5. Places
  BY DEF Places
<1> QED  BY <1>3, <1>4, <1>5

LEMMA EntryType ==
  ASSUME NEW keys \in Seq(Numbers), NEW outcome \in Outcomes
  PROVE  Entry(keys, outcome) \in Entered
  BY DEF Entry, Entered

LEMMA StartsType ==
  ASSUME TypeOK, NEW kind \in KeyKinds, NEW entry \in Nat, Starts(kind, entry)
  PROVE  /\ running' \in Macros
         /\ wanted' = FALSE /\ pc' = "step"
         /\ running'.kind = kind /\ running'.kind # "nobody" /\ running'.entry = entry
  BY DEF TypeOK, LimiterTypeOK, Starts, Macros, Kinds, KeyKinds, MacroKinds

(* The steps of main outside of the event loop.                            *)
MainSteps == ProcessesOptions \/ SetsUp \/ LoadsStdin \/ StartsMacro \/ MacroEnds \/ GoesInteractive
               \/ FailsToOpen \/ Terminates \/ CallsHook \/ CleansUp \/ DestroysThread \/ JoinsThread

LEMMA MainTypes ==
  ASSUME TypeOK, Control, Places, MainSteps
  PROVE  TypeOK' /\ Control' /\ Places'
<1> USE DEF InMain, GoesTo, LoopUnchanged, limiterVars, loopVars, Before, Phases
<1>1. CASE ProcessesOptions
  <2> USE <1>1 DEF ProcessesOptions
  <2>t. TypeOK'
    BY DEF TypeOK, LimiterTypeOK, LoopTypeOK
  <2>c. Control'
    BY DEF Control, Executing, MacroPhases
  <2>p. Places'
    BY DEF Places, Control
  <2> QED
    BY <2>t, <2>c, <2>p
<1>2. CASE SetsUp
  <2> USE <1>2 DEF SetsUp
  <2>t. TypeOK'
    BY DEF TypeOK, LimiterTypeOK, LoopTypeOK
  <2>c. Control'
    BY DEF Control, Executing, MacroPhases
  <2>p. Places'
    BY DEF Places, Control
  <2> QED
    BY <2>t, <2>c, <2>p
<1>3. CASE LoadsStdin
  <2> USE <1>3 DEF LoadsStdin
  <2>t. TypeOK'
    BY DEF TypeOK, LimiterTypeOK, LoopTypeOK
  <2>c. Control'
    BY DEF Control, Executing, MacroPhases
  <2>p. Places'
    BY DEF Places, Control
  <2> QED
    BY <2>t, <2>c, <2>p
<1>4. CASE StartsMacro
  <2>1. ASSUME NEW kind \in MacroKinds, NEW next \in {"evaluated", "munged"}, Runs(kind, next)
        PROVE  TypeOK' /\ Control' /\ Places'
    <3>1. phase = "macro" /\ pc = "main"
      BY <1>4 DEF StartsMacro
    <3>2. /\ running' \in Macros /\ running'.kind # "nobody"
          /\ wanted' \in BOOLEAN /\ pc' = "step"
      BY <2>1, StartsType DEF Runs, KeyKinds
    <3> USE <2>1, <3>1 DEF Runs
    <3>t. TypeOK'
      BY <3>2 DEF TypeOK, LimiterTypeOK, LoopTypeOK
    <3>c. Control'
      BY <3>2 DEF Control, Executing, MacroPhases
    <3>p. Places'
      BY <3>2 DEF Places, Control
    <3> QED
      BY <3>t, <3>c, <3>p
  <2>2. ASSUME GoesTo("interactive"), LoopUnchanged
        PROVE  TypeOK' /\ Control' /\ Places'
    <3> USE <2>2, <1>4 DEF StartsMacro
    <3>t. TypeOK'
      BY DEF TypeOK, LimiterTypeOK, LoopTypeOK
    <3>c. Control'
      BY DEF Control, Executing, MacroPhases
    <3>p. Places'
      BY DEF Places, Control
    <3> QED
      BY <3>t, <3>c, <3>p
  <2>3. /\ scenario.eval \in MacroKinds \cup {"none"}
        /\ scenario.mung \in MacroKinds \cup {"none"}
        /\ scenario.profile \in MacroKinds \cup {"none"}
        /\ scenario.fallback \in MacroKinds \cup {"none"}
    BY <1>4, ScenarioTypes DEF StartsMacro, TypeOK, Control
  <2> QED
    BY <1>4, <2>1, <2>2, <2>3 DEF StartsMacro, Script
<1>5. CASE MacroEnds
  <2> USE <1>5 DEF MacroEnds, MacroEndsIn
  <2>t. TypeOK'
    BY DEF TypeOK, LimiterTypeOK, LoopTypeOK
  <2>c. Control'
    BY DEF Control, Executing, MacroPhases
  <2>p. Places'
    BY DEF Places, Control
  <2> QED
    BY <2>t, <2>c, <2>p
<1>6. CASE GoesInteractive
  <2>1. CASE scenario.fake # "none"
    <3>1. scenario.fake \in KeyKinds
      BY <2>1, ScenarioTypes DEF TypeOK, KeyKinds
    <3>2. /\ running' \in Macros /\ running'.kind # "nobody"
          /\ wanted' \in BOOLEAN /\ pc' = "step"
      BY <1>6, <2>1, <3>1, StartsType DEF GoesInteractive
    <3>3. handled' \in Seq(Entered)
      <4>1. <<>> \in Seq(Numbers) /\ "running" \in Outcomes
        BY DEF Outcomes
      <4>2. Entry(<<>>, "running") \in Entered
        BY <4>1, EntryType
      <4>3. <<Entry(<<>>, "running")>> \in Seq(Entered)
        BY <4>2
      <4> QED
        BY <1>6, <2>1, <4>3 DEF GoesInteractive
    <3>4. keybuf = <<>>
      BY <1>6 DEF GoesInteractive, Places
    <3> USE <1>6, <2>1 DEF GoesInteractive
    <3>t. TypeOK'
      BY <3>2, <3>3, <3>4 DEF TypeOK, LimiterTypeOK, LoopTypeOK
    <3>c. Control'
      BY <3>2, <3>3, <3>4 DEF Control, Executing, MacroPhases
    <3>p. Places'
      BY <3>2, <3>3, <3>4 DEF Places, Control
    <3> QED
      BY <3>t, <3>c, <3>p
  <2>2. CASE scenario.fake = "none"
    <3> USE <1>6, <2>2 DEF GoesInteractive, EntersGtk, EntersCurses, OpensScreen, StopLimiting
    <3>t. TypeOK'
      BY ZenonT(60) DEF TypeOK, LimiterTypeOK, LoopTypeOK
    <3>c. Control'
      BY DEF Control, Executing, MacroPhases
    <3>p. Places'
      BY DEF Places, Control
    <3> QED
      BY <3>t, <3>c, <3>p
  <2> QED
    BY <2>1, <2>2
<1>7. CASE Terminates
  <2>1. /\ levels' \in Seq(Nat)
        /\ error' \in Rejecting \cup {"none", "quit", "input", "argument", "screen", "output"}
    BY <1>7 DEF Terminates, TypeOK, LoopTypeOK
  <2> USE <1>7 DEF Terminates
  <2>l. LimiterTypeOK' /\ LoopTypeOK'
    BY <2>1, ZenonT(60) DEF TypeOK, LimiterTypeOK, LoopTypeOK
  <2>t. TypeOK'
    BY <2>l DEF TypeOK
  <2>c. Control'
    BY <2>1 DEF Control, Executing, MacroPhases
  <2>p. Places'
    BY <2>1 DEF Places, Control
  <2> QED
    BY <2>t, <2>c, <2>p
<1>8. CASE CallsHook
  <2>1. CASE scenario.hook # "none"
    <3>1. scenario.hook \in KeyKinds
      BY <2>1, ScenarioTypes DEF TypeOK, KeyKinds
    <3>2. /\ running' \in Macros /\ running'.kind # "nobody"
          /\ wanted' \in BOOLEAN /\ pc' = "step"
      BY <1>8, <2>1, <3>1, StartsType DEF CallsHook
    <3> USE <1>8, <2>1 DEF CallsHook
    <3>t. TypeOK'
      BY <3>2 DEF TypeOK, LimiterTypeOK, LoopTypeOK
    <3>c. Control'
      BY <3>2 DEF Control, Executing, MacroPhases
    <3>p. Places'
      BY <3>2 DEF Places, Control
    <3> QED
      BY <3>t, <3>c, <3>p
  <2>2. CASE scenario.hook = "none"
    <3> USE <1>8, <2>2 DEF CallsHook
    <3>t. TypeOK'
      BY DEF TypeOK, LimiterTypeOK, LoopTypeOK
    <3>c. Control'
      BY DEF Control, Executing, MacroPhases
    <3>p. Places'
      BY DEF Places, Control
    <3> QED
      BY <3>t, <3>c, <3>p
  <2> QED
    BY <2>1, <2>2
<1>9. CASE CleansUp
  <2> USE <1>9 DEF CleansUp
  <2>t. TypeOK'
    BY DEF TypeOK, LimiterTypeOK, LoopTypeOK
  <2>c. Control'
    BY DEF Control, Executing, MacroPhases
  <2>p. Places'
    BY DEF Places, Control
  <2> QED
    BY <2>t, <2>c, <2>p
<1>10. CASE DestroysThread
  <2> USE <1>10 DEF DestroysThread, Shutdown, Signalled
  <2>t. TypeOK'
    BY DEF TypeOK, LimiterTypeOK, LoopTypeOK
  <2>c. Control'
    BY DEF Control, Executing, MacroPhases
  <2>p. Places'
    BY DEF Places, Control
  <2> QED
    BY <2>t, <2>c, <2>p
<1>11. CASE JoinsThread
  <2> USE <1>11 DEF JoinsThread
  <2>t. TypeOK'
    BY DEF TypeOK, LimiterTypeOK, LoopTypeOK
  <2>c. Control'
    BY DEF Control, Executing, MacroPhases
  <2>p. Places'
    BY DEF Places, Control
  <2> QED
    BY <2>t, <2>c, <2>p
<1>12. CASE FailsToOpen
  <2> USE <1>12 DEF FailsToOpen
  <2>t. TypeOK'
    BY DEF TypeOK, LimiterTypeOK, LoopTypeOK
  <2>c. Control'
    BY DEF Control, Executing, MacroPhases
  <2>p. Places'
    BY DEF Places, Control
  <2> QED
    BY <2>t, <2>c, <2>p
<1> QED
  BY <1>1, <1>2, <1>3, <1>4, <1>5, <1>6, <1>7, <1>8, <1>9, <1>10, <1>11, <1>12 DEF MainSteps

-----------------------------------------------------------------------------
(* The steps of the event loop.                                            *)

(* SelectInSeq() finds the first element that passes the test.             *)
LEMMA PollPadCases ==
  ASSUME TypeOK
  PROVE  \/ /\ \A j \in 1 .. Len(terminal) : ~IsInterrupt(terminal[j])
            /\ PollPad = Poll(queue \o terminal, <<>>, interrupted, {}, interrupted)
         \/ \E at \in 1 .. Len(terminal) :
              /\ IsInterrupt(terminal[at])
              /\ PollPad = Poll(queue \o SubSeq(terminal, 1, at - 1),
                                SubSeq(terminal, at + 1, Len(terminal)),
                                interrupted, {terminal[at]}, TRUE)
<1> DEFINE I == {j \in 1 .. Len(terminal) : IsInterrupt(terminal[j])}
           at == SelectInSeq(terminal, IsInterrupt)
<1>1. Len(terminal) \in Nat
  BY DEF TypeOK, LoopTypeOK
<1>2. at = IF I # {} THEN Min(I) ELSE 0
  BY DEF SelectInSeq
<1>3. CASE I = {}
  BY <1>1, <1>2, <1>3 DEF PollPad
<1>4. CASE I # {}
  <2>1. at \in I
    <3>1. I \in SUBSET Nat
      BY <1>1
    <3> HIDE DEF I, at
    <3>2. Min(I) \in I
      BY <1>4, <3>1, MinLemma
    <3> QED
      BY <1>2, <1>4, <3>2
  <2>2. at # 0
    BY <2>1
  <2> QED
    BY <2>1, <2>2 DEF PollPad
<1> QED
  BY <1>3, <1>4

LEMMA PollCases ==
  ASSUME TypeOK, NEW p \in Polls
  PROVE  \/ p = NoPoll
         \/ interface = "pad" /\ interactive /\ p = PollPad
         \/ interface = "gtk" /\ interactive /\ terminal # <<>> /\ p = PollEvent
  BY DEF Polls, TypeOK, LoopTypeOK

LEMMA PollTypes ==
  ASSUME TypeOK, NEW p \in Polls
  PROVE  /\ p.queue \in Seq(Numbers) /\ p.terminal \in Seq(Numbers)
         /\ p.flag \in BOOLEAN /\ p.result \in BOOLEAN
         /\ interface = "tty" => p = NoPoll
         /\ ~interactive => p = NoPoll
<1> USE DEF Poll
<1>0. terminal \in Seq(Numbers) /\ queue \in Seq(Numbers) /\ interrupted \in BOOLEAN
  BY DEF TypeOK, LoopTypeOK
<1>1. CASE p = NoPoll
  BY <1>0, <1>1 DEF NoPoll
<1>2. CASE interface = "pad" /\ interactive /\ p = PollPad
  <2>1. CASE p = Poll(queue \o terminal, <<>>, interrupted, {}, interrupted)
    BY <1>0, <1>2, <2>1
  <2>2. CASE \E at \in 1 .. Len(terminal) :
               p = Poll(queue \o SubSeq(terminal, 1, at - 1),
                        SubSeq(terminal, at + 1, Len(terminal)), interrupted, {terminal[at]}, TRUE)
    <3>1. PICK at \in 1 .. Len(terminal) :
               p = Poll(queue \o SubSeq(terminal, 1, at - 1),
                        SubSeq(terminal, at + 1, Len(terminal)), interrupted, {terminal[at]}, TRUE)
      BY <2>2
    <3>2. /\ SubSeq(terminal, 1, at - 1) \in Seq(Numbers)
          /\ SubSeq(terminal, at + 1, Len(terminal)) \in Seq(Numbers)
      BY <1>0
    <3>3. queue \o SubSeq(terminal, 1, at - 1) \in Seq(Numbers)
      BY <1>0, <3>2
    <3> QED
      BY <1>0, <1>2, <3>1, <3>2, <3>3
  <2> QED
    BY <1>2, <2>1, <2>2, PollPadCases
<1>3. CASE interface = "gtk" /\ interactive /\ terminal # <<>> /\ p = PollEvent
  <2>1. Head(terminal) \in Numbers /\ Tail(terminal) \in Seq(Numbers)
    BY <1>0, <1>3
  <2>2. Append(queue, Head(terminal)) \in Seq(Numbers)
    BY <1>0, <2>1
  <2> QED
    BY <1>0, <1>3, <2>1, <2>2 DEF PollEvent
<1> QED
  BY <1>1, <1>2, <1>3, PollCases

(* How the execution of a macro may end.                                   *)
Endings == Rejecting \cup {"done", "quit", "committed"}

LEMMA EndsTypes ==
  ASSUME TypeOK, wanted' \in BOOLEAN, NEW outcome \in Endings, Ends(outcome)
  PROVE  /\ running' = Nobody /\ running' \in Macros
         /\ handled' \in Seq(Entered) /\ Len(handled') = Len(handled)
         /\ memory' \in Nat /\ usage' \in Nat
         /\ error' \in Rejecting \cup {"none", "quit", "input", "argument", "screen", "output"}
         /\ ~interactive => pc' = "main"
         /\ interactive => pc' \in {"stops"} \cup (IF interface = "gtk" THEN {"drains"} ELSE {"ready"})
<1>1. running' = Nobody /\ running' \in Macros
  BY DEF Ends, Nobody, Macros, Kinds
<1>2. handled \in Seq(Entered) /\ outcome \in Outcomes
  BY DEF TypeOK, LoopTypeOK, Outcomes, Endings
<1>3. handled' \in Seq(Entered) /\ Len(handled') = Len(handled)
  <2>1. CASE undo
    <3>1. handled' = [handled EXCEPT ![running.entry] =
                        [@ EXCEPT !.outcome = outcome, !.wanted = wanted']]
      BY <1>2, <2>1 DEF Ends
    <3> DEFINE e == [handled[running.entry] EXCEPT !.outcome = outcome, !.wanted = wanted']
    <3>2. running.entry \in 1 .. Len(handled) => handled[running.entry] \in Entered
      BY <1>2
    <3>3. running.entry \in 1 .. Len(handled) => e \in Entered
      BY <1>2, <3>2 DEF Entered
    <3>4. handled' = [handled EXCEPT ![running.entry] = e]
      BY <3>1
    <3> HIDE DEF e
    <3> QED
      BY <1>2, <3>3, <3>4, ExceptProps
  <2>2. CASE ~undo
    BY <1>2, <2>2 DEF Ends
  <2> QED
    BY <2>1, <2>2
<1>4. memory' \in Nat /\ usage' \in Nat
  BY DEF Ends, Allocate, TypeOK, LimiterTypeOK, LoopTypeOK, Macros
<1>5. error' \in Rejecting \cup {"none", "quit", "input", "argument", "screen", "output"}
  BY DEF Ends, TypeOK, LoopTypeOK, Rejecting
<1>6. /\ ~interactive => pc' = "main"
      /\ interactive => pc' \in {"stops"} \cup (IF interface = "gtk" THEN {"drains"} ELSE {"ready"})
  BY DEF Ends
<1> QED
  BY <1>1, <1>3, <1>4, <1>5, <1>6

(* A macro ends, goes on, or asks for a key.                               *)
EndsNow(p) ==
  \E outcome \in Endings :
    /\ Ends(outcome)
    /\ outcome = "interrupted" => p.result
    /\ outcome = "committed" => running.kind = "commits" /\ interface = "gtk"
    /\ outcome \in {"quit", "committed"} => running.kind \in Exiting
    /\ UNCHANGED reader
StillRuns ==
  /\ ~IsAsking
  /\ pc' \in {"step", "delays"}
  /\ UNCHANGED <<running, handled, error, reader>>
Answered ==
  /\ IsAsking /\ ~interactive
  /\ running' = [running EXCEPT !.kind = "plain"]
  /\ UNCHANGED <<pc, handled, error, reader>>
BeginsToAsk ==
  /\ IsAsking /\ interactive
  /\ reader' = "macro"
  /\ pc' = IF interface = "gtk" THEN "nested" ELSE "ready"
  /\ UNCHANGED <<running, handled, error>>

LEMMA StepCases ==
  ASSUME TypeOK, NEW p \in Polls, Step(p)
  PROVE  /\ pc = "step"
         /\ EndsNow(p) \/ StillRuns \/ Answered \/ BeginsToAsk
         /\ queue' = p.queue /\ terminal' = p.terminal
         /\ eaten' = eaten \cup p.caught
         /\ wanted' = (wanted \/ p.caught # {})
         /\ interrupted' = IF pc' = "drains" THEN FALSE ELSE p.flag
         /\ UNCHANGED <<backend, interface, interactive, typed, keybuf, held, signals, undo>>
<1> USE DEF Endings, Rejecting
<1>1. /\ pc = "step"
      /\ queue' = p.queue /\ terminal' = p.terminal
      /\ eaten' = eaten \cup p.caught
      /\ wanted' = (wanted \/ p.caught # {})
      /\ interrupted' = IF pc' = "drains" THEN FALSE ELSE p.flag
      /\ UNCHANGED <<backend, interface, interactive, typed, keybuf, held, signals, undo>>
  BY DEF Step, Polled
<1>2. CASE p.result \/ Exceeded(0)
  <2> DEFINE outcome == IF p.result THEN "interrupted" ELSE "memory"
  <2>1. Ends(outcome) /\ UNCHANGED reader
    BY <1>2 DEF Step
  <2>2. outcome \in Endings /\ (outcome = "interrupted" => p.result)
        /\ outcome \notin {"quit", "committed"}
    OBVIOUS
  <2> QED
    BY <1>1, <2>1, <2>2 DEF EndsNow
<1>3. CASE Finishes
  <2> DEFINE outcome == CASE running.kind = "fails" -> "failed"
                          [] running.kind \in {"exits", "commits"} -> EndOfProgram
                          [] OTHER -> "done"
  <2>1. Ends(outcome) /\ UNCHANGED reader
    BY <1>3 DEF Finishes
  <2>2. /\ outcome \in Endings /\ outcome # "interrupted"
        /\ outcome = "committed" => running.kind = "commits" /\ interface = "gtk"
        /\ outcome \in {"quit", "committed"} => running.kind \in Exiting
    BY DEF EndOfProgram, Exiting
  <2> QED
    BY <1>1, <2>1, <2>2 DEF EndsNow
<1>4. CASE Sets
  BY <1>1, <1>4 DEF Sets, EndsNow
<1>5. CASE RubsOut
  BY <1>1, <1>5 DEF RubsOut, EndsNow
<1>6. CASE GoesOn
  BY <1>1, <1>6 DEF GoesOn, StillRuns, IsAsking
<1>7. CASE Asks
  BY <1>1, <1>7 DEF Asks, NestsMainLoop, BeginsToAsk
<1>8. CASE AsksStdin
  BY <1>1, <1>8 DEF AsksStdin, Answered
<1> QED
  BY <1>1, <1>2, <1>3, <1>4, <1>5, <1>6, <1>7, <1>8 DEF Step

LEMMA StepLimits ==
  ASSUME TypeOK, NEW p \in Polls, Step(p)
  PROVE  /\ limit' \in Nat
         /\ state' \in {"on", "off", "shutdown"}
         /\ thread' \in {"none", "locking", "polling", "waiting", "gone"}
         /\ memory' \in Nat /\ usage' \in Nat /\ backend' = backend
         /\ levels' \in Seq(Nat) /\ exit' \in BOOLEAN
<1> USE DEF TypeOK, LimiterTypeOK, LoopTypeOK
<1>0. wanted' \in BOOLEAN
  BY DEF Step, Polled
<1>1. backend' = backend
  BY DEF Step
<1>2. CASE p.result \/ Exceeded(0)
  <2>1. PICK outcome \in {"interrupted", "memory"} : Ends(outcome)
    BY <1>2 DEF Step
  <2>2. memory' \in Nat /\ usage' \in Nat
    BY <1>0, <2>1, EndsTypes DEF Endings, Rejecting
  <2> QED
    BY <1>1, <1>2, <2>2 DEF Step
<1>3. CASE Finishes
  <2>1. PICK outcome \in Endings : Ends(outcome)
    BY <1>3 DEF Finishes, EndOfProgram, Endings, Rejecting
  <2>2. memory' \in Nat /\ usage' \in Nat
    BY <1>0, <2>1, EndsTypes
  <2>3. levels' \in Seq(Nat) /\ exit' \in BOOLEAN
    BY <1>3 DEF Finishes
  <2> QED
    BY <1>1, <1>3, <2>2, <2>3 DEF Finishes
<1>4. CASE Sets
  <2> DEFINE new == IF running.kind = "limits" THEN LowLimit ELSE 0
  <2>0. new \in Nat
    BY EventLoopAssumption
  <2>1. PICK outcome \in {"failed", "done"} : Ends(outcome)
    <3>1. Ends("failed") \/ Ends("done")
      BY <1>4 DEF Sets
    <3> QED
      BY <3>1
  <2>2. memory' \in Nat /\ usage' \in Nat
    BY <1>0, <2>1, EndsTypes DEF Endings, Rejecting
  <2>3. levels' \in Seq(Nat) /\ exit' = exit
    <3>1. exit' = exit /\ (UNCHANGED levels \/ levels' = Append(levels, limit))
      BY <1>4 DEF Sets
    <3>2. Append(levels, limit) \in Seq(Nat)
      OBVIOUS
    <3> QED
      BY <3>1, <3>2
  <2>4. \/ UNCHANGED <<limit, state, thread>>
        \/ SetLimit(new)
    BY <1>4 DEF Sets
  <2>5. /\ limit' \in Nat /\ state' \in {"on", "off", "shutdown"}
        /\ thread' \in {"none", "locking", "polling", "waiting", "gone"}
    BY <2>0, <2>4 DEF SetLimit, StopLimiting, StartLimitingWith, Signalled
  <2> QED
    BY <1>1, <2>2, <2>3, <2>5
<1>5. CASE RubsOut
  <2>1. Ends("done")
    BY <1>5 DEF RubsOut
  <2>2. memory' \in Nat /\ usage' \in Nat
    BY <1>0, <2>1, EndsTypes DEF Endings
  <2>3. levels' \in Seq(Nat) /\ limit' \in Nat
    <3>1. CASE levels = <<>>
      BY <1>5, <3>1 DEF RubsOut
    <3>2. CASE levels # <<>>
      <4>1. levels[Len(levels)] \in Nat
        BY <3>2
      <4>2. Front(levels) \in Seq(Nat) /\ Last(levels) \in Nat
        BY <3>2, <4>1, FrontProps DEF Last
      <4> QED
        BY <1>5, <3>2, <4>2 DEF RubsOut
    <3> QED
      BY <3>1, <3>2
  <2> QED
    BY <1>1, <1>5, <2>2, <2>3 DEF RubsOut
<1>6. CASE GoesOn
  BY <1>1, <1>6 DEF GoesOn, Allocate
<1>7. CASE Asks
  BY <1>1, <1>7 DEF Asks
<1>8. CASE AsksStdin
  BY <1>1, <1>8 DEF AsksStdin
<1> QED
  BY <1>2, <1>3, <1>4, <1>5, <1>6, <1>7, <1>8 DEF Step

LEMMA StepTypes ==
  ASSUME TypeOK, Control, Places, NEW p \in Polls, Step(p), UNCHANGED mainVars
  PROVE  TypeOK' /\ Control' /\ Places'
<1>1. /\ limit' \in Nat /\ state' \in {"on", "off", "shutdown"}
      /\ thread' \in {"none", "locking", "polling", "waiting", "gone"}
      /\ memory' \in Nat /\ usage' \in Nat /\ backend' = backend
      /\ levels' \in Seq(Nat) /\ exit' \in BOOLEAN
  BY StepLimits
<1>2. /\ pc = "step"
      /\ queue' = p.queue /\ terminal' = p.terminal
      /\ wanted' = (wanted \/ p.caught # {})
      /\ interrupted' = IF pc' = "drains" THEN FALSE ELSE p.flag
      /\ UNCHANGED <<backend, interface, interactive, typed, keybuf, held, signals, undo>>
  BY StepCases
<1>3. /\ p.queue \in Seq(Numbers) /\ p.terminal \in Seq(Numbers)
      /\ p.flag \in BOOLEAN
      /\ interface = "tty" \/ ~interactive => p.queue = queue /\ p.terminal = terminal
  BY PollTypes DEF NoPoll, Poll
<1>4. LimiterTypeOK'
  BY <1>1, <1>2 DEF TypeOK, LimiterTypeOK
<1>5. ASSUME /\ running' \in Macros /\ reader' \in {"loop", "macro"}
             /\ pc' \in {"main", "step", "delays", "nested", "ready", "stops", "drains"}
             /\ error' \in Rejecting \cup {"none", "quit", "input", "argument", "screen", "output"}
             /\ handled' \in Seq(Entered)
      PROVE  TypeOK'
  <2>1. wanted' \in BOOLEAN /\ interrupted' \in BOOLEAN
    BY <1>2, <1>3
  <2>2. LoopTypeOK'
    BY <1>1, <1>2, <1>3, <1>5, <2>1 DEF TypeOK, LoopTypeOK
  <2> QED
    BY <1>2, <1>4, <2>2 DEF TypeOK, mainVars
<1>6. CASE EndsNow(p)
  <2>1. PICK outcome \in Endings : Ends(outcome) /\ UNCHANGED reader
    BY <1>6 DEF EndsNow
  <2>2. /\ running' = Nobody /\ running' \in Macros
        /\ handled' \in Seq(Entered)
        /\ error' \in Rejecting \cup {"none", "quit", "input", "argument", "screen", "output"}
        /\ ~interactive => pc' = "main"
        /\ interactive => pc' \in {"stops"} \cup (IF interface = "gtk" THEN {"drains"} ELSE {"ready"})
    BY <1>2, <2>1, EndsTypes
  <2>3. reader = "loop" /\ reader' = "loop"
    BY <1>2, <2>1 DEF Control, TypeOK, LoopTypeOK
  <2>4. running'.kind = "nobody"
    BY <2>2 DEF Nobody
  <2>5. ~undo => handled' = handled
    BY <2>1 DEF Ends
  <2>t. TypeOK'
    BY <1>5, <2>2, <2>3
  <2>c. Control'
    BY <1>2, <2>2, <2>3, <2>4 DEF Control, Executing, MacroPhases, mainVars
  <2>p. Places'
    BY <1>2, <1>3, <2>2, <2>4, <2>5 DEF Places, Control, Before, MacroPhases, mainVars
  <2> QED
    BY <2>t, <2>c, <2>p
<1>7. CASE StillRuns
  <2> USE <1>7 DEF StillRuns
  <2>t. TypeOK'
    BY <1>5 DEF TypeOK, LoopTypeOK
  <2>c. Control'
    BY <1>2 DEF Control, Executing, MacroPhases, mainVars
  <2>p. Places'
    BY <1>2, <1>3 DEF Places, Control, Before, MacroPhases, mainVars
  <2> QED
    BY <2>t, <2>c, <2>p
<1>8. CASE Answered
  <2> USE <1>8 DEF Answered
  <2>1. running' \in Macros /\ running'.kind = "plain"
    BY DEF TypeOK, LoopTypeOK, Macros, Kinds, KeyKinds, MacroKinds
  <2>t. TypeOK'
    BY <1>2, <1>5, <2>1 DEF TypeOK, LoopTypeOK
  <2>c. Control'
    BY <1>2, <2>1 DEF IsAsking, Control, Executing, MacroPhases, mainVars
  <2>p. Places'
    BY <1>2, <1>3, <2>1 DEF Places, Control, Before, MacroPhases, Executing, mainVars
  <2> QED
    BY <2>t, <2>c, <2>p
<1>9. CASE BeginsToAsk
  <2> USE <1>9 DEF BeginsToAsk, IsAsking
  <2>t. TypeOK'
    BY <1>2, <1>5 DEF TypeOK, LoopTypeOK
  <2>c. Control'
    BY <1>2 DEF Control, Executing, MacroPhases, mainVars
  <2>p. Places'
    BY <1>2, <1>3 DEF Places, Control, Before, MacroPhases, mainVars
  <2> QED
    BY <2>t, <2>c, <2>p
<1> QED
  BY <1>6, <1>7, <1>8, <1>9, StepCases

(* What becomes of a key that is read for a command that asks: it is the   *)
(* answer, or the last byte of it, it begins a character, or the bytes are *)
(* lost, with or without an answer to the command.                         *)
Completes(key) == Len(keybuf) = 1 /\ typed[keybuf[1]] = "lead" /\ typed[key] = "cont"
AnswersOf(key) ==
  \/ /\ keybuf = <<>> /\ AnswersWith(<<key>>, "answer")
     /\ typed[key] \in {"lead", "cont"} => running.kind = "asksByte"
  \/ Completes(key) /\ AnswersWith(Append(keybuf, key), "answer")
  \/ /\ keybuf = <<>> /\ typed[key] = "lead" /\ running.kind = "asks"
     /\ AsksAgain(<<key>>) /\ UNCHANGED handled
  \/ ~Completes(key) /\ keybuf # <<>> /\ AnswersWith(Append(keybuf, key), "invalid")
  \/ /\ ~Completes(key) /\ (keybuf # <<>> \/ typed[key] = "cont")
     /\ AsksAgain(<<>>) /\ handled' = Append(handled, Entry(Append(keybuf, key), "invalid"))
(* And for the event loop: it begins a character, it starts a macro, or it *)
(* does nothing of this.                                                   *)
Collects(key) ==
  /\ keybuf = <<>> /\ typed[key] = "lead"
  /\ keybuf' = <<key>>
  /\ pc' = "ready"
  /\ UNCHANGED <<running, wanted, error, handled>>
(* The keys of what is executed: one, or the bytes of a character.         *)
StartsBy(keys, key) ==
  /\ handled' = Append(handled, Entry(keys, "running"))
  /\ \E kind \in KeyKinds :
       /\ Starts(kind, Len(handled) + 1)
       /\ kind \notin {"lead", "cont", "^C", "^D"}
       /\ kind = "plain" \/ kind = typed[key]
  /\ keybuf' = <<>>
  /\ UNCHANGED error
Rejects(keys) ==
  /\ handled' = Append(handled, Entry(keys, "invalid"))
  /\ keybuf' = <<>>
  /\ pc' = "ready"
  /\ UNCHANGED <<running, wanted, error>>
IgnoresKey(key, next) ==
  /\ typed[key] = "function"
  /\ handled' = Append(handled, Entry(<<key>>, "ignored"))
  /\ pc' = next
  /\ UNCHANGED <<keybuf, running, wanted, error>>
ClosesBy(key) ==
  /\ typed[key] = "close"
  /\ handled' = Append(handled, Entry(<<key>>, "quit"))
  /\ error' = "quit" /\ pc' = "stops"
  /\ UNCHANGED <<keybuf, running, wanted>>

(* The kinds of the bytes collected so far.                                *)
KindsOf(bytes) == [i \in DOMAIN bytes |-> typed[bytes[i]]]

LEMMA KindsOfBytes ==
  ASSUME TypeOK, NEW key \in Keys
  PROVE  /\ KindsOf(Append(keybuf, key)) = <<"lead">> <=> keybuf = <<>> /\ typed[key] = "lead"
         /\ KindsOf(Append(keybuf, key)) = <<"cont">> <=> keybuf = <<>> /\ typed[key] = "cont"
         /\ KindsOf(Append(keybuf, key)) = <<"lead", "cont">> <=> Completes(key)
         /\ keybuf \in Seq(Numbers) /\ key \in Numbers /\ typed[key] \in KeyKinds
         /\ keybuf = <<>> <=> Len(keybuf) = 0
<1> DEFINE bytes == Append(keybuf, key)
           kinds == [i \in DOMAIN bytes |-> typed[bytes[i]]]
<1>0. /\ keybuf \in Seq(Numbers) /\ key \in Numbers /\ typed \in Seq(KeyKinds)
      /\ typed[key] \in KeyKinds
  BY DEF TypeOK, LoopTypeOK, Keys, Numbers
<1>1. /\ bytes \in Seq(Numbers) /\ Len(bytes) = Len(keybuf) + 1
      /\ \A i \in 1 .. Len(keybuf) : bytes[i] = keybuf[i]
      /\ bytes[Len(keybuf) + 1] = key
      /\ Len(keybuf) \in Nat /\ (keybuf = <<>> <=> Len(keybuf) = 0)
  BY <1>0
<1>2. kinds = <<"lead">> <=> keybuf = <<>> /\ typed[key] = "lead"
  BY <1>0, <1>1
<1>3. kinds = <<"cont">> <=> keybuf = <<>> /\ typed[key] = "cont"
  BY <1>0, <1>1
<1>4. kinds = <<"lead", "cont">> <=> Len(keybuf) = 1 /\ typed[keybuf[1]] = "lead" /\ typed[key] = "cont"
  <2> DEFINE T == {typed[bytes[i]] : i \in 1 .. Len(bytes)} \cup {"lead", "cont"}
  <2>1. /\ kinds \in Seq(T)
        /\ Len(kinds) = Len(keybuf) + 1
        /\ \A i \in 1 .. Len(keybuf) : kinds[i] = typed[keybuf[i]]
        /\ kinds[Len(keybuf) + 1] = typed[key]
    BY <1>0, <1>1
  <2>2. <<"lead", "cont">> \in Seq(T)
    OBVIOUS
  <2> HIDE DEF kinds, T
  <2>3. CASE Len(keybuf) = 1
    <3>1. Len(kinds) = 2 /\ kinds[1] = typed[keybuf[1]] /\ kinds[2] = typed[key]
      BY <2>1, <2>3
    <3>2. ASSUME kinds[1] = "lead", kinds[2] = "cont"
          PROVE  kinds = <<"lead", "cont">>
      <4>1. \A i \in 1 .. Len(kinds) : kinds[i] = <<"lead", "cont">>[i]
        BY <3>1, <3>2
      <4> QED
        BY <2>1, <2>2, <3>1, <4>1, SeqEqual
    <3> QED
      BY <2>3, <3>1, <3>2
  <2>4. CASE Len(keybuf) # 1
    <3>1. Len(<<"lead", "cont">>) = 2
      OBVIOUS
    <3>2. Len(kinds) # 2
      <4>1. Len(keybuf) \in Nat
        BY <1>1
      <4>2. Len(kinds) = Len(keybuf) + 1
        BY <2>1
      <4> DEFINE m == Len(keybuf)
                 n == Len(kinds)
      <4>3. m \in Nat /\ n = m + 1 /\ m # 1
        BY <2>4, <4>1, <4>2
      <4> HIDE DEF m, n
      <4>4. n # 2
        BY <4>3
      <4> QED
        BY <4>4 DEF n
    <3>3. kinds # <<"lead", "cont">>
      BY <3>1, <3>2
    <3> QED
      BY <2>4, <3>3
  <2> QED
    BY <2>3, <2>4
<1> QED
  BY <1>0, <1>1, <1>2, <1>3, <1>4 DEF KindsOf, Completes

LEMMA KeyCases ==
  ASSUME TypeOK, NEW key \in Keys, NEW flag, reader = "loop", Read(key, flag)
  PROVE  /\ interrupted' = flag /\ reader' = reader
         /\ \/ Collects(key)
            \/ keybuf = <<>> /\ typed[key] \notin {"lead", "cont"} /\ StartsBy(<<key>>, key)
            \/ Completes(key) /\ StartsBy(Append(keybuf, key), key)
            \/ /\ ~Completes(key) /\ (keybuf # <<>> \/ typed[key] = "cont")
               /\ Rejects(Append(keybuf, key))
            \/ IgnoresKey(key, "ready") \/ ClosesBy(key)
<1> DEFINE bytes == Append(keybuf, key)
           kinds == KindsOf(bytes)
<1>1. /\ kinds = <<"lead">> <=> keybuf = <<>> /\ typed[key] = "lead"
      /\ kinds = <<"cont">> <=> keybuf = <<>> /\ typed[key] = "cont"
      /\ kinds = <<"lead", "cont">> <=> Completes(key)
      /\ keybuf \in Seq(Numbers) /\ key \in Numbers /\ typed[key] \in KeyKinds
      /\ keybuf = <<>> => ~Completes(key)
  BY KindsOfBytes DEF Completes
<1>2. /\ interrupted' = flag /\ reader' = reader
      /\ IF IsFunctionKey(key) THEN KeyMacro(key, "ready") /\ UNCHANGED keybuf ELSE Byte(key)
  BY DEF Read, Key
<1>3. keybuf = <<>> => bytes = <<key>>
  BY <1>1
<1>4. "plain" \in KeyKinds
  BY DEF KeyKinds, MacroKinds
<1>5. CASE IsFunctionKey(key)
  BY <1>2, <1>5 DEF IsFunctionKey, KeyMacro, Closes, Ignored, IgnoresKey, ClosesBy
<1>6. CASE ~IsFunctionKey(key)
  <2>1. CASE kinds = <<"lead">>
    <3>1. keybuf' = bytes /\ pc' = "ready" /\ UNCHANGED <<running, wanted, error, handled>>
      BY <1>2, <1>6, <2>1 DEF Byte, KindsOf
    <3> QED
      BY <1>1, <1>2, <1>3, <2>1, <3>1 DEF Collects
  <2>2. CASE Completes(key)
    <3>1. keybuf' = <<>> /\ StartsKey(bytes, "plain")
      BY <1>1, <1>2, <1>6, <2>2 DEF Byte, KindsOf
    <3> QED
      BY <1>2, <1>4, <2>2, <3>1 DEF StartsKey, StartsBy
  <2>3. CASE keybuf = <<>> /\ typed[key] \notin {"lead", "cont"}
    <3>1. keybuf' = <<>> /\ StartsKey(bytes, typed[key])
      BY <1>1, <1>2, <1>6, <2>3 DEF Byte, KindsOf
    <3>2. StartsBy(<<key>>, key)
      BY <1>1, <1>3, <1>4, <2>3, <3>1 DEF StartsKey, StartsBy
    <3> QED
      BY <1>2, <2>3, <3>2
  <2>4. CASE ~Completes(key) /\ (keybuf # <<>> \/ typed[key] = "cont")
    <3>1. keybuf' = <<>> /\ Ignored(bytes, "invalid", "ready")
      BY <1>1, <1>2, <1>6, <2>4 DEF Byte, KindsOf
    <3> QED
      BY <1>2, <2>4, <3>1 DEF Ignored, Rejects
  <2> QED
    BY <1>1, <2>1, <2>2, <2>3, <2>4
<1> QED
  BY <1>5, <1>6

LEMMA AnswerCases ==
  ASSUME TypeOK, Control, Places, NEW key \in Keys, NEW flag, reader = "macro", Answer(key, flag)
  PROVE  /\ AnswersOf(key)
         /\ interrupted' = (flag \/ IsInterrupt(key)) /\ wanted' = (wanted \/ IsInterrupt(key))
         /\ error' = error
<1> DEFINE bytes == Append(keybuf, key)
           kinds == KindsOf(bytes)
<1>1. /\ kinds = <<"lead">> <=> keybuf = <<>> /\ typed[key] = "lead"
      /\ kinds = <<"cont">> <=> keybuf = <<>> /\ typed[key] = "cont"
      /\ kinds = <<"lead", "cont">> <=> Completes(key)
      /\ keybuf \in Seq(Numbers) /\ key \in Numbers
      /\ keybuf = <<>> => ~Completes(key)
  BY KindsOfBytes DEF Completes
<1>2. /\ interrupted' = (flag \/ IsInterrupt(key)) /\ wanted' = (wanted \/ IsInterrupt(key))
      /\ error' = error
  BY DEF Answer
<1>3. keybuf = <<>> => bytes = <<key>>
  BY <1>1
<1>4. IsAsking /\ (keybuf # <<>> => running.kind = "asks")
  BY DEF Control, Places, Executing, TypeOK, LoopTypeOK, IsAsking
<1>5. CASE running.kind = "asksByte" \/ GivesUp(key)
  <2>1. AnswersWith(bytes, IF keybuf = <<>> THEN "answer" ELSE "invalid")
    BY <1>5 DEF Answer
  <2>2. GivesUp(key) => typed[key] \notin {"lead", "cont"}
    BY DEF GivesUp, IsFunctionKey
  <2>3. CASE keybuf = <<>>
    BY <1>2, <1>3, <1>5, <2>1, <2>2, <2>3 DEF AnswersOf
  <2>4. CASE keybuf # <<>>
    <3>1. ~Completes(key)
      BY <1>4, <1>5, <2>2, <2>4 DEF Completes
    <3> QED
      BY <1>2, <2>1, <2>4, <3>1 DEF AnswersOf
  <2> QED
    BY <2>3, <2>4
<1>6. CASE ~(running.kind = "asksByte" \/ GivesUp(key))
  <2>0. AnswerByte(key) /\ running.kind = "asks"
    BY <1>4, <1>6 DEF Answer, IsAsking
  <2>1. CASE kinds = <<"lead">>
    <3>1. AsksAgain(bytes) /\ UNCHANGED handled
      BY <2>0, <2>1 DEF AnswerByte, KindsOf
    <3> QED
      BY <1>1, <1>2, <1>3, <2>0, <2>1, <3>1 DEF AnswersOf
  <2>2. CASE Completes(key)
    <3>1. AnswersWith(bytes, "answer")
      BY <1>1, <2>0, <2>2 DEF AnswerByte, KindsOf
    <3> QED
      BY <1>2, <2>2, <3>1 DEF AnswersOf
  <2>3. CASE keybuf = <<>> /\ typed[key] \notin {"lead", "cont"}
    <3>1. AnswersWith(bytes, "answer")
      BY <1>1, <2>0, <2>3 DEF AnswerByte, KindsOf
    <3> QED
      BY <1>2, <1>3, <2>3, <3>1 DEF AnswersOf
  <2>4. CASE ~Completes(key) /\ (keybuf # <<>> \/ typed[key] = "cont")
    <3>1. AsksAgain(<<>>) /\ handled' = Append(handled, Entry(bytes, "invalid"))
      BY <1>1, <2>0, <2>4 DEF AnswerByte, KindsOf
    <3> QED
      BY <1>2, <2>4, <3>1 DEF AnswersOf
  <2> QED
    BY <1>1, <2>1, <2>2, <2>3, <2>4
<1> QED
  BY <1>5, <1>6

LEMMA AppendEntry ==
  ASSUME TypeOK, NEW keys \in Seq(Numbers), NEW outcome \in Outcomes
  PROVE  Append(handled, Entry(keys, outcome)) \in Seq(Entered)
<1>1. handled \in Seq(Entered) /\ Entry(keys, outcome) \in Entered
  BY EntryType DEF TypeOK, LoopTypeOK
<1> QED
  BY <1>1

(* What reading a key leaves behind.                                       *)
LEMMA ReadTypes ==
  ASSUME TypeOK, Control, Places, NEW key \in Keys, NEW flag \in BOOLEAN, Read(key, flag)
  PROVE  /\ running' \in Macros /\ reader' \in {"loop", "macro"}
         /\ handled' \in Seq(Entered) /\ keybuf' \in Seq(Numbers)
         /\ wanted' \in BOOLEAN /\ interrupted' \in BOOLEAN
         /\ error' \in Rejecting \cup {"none", "quit", "input", "argument", "screen", "output"}
         /\ pc' \in {"step", "ready", "stops"}
         /\ pc' = "step" => running'.kind # "nobody" /\ keybuf' = <<>> /\ reader' = "loop"
         /\ pc' # "step" => running' = running /\ reader' = reader
         /\ reader = "macro" => pc' # "stops" /\ (keybuf' # <<>> => running.kind = "asks")
         /\ reader = "macro" /\ keybuf = <<>> /\ typed[key] \notin {"lead", "cont"} => pc' = "step"
<1> USE DEF Outcomes, Rejecting
<1>0. key \in Numbers /\ <<key>> \in Seq(Numbers) /\ keybuf \in Seq(Numbers)
      /\ Append(keybuf, key) \in Seq(Numbers)
  BY DEF TypeOK, LoopTypeOK, Keys, Numbers
<1>1. CASE reader = "macro"
  <2>1. /\ AnswersOf(key)
        /\ wanted' \in BOOLEAN /\ interrupted' \in BOOLEAN /\ error' = error
    BY <1>1, AnswerCases DEF Read, TypeOK, LoopTypeOK, IsInterrupt
  <2>2. /\ running \in Macros /\ handled \in Seq(Entered)
        /\ error' \in Rejecting \cup {"none", "quit", "input", "argument", "screen", "output"}
    BY <2>1 DEF TypeOK, LoopTypeOK
  <2>3. ASSUME NEW keys \in Seq(Numbers), NEW outcome \in {"answer", "invalid"}, AnswersWith(keys, outcome)
        PROVE  /\ running' \in Macros /\ running'.kind = "plain" /\ handled' \in Seq(Entered)
               /\ reader' = "loop" /\ pc' = "step" /\ keybuf' = <<>>
    <3>1. handled' \in Seq(Entered)
      BY <2>3, AppendEntry DEF AnswersWith
    <3>2. running' \in Macros /\ running'.kind = "plain"
      BY <2>2, <2>3 DEF AnswersWith, Macros, Kinds, KeyKinds, MacroKinds
    <3> QED
      BY <2>3, <3>1, <3>2 DEF AnswersWith
  <2>4. CASE \E keys \in Seq(Numbers), outcome \in {"answer", "invalid"} : AnswersWith(keys, outcome)
    <3>1. /\ running' \in Macros /\ running'.kind = "plain" /\ handled' \in Seq(Entered)
          /\ reader' = "loop" /\ pc' = "step" /\ keybuf' = <<>>
      BY <2>3, <2>4
    <3>2. keybuf' \in Seq(Numbers)
      BY <3>1
    <3> QED
      BY <1>1, <2>1, <2>2, <3>1, <3>2
  <2>5. CASE /\ keybuf = <<>> /\ typed[key] = "lead" /\ running.kind = "asks"
             /\ AsksAgain(<<key>>) /\ UNCHANGED handled
    BY <1>0, <1>1, <2>1, <2>2, <2>5 DEF AsksAgain
  <2>6. CASE /\ ~Completes(key) /\ (keybuf # <<>> \/ typed[key] = "cont")
             /\ AsksAgain(<<>>) /\ handled' = Append(handled, Entry(Append(keybuf, key), "invalid"))
    <3>1. handled' \in Seq(Entered)
      BY <1>0, <2>6, AppendEntry
    <3> QED
      BY <1>0, <1>1, <2>1, <2>2, <2>6, <3>1 DEF AsksAgain
  <2> QED
    BY <1>0, <2>1, <2>4, <2>5, <2>6 DEF AnswersOf
<1>2. CASE reader = "loop"
  <2>1. interrupted' = flag /\ reader' = reader
    BY <1>2, KeyCases
  <2> USE DEF TypeOK, LoopTypeOK
  <2>2. CASE Collects(key)
    BY <1>0, <1>2, <2>1, <2>2 DEF Collects
  <2>3. ASSUME NEW keys \in Seq(Numbers), StartsBy(keys, key)
        PROVE  /\ running' \in Macros /\ handled' \in Seq(Entered) /\ keybuf' = <<>>
               /\ wanted' = FALSE /\ error' = error /\ pc' = "step" /\ running'.kind # "nobody"
    <3>1. PICK kind \in KeyKinds : Starts(kind, Len(handled) + 1)
      BY <2>3 DEF StartsBy
    <3>2. Len(handled) + 1 \in Nat
      OBVIOUS
    <3>3. /\ running' \in Macros /\ wanted' = FALSE /\ pc' = "step" /\ running'.kind # "nobody"
      BY <3>1, <3>2, StartsType
    <3>4. handled' \in Seq(Entered)
      BY <2>3, AppendEntry DEF StartsBy
    <3> QED
      BY <2>3, <3>3, <3>4 DEF StartsBy
  <2>4. CASE StartsBy(<<key>>, key) \/ StartsBy(Append(keybuf, key), key)
    <3>1. PICK keys \in {<<key>>, Append(keybuf, key)} : StartsBy(keys, key)
      BY <2>4
    <3>2. keys \in Seq(Numbers)
      BY <1>0
    <3>3. /\ running' \in Macros /\ handled' \in Seq(Entered) /\ keybuf' = <<>>
          /\ wanted' = FALSE /\ error' = error /\ pc' = "step" /\ running'.kind # "nobody"
      BY <2>3, <3>1, <3>2
    <3>4. keybuf' \in Seq(Numbers)
      BY <3>3
    <3>5. wanted' \in BOOLEAN /\ interrupted' \in BOOLEAN
      BY <2>1, <3>3
    <3> QED
      BY <1>2, <2>1, <3>3, <3>4, <3>5
  <2>5. CASE Rejects(Append(keybuf, key))
    <3>1. handled' \in Seq(Entered)
      BY <1>0, <2>5, AppendEntry DEF Rejects
    <3> QED
      BY <1>2, <2>1, <2>5, <3>1 DEF Rejects
  <2>6. CASE IgnoresKey(key, "ready")
    <3>1. handled' \in Seq(Entered)
      BY <1>0, <2>6, AppendEntry DEF IgnoresKey
    <3> QED
      BY <1>2, <2>1, <2>6, <3>1 DEF IgnoresKey
  <2>7. CASE ClosesBy(key)
    <3>1. handled' \in Seq(Entered)
      BY <1>0, <2>7, AppendEntry DEF ClosesBy
    <3> QED
      BY <1>2, <2>1, <2>7, <3>1 DEF ClosesBy
  <2> QED
    BY <1>2, <2>2, <2>4, <2>5, <2>6, <2>7, KeyCases
<1> QED
  BY <1>1, <1>2 DEF TypeOK, LoopTypeOK

LEMMA KeyPressTypes ==
  ASSUME TypeOK, NEW key \in Keys, KeyPress(key)
  PROVE  /\ running' \in Macros /\ handled' \in Seq(Entered) /\ wanted' \in BOOLEAN
         /\ error' \in Rejecting \cup {"none", "quit", "input", "argument", "screen", "output"}
         /\ pc' \in {"step", "drains", "stops"}
         /\ pc' = "step" => running'.kind # "nobody"
         /\ pc' # "step" => running' = running
<1> USE DEF Outcomes, Rejecting
<1>0. key \in Numbers /\ <<key>> \in Seq(Numbers) /\ typed[key] \in KeyKinds
  BY DEF TypeOK, LoopTypeOK, Keys, Numbers
<1>1. CASE IsFunctionKey(key)
  <2>1. PICK outcome \in {"quit", "ignored"} : handled' = Append(handled, Entry(<<key>>, outcome))
    BY <1>1 DEF KeyPress, KeyMacro, Closes, Ignored
  <2>2. handled' \in Seq(Entered)
    BY <1>0, <2>1, AppendEntry
  <2> QED
    BY <1>1, <2>2 DEF KeyPress, KeyMacro, Closes, Ignored, TypeOK, LoopTypeOK
<1>2. CASE ~IsFunctionKey(key)
  <2> DEFINE kind == IF typed[key] \in {"^C", "^D"} THEN "plain" ELSE typed[key]
  <2>1. /\ Starts(kind, Len(handled) + 1)
        /\ handled' = Append(handled, Entry(<<key>>, "running"))
        /\ error' = error
    BY <1>2 DEF KeyPress, StartsKey
  <2>2. kind \in KeyKinds /\ Len(handled) + 1 \in Nat
    BY <1>0 DEF KeyKinds, MacroKinds, TypeOK, LoopTypeOK
  <2>3. /\ running' \in Macros /\ wanted' = FALSE /\ pc' = "step" /\ running'.kind # "nobody"
    BY <2>1, <2>2, StartsType
  <2>4. handled' \in Seq(Entered)
    BY <1>0, <2>1, AppendEntry
  <2> QED
    BY <2>1, <2>3, <2>4 DEF TypeOK, LoopTypeOK
<1> QED
  BY <1>1, <1>2

(* The other steps of the event loop.                                      *)
LoopSteps == (\E p \in Polls : Delays(p)) \/ PopsKey \/ BeginsToWait \/ Fetches \/ Resets
               \/ ReceivesEvent \/ HandlesEvent \/ Drains \/ NestedEvent \/ Leaves

LEMMA LoopTypes ==
  ASSUME TypeOK, Control, Places, Lines, KindsTyped, LoopSteps, UNCHANGED mainVars
  PROVE  TypeOK' /\ Control' /\ Places'
<1> USE DEF limiterVars, mainVars, IsAsking
<1>1. ASSUME NEW p \in Polls, Delays(p) PROVE TypeOK' /\ Control' /\ Places'
  <2>1. /\ p.queue \in Seq(Numbers) /\ p.terminal \in Seq(Numbers)
        /\ p.flag \in BOOLEAN
        /\ interface = "tty" \/ ~interactive => p.queue = queue /\ p.terminal = terminal
    BY PollTypes DEF NoPoll, Poll
  <2> USE <1>1 DEF Delays, Polled
  <2>t. TypeOK'
    BY <2>1 DEF TypeOK, LimiterTypeOK, LoopTypeOK
  <2>c. Control'
    BY DEF Control, Executing, MacroPhases
  <2>p. Places'
    BY <2>1 DEF Places, Control, MacroPhases, Before
  <2> QED
    BY <2>t, <2>c, <2>p
<1>2. CASE PopsKey
  <2>1. Head(queue) \in Keys /\ Head(queue) \in Numbers /\ Tail(queue) \in Seq(Numbers)
    BY <1>2, NextKeys DEF PopsKey, Keys, Numbers, TypeOK, LoopTypeOK
  <2>3. Read(Head(queue), interrupted) /\ interrupted \in BOOLEAN
    BY <1>2 DEF PopsKey, TypeOK, LoopTypeOK
  <2>2. /\ running' \in Macros /\ reader' \in {"loop", "macro"}
        /\ handled' \in Seq(Entered) /\ keybuf' \in Seq(Numbers)
        /\ wanted' \in BOOLEAN /\ interrupted' \in BOOLEAN
        /\ error' \in Rejecting \cup {"none", "quit", "input", "argument", "screen", "output"}
        /\ pc' \in {"step", "ready", "stops"}
        /\ pc' = "step" => running'.kind # "nobody" /\ keybuf' = <<>> /\ reader' = "loop"
        /\ pc' # "step" => running' = running /\ reader' = reader
        /\ reader = "macro" => pc' # "stops" /\ (keybuf' # <<>> => running.kind = "asks")
    BY <2>1, <2>3, ReadTypes
  <2>4. pc = "ready" /\ interface # "gtk" /\ interactive /\ (reader = "loop" => running.kind = "nobody")
    BY <1>2 DEF PopsKey, Control, Executing, TypeOK, LoopTypeOK
  <2>5. reader = "macro" <=> running.kind # "nobody"
    BY <2>4 DEF Control, Executing, TypeOK, LoopTypeOK
  <2>6. /\ running'.kind = "nobody" <=> pc' # "step" /\ reader' = "loop"
        /\ reader' = "macro" => IsAsking' /\ pc' = "ready"
        /\ keybuf' # <<>> => running'.kind = "nobody" \/ (running'.kind = "asks" /\ reader' = "macro")
    BY <2>2, <2>4, <2>5 DEF Control, IsAsking, TypeOK, LoopTypeOK
  <2> USE <1>2 DEF PopsKey
  <2>t. TypeOK'
    BY <2>1, <2>2 DEF TypeOK, LimiterTypeOK, LoopTypeOK
  <2>c. Control'
    BY <2>2, <2>4, <2>6 DEF Control, Executing, MacroPhases
  <2>p. Places'
    BY <2>2, <2>4, <2>6 DEF Places, Control, MacroPhases, Before
  <2> QED
    BY <2>t, <2>c, <2>p
<1>3. CASE BeginsToWait
  <2> USE <1>3 DEF BeginsToWait, StopLimiting
  <2>t. TypeOK'
    BY DEF TypeOK, LimiterTypeOK, LoopTypeOK
  <2>c. Control'
    BY DEF Control, Executing, MacroPhases
  <2>p. Places'
    BY DEF Places, Control, MacroPhases, Before
  <2> QED
    BY <2>t, <2>c, <2>p
<1>4. CASE Fetches
  <2>1. Head(terminal) \in Numbers /\ Tail(terminal) \in Seq(Numbers)
    BY <1>4 DEF Fetches, TypeOK, LoopTypeOK
  <2>2. held' \in Nat /\ held' # 0 /\ terminal' \in Seq(Numbers)
    BY <1>4, <2>1 DEF Fetches, Numbers
  <2>3. /\ state' \in {"on", "off", "shutdown"}
        /\ thread' \in {"none", "locking", "polling", "waiting", "gone"}
    BY <1>4 DEF Fetches, StartLimiting, StartLimitingWith, Signalled, TypeOK, LimiterTypeOK
  <2> USE <1>4 DEF Fetches
  <2>t. TypeOK'
    BY <2>2, <2>3 DEF TypeOK, LimiterTypeOK, LoopTypeOK
  <2>c. Control'
    BY DEF Control, Executing, MacroPhases
  <2>p. Places'
    BY <2>2 DEF Places, Control, MacroPhases, Before
  <2> QED
    BY <2>t, <2>c, <2>p
<1>5. CASE Resets
  <2>1. held \in Keys
    BY <1>5, NextKeys DEF Resets, Places
  <2>3. Read(held, FALSE)
    BY <1>5 DEF Resets
  <2>2. /\ running' \in Macros /\ reader' \in {"loop", "macro"}
        /\ handled' \in Seq(Entered) /\ keybuf' \in Seq(Numbers)
        /\ wanted' \in BOOLEAN /\ interrupted' \in BOOLEAN
        /\ error' \in Rejecting \cup {"none", "quit", "input", "argument", "screen", "output"}
        /\ pc' \in {"step", "ready", "stops"}
        /\ pc' = "step" => running'.kind # "nobody" /\ keybuf' = <<>> /\ reader' = "loop"
        /\ pc' # "step" => running' = running /\ reader' = reader
        /\ reader = "macro" => pc' # "stops" /\ (keybuf' # <<>> => running.kind = "asks")
    BY <2>1, <2>3, ReadTypes
  <2>4. pc = "fetched" /\ interface # "gtk" /\ interactive /\ (reader = "loop" => running.kind = "nobody")
    BY <1>5 DEF Resets, Control, Executing, Places, TypeOK, LoopTypeOK
  <2>5. reader = "macro" <=> running.kind # "nobody"
    BY <2>4 DEF Control, Executing, TypeOK, LoopTypeOK
  <2>6. /\ running'.kind = "nobody" <=> pc' # "step" /\ reader' = "loop"
        /\ reader' = "macro" => IsAsking' /\ pc' = "ready"
        /\ keybuf' # <<>> => running'.kind = "nobody" \/ (running'.kind = "asks" /\ reader' = "macro")
    BY <2>2, <2>4, <2>5 DEF Control, IsAsking, TypeOK, LoopTypeOK
  <2> USE <1>5 DEF Resets
  <2>t. TypeOK'
    BY <2>2 DEF TypeOK, LimiterTypeOK, LoopTypeOK
  <2>c. Control'
    BY <2>2, <2>4, <2>6 DEF Control, Executing, MacroPhases
  <2>p. Places'
    BY <2>2, <2>4, <2>6 DEF Places, Control, MacroPhases, Before
  <2> QED
    BY <2>t, <2>c, <2>p
<1>6. CASE ReceivesEvent
  <2>1. Head(terminal) \in Numbers /\ Tail(terminal) \in Seq(Numbers)
    BY <1>6 DEF ReceivesEvent, TypeOK, LoopTypeOK
  <2>4. /\ Append(queue, Head(terminal)) \in Seq(Numbers)
        /\ Append(queue, Head(terminal)) # <<>>
    <3>1. queue \in Seq(Numbers)
      BY DEF TypeOK, LoopTypeOK
    <3> QED
      BY <2>1, <3>1, AppendProperties
  <2>2. queue' \in Seq(Numbers) /\ queue' # <<>> /\ terminal' \in Seq(Numbers)
    BY <1>6, <2>1, <2>4 DEF ReceivesEvent
  <2>3. /\ state' \in {"on", "off", "shutdown"}
        /\ thread' \in {"none", "locking", "polling", "waiting", "gone"}
    BY <1>6 DEF ReceivesEvent, StartLimiting, StartLimitingWith, Signalled, TypeOK, LimiterTypeOK
  <2> USE <1>6 DEF ReceivesEvent
  <2>t. TypeOK'
    BY <2>2, <2>3 DEF TypeOK, LimiterTypeOK, LoopTypeOK
  <2>c. Control'
    BY DEF Control, Executing, MacroPhases
  <2>p. Places'
    BY <2>2 DEF Places, Control, MacroPhases, Before
  <2> QED
    BY <2>t, <2>c, <2>p
<1>7. CASE HandlesEvent
  <2>0. pc = "ready" /\ interface = "gtk" /\ queue # <<>> /\ interactive /\ reader = "loop"
        /\ running.kind = "nobody"
    BY <1>7 DEF HandlesEvent, Places, Control, Executing, TypeOK, LoopTypeOK
  <2>1. Head(queue) \in Keys /\ Head(queue) \in Numbers /\ Tail(queue) \in Seq(Numbers)
    BY <2>0, NextKeys DEF Keys, Numbers, TypeOK, LoopTypeOK
  <2>2. KeyPress(Head(queue))
    BY <1>7 DEF HandlesEvent
  <2>3. /\ running' \in Macros /\ handled' \in Seq(Entered) /\ wanted' \in BOOLEAN
        /\ error' \in Rejecting \cup {"none", "quit", "input", "argument", "screen", "output"}
        /\ pc' \in {"step", "drains", "stops"}
        /\ pc' = "step" => running'.kind # "nobody"
        /\ pc' # "step" => running' = running
    BY <2>1, <2>2, KeyPressTypes
  <2> USE <1>7, <2>0 DEF HandlesEvent
  <2>t. TypeOK'
    BY <2>1, <2>3, ZenonT(60) DEF TypeOK, LimiterTypeOK, LoopTypeOK
  <2>c. Control'
    BY <2>3 DEF Control, Executing, MacroPhases
  <2>p. Places'
    BY <2>3 DEF Places, Control, MacroPhases, Before
  <2> QED
    BY <2>t, <2>c, <2>p
<1>8. CASE Drains
  <2>1. CASE terminal # <<>>
    <3>1. Head(terminal) \in Numbers /\ Tail(terminal) \in Seq(Numbers)
      BY <2>1 DEF TypeOK, LoopTypeOK
    <3>2. /\ queue' \in Seq(Numbers) /\ terminal' \in Seq(Numbers)
          /\ wanted' \in BOOLEAN /\ interrupted' \in BOOLEAN
          /\ UNCHANGED <<pc, state, thread>>
      <4>1. Append(queue, Head(terminal)) \in Seq(Numbers)
        BY <3>1 DEF TypeOK, LoopTypeOK
      <4>2. /\ Polled(PollEvent) /\ interrupted' = PollEvent.flag
            /\ UNCHANGED <<pc, state, thread>>
        BY <1>8, <2>1 DEF Drains
      <4> QED
        BY <3>1, <4>1, <4>2 DEF PollEvent, Poll, Polled, TypeOK, LoopTypeOK
    <3>3. interface = "gtk" /\ pc = "drains"
      BY <1>8 DEF Drains, Places
    <3>t. TypeOK'
      BY <1>8, <3>2 DEF Drains, TypeOK, LimiterTypeOK, LoopTypeOK
    <3>c. Control'
      BY <1>8, <3>2 DEF Drains, Control, Executing, MacroPhases
    <3>p. Places'
      BY <1>8, <3>2, <3>3 DEF Drains, Places, Control, MacroPhases, Before
    <3> QED
      BY <3>t, <3>c, <3>p
  <2>2. CASE terminal = <<>>
    <3> USE <1>8, <2>2 DEF Drains, StopLimiting
    <3>1. interface = "gtk" /\ interactive /\ reader = "loop" /\ running.kind = "nobody"
      BY DEF Places, Control, Executing, TypeOK, LoopTypeOK
    <3>t. TypeOK'
      BY DEF TypeOK, LimiterTypeOK, LoopTypeOK
    <3>c. Control'
      BY <3>1 DEF Control, Executing, MacroPhases
    <3>p. Places'
      BY <3>1 DEF Places, Control, MacroPhases, Before
    <3> QED
      BY <3>t, <3>c, <3>p
  <2> QED
    BY <2>1, <2>2
<1>9. CASE NestedEvent
  <2>0. pc = "nested" /\ interface = "gtk" /\ interactive /\ reader = "macro" /\ keybuf = <<>> /\ terminal # <<>>
    BY <1>9 DEF NestedEvent, Places, Control
  <2>1. Head(terminal) \in Keys /\ Head(terminal) \in Numbers /\ Tail(terminal) \in Seq(Numbers)
    BY <2>0, NextKeys DEF Keys, Numbers, TypeOK, LoopTypeOK
  <2>2. CASE typed[Head(terminal)] = "function"
    <3>1. Ignored(<<Head(terminal)>>, "ignored", "nested") /\ UNCHANGED <<interrupted, reader, keybuf>>
      BY <1>9, <2>2 DEF NestedEvent
    <3>2. handled' \in Seq(Entered)
      <4>1. <<Head(terminal)>> \in Seq(Numbers) /\ "ignored" \in Outcomes
        BY <2>1 DEF Outcomes
      <4> QED
        BY <3>1, <4>1, AppendEntry DEF Ignored
    <3>3. terminal' \in Seq(Numbers)
      BY <1>9, <2>1 DEF NestedEvent
    <3> USE <1>9, <3>1 DEF NestedEvent, Ignored
    <3>t. TypeOK'
      BY <3>2, <3>3 DEF TypeOK, LimiterTypeOK, LoopTypeOK
    <3>c. Control'
      BY <2>0 DEF Control, Executing, MacroPhases, IsAsking
    <3>p. Places'
      BY <2>0 DEF Places, Control, MacroPhases, Before
    <3> QED
      BY <3>t, <3>c, <3>p
  <2>3. CASE typed[Head(terminal)] \notin {"function", "close"}
    <3>1. Read(Head(terminal), interrupted) /\ interrupted \in BOOLEAN
      BY <1>9, <2>0, <2>3 DEF NestedEvent, Read, TypeOK, LoopTypeOK
    <3>4. typed[Head(terminal)] \notin {"lead", "cont"}
      BY <2>0, <2>1, ScenarioTypes DEF KindsTyped, TypeOK
    <3>2. /\ running' \in Macros /\ reader' = "loop"
          /\ handled' \in Seq(Entered) /\ keybuf' = <<>>
          /\ wanted' \in BOOLEAN /\ interrupted' \in BOOLEAN
          /\ error' \in Rejecting \cup {"none", "quit", "input", "argument", "screen", "output"}
          /\ running'.kind # "nobody" /\ pc' = "step" /\ UNCHANGED queue
      BY <1>9, <2>0, <2>1, <2>3, <3>1, <3>4, ReadTypes DEF NestedEvent
    <3>3. terminal' \in Seq(Numbers)
      BY <1>9, <2>1 DEF NestedEvent
    <3> USE <1>9 DEF NestedEvent
    <3>t. TypeOK'
      BY <3>2, <3>3 DEF TypeOK, LimiterTypeOK, LoopTypeOK
    <3>c. Control'
      BY <2>0, <3>2 DEF Control, Executing, MacroPhases
    <3>p. Places'
      BY <2>0, <3>2 DEF Places, Control, MacroPhases, Before
    <3> QED
      BY <3>t, <3>c, <3>p
  <2>4. CASE typed[Head(terminal)] = "close"
    <3>1. /\ queue' = Append(queue, Head(terminal)) /\ terminal' = Tail(terminal)
          /\ UNCHANGED <<pc, running, wanted, error, handled, interrupted, reader, keybuf>>
      BY <1>9, <2>4 DEF NestedEvent
    <3>2. queue' \in Seq(Numbers) /\ terminal' \in Seq(Numbers)
      BY <2>1, <3>1, AppendProperties DEF TypeOK, LoopTypeOK
    <3> USE <1>9, <3>1 DEF NestedEvent
    <3>t. TypeOK'
      BY <3>2 DEF TypeOK, LimiterTypeOK, LoopTypeOK
    <3>c. Control'
      BY <2>0 DEF Control, Executing, MacroPhases, IsAsking
    <3>p. Places'
      BY <2>0 DEF Places, Control, MacroPhases, Before
    <3> QED
      BY <3>t, <3>c, <3>p
  <2> QED
    BY <2>2, <2>3, <2>4
<1>10. CASE Leaves
  <2>1. pc = "stops" /\ phase = "keys" /\ reader = "loop" /\ running.kind = "nobody"
    BY <1>10 DEF Leaves, ClosesScreen, Control, Executing, TypeOK, LoopTypeOK
  <2> USE <1>10, <2>1 DEF Leaves, ClosesScreen, StopLimiting
  <2>t. TypeOK'
    BY ZenonT(60) DEF TypeOK, LimiterTypeOK, LoopTypeOK
  <2>c. Control'
    BY DEF Control, Executing, MacroPhases
  <2>p. Places'
    BY DEF Places, Control, MacroPhases, Before
  <2> QED
    BY <2>t, <2>c, <2>p
<1> QED
  BY <1>1, <1>2, <1>3, <1>4, <1>5, <1>6, <1>7, <1>8, <1>9, <1>10 DEF LoopSteps

-----------------------------------------------------------------------------
(* The ways of keys: they move along, but for those that are thrown away;  *)
(* or the next one is taken, or the next one of GTK's nested loop.         *)
Unread(C) ==
  /\ typed' = typed /\ keybuf' = keybuf
  /\ Pending' = Pending \ C
  /\ Waiting' \subseteq Waiting /\ HeldKey' \subseteq HeldKey \cup Waiting
  /\ eaten' = eaten \cup C /\ C \subseteq Waiting /\ \A key \in C : IsInterrupt(key)
Takes(x) ==
  /\ typed' = typed /\ eaten' = eaten
  /\ x \in Pending /\ Pending' = Pending \ {x} /\ Ahead({x}, Pending')
  /\ Waiting' \subseteq Waiting /\ HeldKey' \subseteq HeldKey
TakesNested(x) ==
  /\ interface = "gtk"
  /\ x \in Waiting /\ Waiting' = Waiting \ {x} /\ Ahead({x}, Waiting')
  /\ UNCHANGED <<typed, keybuf, queue, held, eaten>>

(* What is polled moves along.                                             *)
Moved(q, t, C) ==
  /\ Increasing(q) /\ Increasing(t) /\ Ahead(ToSet(q), ToSet(t))
  /\ ToSet(q) \cup ToSet(t) = (Queued \cup Waiting) \ C
  /\ ToSet(t) \subseteq Waiting
  /\ C \subseteq Waiting /\ \A key \in C : IsInterrupt(key)

LEMMA EventMoved ==
  ASSUME TypeOK, Lines, terminal # <<>>
  PROVE  Moved(PollEvent.queue, PollEvent.terminal, PollEvent.caught)
<1> DEFINE x == Head(terminal)
<1>1. /\ x \in Keys /\ x \in Numbers /\ Numbers \in SUBSET Int
      /\ Waiting = {x} \cup ToSet(Tail(terminal))
      /\ Increasing(Tail(terminal)) /\ Ahead({x}, ToSet(Tail(terminal)))
      /\ queue \in Seq(Numbers) /\ Increasing(queue) /\ Ahead(Queued, Waiting)
      /\ Queued \subseteq Numbers /\ ToSet(queue) = Queued
  BY NextKeys DEF Numbers, Keys, TypeOK, LoopTypeOK, Lines, Ahead, Queued, Pending
<1> HIDE DEF x
<1>2. x \notin Queued /\ x \notin ToSet(Tail(terminal)) /\ Ahead(Queued, {x})
  BY <1>1 DEF Ahead, Numbers
<1>3. CASE IsInterrupt(x)
  <2>1. PollEvent = Poll(queue, Tail(terminal), TRUE, {x}, TRUE)
    BY <1>3 DEF PollEvent, x
  <2>2. Moved(queue, Tail(terminal), {x})
    BY <1>1, <1>2, <1>3 DEF Moved, Ahead
  <2> QED
    BY <2>1, <2>2 DEF Poll
<1>4. CASE ~IsInterrupt(x)
  <2>1. PollEvent = Poll(Append(queue, x), Tail(terminal), interrupted, {}, interrupted)
    BY <1>4 DEF PollEvent, x
  <2>2. Increasing(Append(queue, x)) /\ ToSet(Append(queue, x)) = Queued \cup {x}
    BY <1>1, <1>2, AppendSorted
  <2>3. Moved(Append(queue, x), Tail(terminal), {})
    BY <1>1, <1>2, <2>2 DEF Moved, Ahead
  <2> QED
    BY <2>1, <2>3 DEF Poll
<1> QED
  BY <1>3, <1>4

LEMMA PollMoved ==
  ASSUME TypeOK, Lines, NEW p \in Polls
  PROVE  Moved(p.queue, p.terminal, p.caught)
<1>0. /\ Numbers \in SUBSET Int /\ queue \in Seq(Numbers) /\ terminal \in Seq(Numbers)
      /\ Increasing(queue) /\ Increasing(terminal) /\ Ahead(Queued, Waiting)
      /\ ToSet(queue) = Queued /\ ToSet(terminal) = Waiting
      /\ Queued \subseteq Numbers /\ Waiting \subseteq Numbers
  BY DEF Numbers, TypeOK, LoopTypeOK, Lines, Ahead, Keys, Queued, Waiting, Pending
<1> USE DEF Poll
<1>1. CASE p = NoPoll
  BY <1>0, <1>1 DEF NoPoll, Moved
<1>2. CASE interface = "pad" /\ interactive /\ p = PollPad
  <2>1. CASE p = Poll(queue \o terminal, <<>>, interrupted, {}, interrupted)
    <3> DEFINE q == queue \o terminal
    <3>1. Increasing(q) /\ ToSet(q) = Queued \cup Waiting
      BY <1>0, ConcatSorted
    <3> HIDE DEF q
    <3>2. Moved(q, <<>>, {})
      BY <3>1, NoElements DEF Moved, Ahead
    <3> QED
      BY <2>1, <3>2 DEF q
  <2>2. ASSUME NEW at \in 1 .. Len(terminal), IsInterrupt(terminal[at]),
               p = Poll(queue \o SubSeq(terminal, 1, at - 1),
                        SubSeq(terminal, at + 1, Len(terminal)), interrupted, {terminal[at]}, TRUE)
        PROVE  Moved(p.queue, p.terminal, p.caught)
    <3> DEFINE front == SubSeq(terminal, 1, at - 1)
               back  == SubSeq(terminal, at + 1, Len(terminal))
               q     == queue \o front
    <3>1. /\ front \in Seq(Numbers) /\ back \in Seq(Numbers)
          /\ Waiting = ToSet(front) \cup {terminal[at]} \cup ToSet(back)
          /\ Increasing(front) /\ Increasing(back)
          /\ Ahead(ToSet(front), {terminal[at]} \cup ToSet(back))
          /\ Ahead({terminal[at]}, ToSet(back))
      BY <1>0, SplitSorted
    <3> HIDE DEF front, back
    <3>2. Ahead(Queued, ToSet(front))
      BY <1>0, <3>1 DEF Ahead
    <3>3. Increasing(q) /\ ToSet(q) = Queued \cup ToSet(front)
      BY <1>0, <3>1, <3>2, ConcatSorted
    <3> HIDE DEF q
    <3>4. Ahead(ToSet(q), ToSet(back))
      BY <1>0, <3>1, <3>3 DEF Ahead
    <3>5. terminal[at] \in Waiting /\ terminal[at] \notin Queued
          /\ terminal[at] \notin ToSet(front) /\ terminal[at] \notin ToSet(back)
      BY <1>0, <3>1 DEF Ahead, Numbers
    <3>6. Moved(q, back, {terminal[at]})
      BY <2>2, <3>1, <3>3, <3>4, <3>5 DEF Moved
    <3> QED
      BY <2>2, <3>6 DEF q, front, back
  <2> QED
    BY <1>2, <2>1, <2>2, PollPadCases
<1>3. CASE interface = "gtk" /\ interactive /\ terminal # <<>> /\ p = PollEvent
  BY <1>3, EventMoved
<1> QED
  BY <1>1, <1>2, <1>3, PollCases

LEMMA MovesAlong ==
  ASSUME TypeOK, Lines, held = 0, NEW C, Moved(queue', terminal', C), eaten' = eaten \cup C,
         UNCHANGED <<typed, keybuf, held>>
  PROVE  Lines' /\ Unread(C)
<1>1. /\ HeldKey = {} /\ HeldKey' = {} /\ Keys' = Keys /\ Buffered' = Buffered
      /\ Queued' = ToSet(queue') /\ Waiting' = ToSet(terminal')
      /\ Queued' \cup Waiting' = (Queued \cup Waiting) \ C
  BY DEF HeldKey, Keys, Buffered, Queued, Waiting, Moved
<1>2. Pending' = Pending \ C
  BY <1>1 DEF Pending
<1>3. Ahead(Buffered, Pending')
  BY <1>2 DEF Lines, Ahead
<1>4. Lines'
  BY <1>1, <1>2, <1>3 DEF Lines, Moved, Ahead
<1>5. Unread(C)
  BY <1>1, <1>2 DEF Unread, Moved
<1> QED
  BY <1>4, <1>5

-----------------------------------------------------------------------------
(* What steps do to the history: while the macro of a key is executed it   *)
(* has the one entry that is running.                                      *)
Busy == undo /\ running.kind # "nobody"
StaysBusy ==
  /\ Busy' <=> Busy
  /\ Busy => /\ running'.entry = running.entry
             /\ wanted => wanted'
             /\ interrupted' => interrupted \/ wanted'
Keeps == handled' = handled /\ StaysBusy
EndsEntry ==
  /\ Busy /\ ~Busy' /\ (wanted => wanted')
  /\ \E outcome \in Endings :
       /\ handled' = [handled EXCEPT ![running.entry].outcome = outcome,
                                     ![running.entry].wanted = wanted']
       /\ outcome = "interrupted" => interrupted \/ wanted'
Adds(keys, outcome) ==
  /\ handled' = Append(handled, Entry(keys, outcome))
  /\ StaysBusy
Begins(keys) ==
  /\ handled' = Append(handled, Entry(keys, "running"))
  /\ ~Busy /\ Busy'
  /\ running'.entry = Len(handled) + 1
  /\ keys # <<>> /\ interrupted' => interrupted /\ interface = "pad"

(* What becomes of a key that has been read.                               *)
BecomesOf(x) ==
  \/ Keeps /\ keybuf = <<>> /\ keybuf' = <<x>> /\ typed[x] = "lead"
  \/ Begins(<<x>>) /\ keybuf = <<>> /\ keybuf' = <<>> /\ typed[x] \notin {"lead", "cont"}
  \/ Begins(Append(keybuf, x)) /\ Completes(x) /\ keybuf' = <<>>
  \/ /\ Adds(Append(keybuf, x), "invalid") /\ keybuf' = <<>>
     /\ ~Completes(x) /\ (keybuf # <<>> \/ typed[x] = "cont")
  \/ /\ typed[x] \in {"function", "close"} /\ keybuf' = keybuf
     /\ \E outcome \in {"ignored", "quit"} : Adds(<<x>>, outcome)
  \/ /\ reader = "macro" /\ Adds(<<x>>, "answer") /\ keybuf = <<>> /\ keybuf' = <<>>
     /\ typed[x] \in {"lead", "cont"} => "asksByte" \in scenario.keys
  \/ reader = "macro" /\ Adds(Append(keybuf, x), "answer") /\ Completes(x) /\ keybuf' = <<>>

LEMMA ReadBecomes ==
  ASSUME TypeOK, Control, Places, KindsTyped, NEW x \in Keys, NEW flag \in BOOLEAN,
         Read(x, flag), UNCHANGED <<typed, undo, scenario, interactive>>,
         pc \in {"ready", "fetched", "nested"},
         flag => interrupted /\ (reader = "loop" => interface = "pad")
  PROVE  /\ BecomesOf(x)
         /\ running'.kind \in scenario.keys \cup {"plain", "nobody"}
<1>1. /\ undo /\ undo' /\ interactive /\ scenario.fake = "none"
      /\ reader = "loop" <=> running.kind = "nobody"
      /\ running.kind # "nobody" => running.kind \in scenario.keys \cup {"plain"}
      /\ reader \in {"loop", "macro"}
      /\ typed[x] \in scenario.keys
  BY DEF Control, Executing, MacroPhases, KindsTyped, TypeOK, LoopTypeOK
<1>2. CASE reader = "macro"
  <2>1. /\ AnswersOf(x)
        /\ interrupted' = (flag \/ IsInterrupt(x)) /\ wanted' = (wanted \/ IsInterrupt(x))
    BY <1>2, AnswerCases DEF Read
  <2>2. running \in Macros /\ running.kind # "nobody"
    BY <1>1, <1>2 DEF TypeOK, LoopTypeOK
  <2>3. ASSUME running' = running \/ running' = [running EXCEPT !.kind = "plain"]
        PROVE  StaysBusy /\ running'.kind \in scenario.keys \cup {"plain", "nobody"}
    <3>1. running'.entry = running.entry /\ running'.kind \in {running.kind, "plain"}
      BY <2>2, <2>3 DEF Macros
    <3> QED
      BY <1>1, <2>1, <2>2, <3>1 DEF StaysBusy, Busy
  <2>4. ASSUME NEW keys, NEW outcome, AnswersWith(keys, outcome)
        PROVE  /\ Adds(keys, outcome) /\ keybuf' = <<>>
               /\ running'.kind \in scenario.keys \cup {"plain", "nobody"}
    BY <2>3, <2>4 DEF AnswersWith, Adds
  <2>5. ASSUME NEW bytes, AsksAgain(bytes)
        PROVE  /\ StaysBusy /\ keybuf' = bytes
               /\ running'.kind \in scenario.keys \cup {"plain", "nobody"}
    BY <2>3, <2>5 DEF AsksAgain
  <2>6. CASE /\ keybuf = <<>> /\ AnswersWith(<<x>>, "answer")
             /\ typed[x] \in {"lead", "cont"} => running.kind = "asksByte"
    BY <1>1, <1>2, <2>2, <2>4, <2>6 DEF BecomesOf
  <2>7. CASE Completes(x) /\ AnswersWith(Append(keybuf, x), "answer")
    BY <1>2, <2>4, <2>7 DEF BecomesOf
  <2>8. CASE /\ keybuf = <<>> /\ typed[x] = "lead" /\ running.kind = "asks"
             /\ AsksAgain(<<x>>) /\ UNCHANGED handled
    BY <2>5, <2>8 DEF BecomesOf, Keeps
  <2>9. CASE ~Completes(x) /\ keybuf # <<>> /\ AnswersWith(Append(keybuf, x), "invalid")
    BY <2>4, <2>9 DEF BecomesOf
  <2>10. CASE /\ ~Completes(x) /\ (keybuf # <<>> \/ typed[x] = "cont")
              /\ AsksAgain(<<>>) /\ handled' = Append(handled, Entry(Append(keybuf, x), "invalid"))
    BY <2>5, <2>10 DEF BecomesOf, Adds
  <2> QED
    BY <2>1, <2>6, <2>7, <2>8, <2>9, <2>10 DEF AnswersOf
<1>3. CASE reader = "loop"
  <2>0. running.kind = "nobody" /\ ~Busy /\ interrupted' = flag
    BY <1>1, <1>3, KeyCases DEF Busy
  <2>1. ASSUME UNCHANGED running PROVE StaysBusy /\ running'.kind = "nobody"
    BY <2>0, <2>1 DEF StaysBusy, Busy
  <2>2. ASSUME NEW keys, StartsBy(keys, x)
        PROVE  Begins(keys) /\ keybuf' = <<>> /\ running'.kind \in scenario.keys \cup {"plain"}
    <3>1. PICK kind \in KeyKinds : /\ Starts(kind, Len(handled) + 1)
                                   /\ kind = "plain" \/ kind = typed[x]
      BY <2>2 DEF StartsBy
    <3>2. Len(handled) + 1 \in Nat
      BY DEF TypeOK, LoopTypeOK
    <3>3. running'.kind = kind /\ running'.kind # "nobody" /\ running'.entry = Len(handled) + 1
      BY <3>1, <3>2, StartsType
    <3> QED
      BY <1>1, <1>3, <2>0, <2>2, <3>1, <3>3 DEF StartsBy, Begins, Busy
  <2>3. CASE Collects(x)
    BY <2>1, <2>3 DEF Collects, BecomesOf, Keeps
  <2>4. CASE keybuf = <<>> /\ typed[x] \notin {"lead", "cont"} /\ StartsBy(<<x>>, x)
    BY <2>2, <2>4 DEF BecomesOf
  <2>5. CASE Completes(x) /\ StartsBy(Append(keybuf, x), x)
    BY <2>2, <2>5 DEF BecomesOf
  <2>6. CASE /\ ~Completes(x) /\ (keybuf # <<>> \/ typed[x] = "cont")
             /\ Rejects(Append(keybuf, x))
    BY <2>1, <2>6 DEF BecomesOf, Rejects, Adds
  <2>7. CASE IgnoresKey(x, "ready")
    BY <2>1, <2>7 DEF BecomesOf, IgnoresKey, Adds
  <2>8. CASE ClosesBy(x)
    BY <2>1, <2>8 DEF BecomesOf, ClosesBy, Adds
  <2> QED
    BY <1>3, <2>3, <2>4, <2>5, <2>6, <2>7, <2>8, KeyCases
<1> QED
  BY <1>1, <1>2, <1>3

LEMMA KeyPressBecomes ==
  ASSUME TypeOK, Control, Places, KindsTyped, NEW x \in Keys, KeyPress(x),
         UNCHANGED <<typed, undo, scenario, interactive, keybuf>>,
         interface = "gtk", pc = "ready", ~interrupted'
  PROVE  /\ BecomesOf(x)
         /\ running'.kind \in scenario.keys \cup {"plain", "nobody"}
<1>1. /\ undo /\ undo' /\ interactive /\ reader = "loop" /\ running.kind = "nobody"
      /\ keybuf = <<>> /\ keybuf' = <<>> /\ ~Busy
      /\ typed[x] \in scenario.keys /\ typed[x] \notin {"lead", "cont"} /\ typed[x] \in KeyKinds
  <2>1. scenario \in Scenarios /\ scenario.interface = "gtk"
    BY DEF TypeOK
  <2>2. typed[x] \in scenario.keys
    BY DEF KindsTyped
  <2>3. typed[x] \notin {"lead", "cont"} /\ typed[x] \in KeyKinds
    BY <2>1, <2>2, ScenarioTypes
  <2> QED
    BY <2>2, <2>3 DEF Control, Executing, MacroPhases, Places, Busy, TypeOK, LoopTypeOK
<1>2. CASE IsFunctionKey(x)
  <2>1. UNCHANGED running /\ \E outcome \in {"ignored", "quit"} :
          handled' = Append(handled, Entry(<<x>>, outcome))
    BY <1>2 DEF KeyPress, KeyMacro, Closes, Ignored
  <2> QED
    BY <1>1, <1>2, <2>1 DEF BecomesOf, Adds, StaysBusy, Busy, IsFunctionKey
<1>3. CASE ~IsFunctionKey(x)
  <2> DEFINE kind == IF typed[x] \in {"^C", "^D"} THEN "plain" ELSE typed[x]
  <2>1. /\ Starts(kind, Len(handled) + 1)
        /\ handled' = Append(handled, Entry(<<x>>, "running"))
    BY <1>3 DEF KeyPress, StartsKey
  <2>2. kind \in KeyKinds /\ Len(handled) + 1 \in Nat
    BY <1>1 DEF KeyKinds, MacroKinds, TypeOK, LoopTypeOK
  <2>3. running'.kind = kind /\ running'.kind # "nobody" /\ running'.entry = Len(handled) + 1
    BY <2>1, <2>2, StartsType
  <2> QED
    BY <1>1, <2>1, <2>3 DEF BecomesOf, Begins, Busy
<1> QED
  BY <1>2, <1>3

-----------------------------------------------------------------------------
(* All steps, by what they do to the keys.                                 *)
Base == TypeOK /\ Control /\ Places /\ Lines /\ KindsTyped

KeysRest == \E C : Unread(C) /\ (Keeps \/ EndsEntry \/ (handled = <<>> /\ Begins(<<>>)))
KeyIsRead == \E x : Takes(x) /\ BecomesOf(x) /\ (interface = "gtk" => reader = "loop")
KeyIsNested ==
  /\ \E x : TakesNested(x) /\ \E outcome \in {"ignored", "answer"} : Adds(<<x>>, outcome)
  /\ keybuf = <<>> /\ held = 0
(* A key joins the others, or is a ^C that throws them away.               *)
KeyIsTyped ==
  \E kind \in scenario.keys :
    LET n == Len(typed) + 1 IN
    /\ typed' = Append(typed, kind)
    /\ Utf8 => (kind = "cont" <=> typed # <<>> /\ Last(typed) = "lead")
    /\ Keeps
    /\ UNCHANGED <<keybuf, queue, held>>
    /\ \/ Waiting' = Waiting \cup {n} /\ eaten' = eaten
       \/ /\ interface = "tty" /\ kind = "^C"
          /\ Waiting' = {} /\ eaten' = eaten \cup Waiting \cup {n}
Ways == KeysRest \/ KeyIsRead \/ KeyIsNested \/ KeyIsTyped

LEMMA BecomesLines ==
  ASSUME TypeOK, Lines, NEW x \in Keys, Takes(x), BecomesOf(x),
         Increasing(queue'), Increasing(terminal'), Ahead(HeldKey' \cup Queued', Waiting')
  PROVE  Lines'
<1>1. keybuf' = keybuf \/ keybuf' = <<>> \/ (keybuf = <<>> /\ keybuf' = <<x>>)
  BY DEF BecomesOf
<1>2. Increasing(keybuf') /\ Buffered' \subseteq Buffered \cup {x}
  <2>1. CASE keybuf' = keybuf
    BY <2>1 DEF Lines, Buffered
  <2>2. CASE keybuf' = <<>>
    BY <2>2, NoElements DEF Buffered
  <2>3. CASE keybuf' = <<x>>
    BY <2>3, OneElement DEF Buffered
  <2> QED
    BY <1>1, <2>1, <2>2, <2>3
<1>3. Ahead(Buffered', Pending')
  BY <1>2 DEF Lines, Takes, Ahead
<1>4. Buffered' \cup Pending' \subseteq Keys' /\ Keys' = Keys
  BY <1>2 DEF Lines, Takes, Keys
<1> QED
  BY <1>2, <1>3, <1>4 DEF Lines

(* The key that is taken from the queue is the next one.                   *)
LEMMA QueueTaken ==
  ASSUME TypeOK, Lines, queue # <<>>, held = 0, queue' = Tail(queue),
         UNCHANGED <<typed, terminal, held, eaten>>
  PROVE  /\ Takes(Head(queue)) /\ Head(queue) \in Keys
         /\ Increasing(queue') /\ Increasing(terminal') /\ Ahead(HeldKey' \cup Queued', Waiting')
<1> DEFINE x == Head(queue)
           T == ToSet(Tail(queue))
<1>1. /\ x \in Keys /\ Queued = {x} \cup T /\ Increasing(Tail(queue)) /\ Ahead({x}, T)
      /\ Ahead(Queued, Waiting) /\ T \subseteq Keys /\ Waiting \subseteq Keys
  BY NextKeys DEF Lines, Ahead, Pending
<1>2. /\ HeldKey = {} /\ HeldKey' = {} /\ Queued' = T /\ Waiting' = Waiting
  BY DEF HeldKey, Queued, Waiting
<1> HIDE DEF x, T
<1>3. Pending = {x} \cup T \cup Waiting /\ Pending' = T \cup Waiting
  BY <1>1, <1>2 DEF Pending
<1>4. Ahead({x}, Pending') /\ x \notin Pending'
  <2>1. Ahead({x}, Pending')
    BY <1>1, <1>3 DEF Ahead
  <2>2. ~(x < x)
    BY <1>1 DEF Keys, TypeOK, LoopTypeOK
  <2> QED
    BY <2>1, <2>2 DEF Ahead
<1>5. Takes(x)
  BY <1>2, <1>3, <1>4 DEF Takes
<1>6. Increasing(queue') /\ Increasing(terminal') /\ Ahead(HeldKey' \cup Queued', Waiting')
  BY <1>1, <1>2 DEF Lines, Ahead
<1> QED
  BY <1>1, <1>5, <1>6 DEF x

LEMMA HeldTaken ==
  ASSUME TypeOK, Lines, held # 0, queue = <<>>, held' = 0,
         UNCHANGED <<typed, terminal, queue, eaten>>
  PROVE  /\ Takes(held) /\ held \in Keys
         /\ Increasing(queue') /\ Increasing(terminal') /\ Ahead(HeldKey' \cup Queued', Waiting')
<1>1. /\ HeldKey = {held} /\ HeldKey' = {} /\ Queued = {} /\ Queued' = {} /\ Waiting' = Waiting
  BY NoElements DEF HeldKey, Queued, Waiting
<1>2. Pending = {held} \cup Waiting /\ Pending' = Waiting /\ Ahead({held}, Waiting) /\ held \in Keys
  BY <1>1, NextKeys DEF Pending, Lines, Ahead
<1>3. held \notin Waiting
  <2>1. ~(held < held)
    BY DEF TypeOK, LoopTypeOK
  <2> QED
    BY <1>2, <2>1 DEF Ahead
<1>4. Takes(held)
  BY <1>1, <1>2, <1>3 DEF Takes
<1>5. Increasing(queue') /\ Increasing(terminal') /\ Ahead(HeldKey' \cup Queued', Waiting')
  BY <1>1 DEF Lines, Ahead
<1> QED
  BY <1>2, <1>4, <1>5

LEMMA ReadingWays ==
  ASSUME Base, PopsKey \/ Resets \/ HandlesEvent, UNCHANGED mainVars
  PROVE  Lines' /\ KindsTyped' /\ KeyIsRead
<1> USE DEF Base, mainVars
<1>1. ASSUME NEW x \in Keys, BecomesOf(x), Takes(x),
             running'.kind \in scenario.keys \cup {"plain", "nobody"}
      PROVE  KindsTyped'
  BY <1>1 DEF KindsTyped, Keys, Takes
<1>2. CASE PopsKey
  <2>1. /\ Takes(Head(queue)) /\ Head(queue) \in Keys
        /\ Increasing(queue') /\ Increasing(terminal') /\ Ahead(HeldKey' \cup Queued', Waiting')
    BY <1>2, QueueTaken DEF PopsKey, Places
  <2>2. interrupted /\ reader = "loop" => interface = "pad"
    BY <1>2 DEF PopsKey, Places, TypeOK, LoopTypeOK
  <2>3. interrupted \in BOOLEAN /\ Read(Head(queue), interrupted)
    BY <1>2 DEF PopsKey, TypeOK, LoopTypeOK
  <2>4. /\ BecomesOf(Head(queue))
        /\ running'.kind \in scenario.keys \cup {"plain", "nobody"}
    BY <1>2, <2>1, <2>2, <2>3, ReadBecomes DEF PopsKey
  <2>5. Lines'
    BY <2>1, <2>4, BecomesLines
  <2> QED
    BY <1>1, <1>2, <2>1, <2>4, <2>5 DEF KeyIsRead, PopsKey
<1>3. CASE Resets
  <2>0. held # 0 /\ queue = <<>> /\ interface # "gtk"
    BY <1>3 DEF Resets, Places
  <2>1. /\ Takes(held) /\ held \in Keys
        /\ Increasing(queue') /\ Increasing(terminal') /\ Ahead(HeldKey' \cup Queued', Waiting')
    BY <1>3, <2>0, HeldTaken DEF Resets
  <2>4. /\ BecomesOf(held)
        /\ running'.kind \in scenario.keys \cup {"plain", "nobody"}
    BY <1>3, <2>1, ReadBecomes DEF Resets
  <2>5. Lines'
    BY <2>1, <2>4, BecomesLines
  <2> QED
    BY <1>1, <1>3, <2>0, <2>1, <2>4, <2>5 DEF KeyIsRead
<1>4. CASE HandlesEvent
  <2>0. queue # <<>> /\ held = 0 /\ interactive /\ reader = "loop"
    BY <1>4 DEF HandlesEvent, Places, Control, TypeOK, LoopTypeOK
  <2>1. /\ Takes(Head(queue)) /\ Head(queue) \in Keys
        /\ Increasing(queue') /\ Increasing(terminal') /\ Ahead(HeldKey' \cup Queued', Waiting')
    BY <1>4, <2>0, QueueTaken DEF HandlesEvent
  <2>4. /\ BecomesOf(Head(queue))
        /\ running'.kind \in scenario.keys \cup {"plain", "nobody"}
    BY <1>4, <2>1, KeyPressBecomes DEF HandlesEvent
  <2>5. Lines'
    BY <2>1, <2>4, BecomesLines
  <2> QED
    BY <1>1, <2>0, <2>1, <2>4, <2>5 DEF KeyIsRead
<1> QED
  BY <1>2, <1>3, <1>4

(* Only caught keys raise the flag, or interrupt without it.               *)
LEMMA PollFlags ==
  ASSUME TypeOK, NEW p \in Polls
  PROVE  /\ p.result => interrupted \/ p.caught # {}
         /\ p.flag => interrupted \/ p.caught # {}
         /\ interface = "pad" => p.flag = interrupted
<1> USE DEF Poll
<1>1. CASE p = NoPoll
  BY <1>1 DEF NoPoll
<1>2. CASE interface = "pad" /\ interactive /\ p = PollPad
  <2>1. CASE p = Poll(queue \o terminal, <<>>, interrupted, {}, interrupted)
    BY <2>1
  <2>2. ASSUME NEW at \in 1 .. Len(terminal),
               p = Poll(queue \o SubSeq(terminal, 1, at - 1),
                        SubSeq(terminal, at + 1, Len(terminal)), interrupted, {terminal[at]}, TRUE)
        PROVE  p.caught # {} /\ p.flag = interrupted
    BY <2>2
  <2> QED
    BY <1>2, <2>1, <2>2, PollPadCases
<1>3. CASE interface = "gtk" /\ interactive /\ terminal # <<>> /\ p = PollEvent
  BY <1>3 DEF PollEvent
<1> QED
  BY <1>1, <1>2, <1>3, PollCases

LEMMA StepWays ==
  ASSUME Base, NEW p \in Polls, Step(p), UNCHANGED mainVars
  PROVE  Lines' /\ KindsTyped' /\ KeysRest
<1> USE DEF Base, mainVars
<1>1. /\ pc = "step" /\ queue' = p.queue /\ terminal' = p.terminal
      /\ eaten' = eaten \cup p.caught
      /\ wanted' = (wanted \/ p.caught # {})
      /\ interrupted' = IF pc' = "drains" THEN FALSE ELSE p.flag
      /\ UNCHANGED <<interface, interactive, typed, keybuf, held, undo>>
      /\ EndsNow(p) \/ StillRuns \/ Answered \/ BeginsToAsk
  BY StepCases
<1>2. held = 0 /\ running.kind # "nobody"
  BY <1>1 DEF Places, Control, Executing
<1>3. Lines' /\ Unread(p.caught)
  BY <1>1, <1>2, PollMoved, MovesAlong
<1>4. /\ p.result => interrupted \/ wanted'
      /\ wanted => wanted'
      /\ interrupted' => interrupted \/ wanted'
  BY <1>1, PollFlags
<1>5. ASSUME running'.kind \in {running.kind, "plain"}, running'.entry = running.entry
      PROVE  StaysBusy
  BY <1>1, <1>2, <1>4, <1>5 DEF StaysBusy, Busy
<1>6. ASSUME running'.kind \in {running.kind, "plain", "nobody"} PROVE KindsTyped'
  BY <1>1, <1>6 DEF KindsTyped, Keys
<1>7. CASE EndsNow(p)
  <2>1. PICK outcome \in Endings : Ends(outcome) /\ (outcome = "interrupted" => p.result)
    BY <1>7 DEF EndsNow
  <2>2. running'.kind = "nobody"
    BY <2>1 DEF Ends, Nobody
  <2>3. CASE undo
    <3>1. handled' = [handled EXCEPT ![running.entry].outcome = outcome,
                                     ![running.entry].wanted = wanted']
      BY <2>1, <2>3 DEF Ends
    <3>2. Busy /\ ~Busy' /\ (wanted => wanted') /\ (outcome = "interrupted" => interrupted \/ wanted')
      BY <1>2, <1>4, <2>1, <2>2, <2>3 DEF Busy
    <3>3. EndsEntry
      BY <3>1, <3>2 DEF EndsEntry
    <3> QED
      BY <1>3, <1>6, <2>2, <3>3 DEF KeysRest
  <2>4. CASE ~undo
    <3>1. handled' = handled /\ ~Busy /\ ~Busy'
      BY <1>1, <2>1, <2>4 DEF Ends, Busy
    <3> QED
      BY <1>3, <1>6, <2>2, <3>1 DEF KeysRest, Keeps, StaysBusy
  <2> QED
    BY <2>3, <2>4
<1>8. CASE StillRuns \/ BeginsToAsk
  <2>1. running' = running /\ handled' = handled
    BY <1>8 DEF StillRuns, BeginsToAsk
  <2> QED
    BY <1>3, <1>5, <1>6, <2>1 DEF KeysRest, Keeps
<1>9. CASE Answered
  <2>1. running'.kind = "plain" /\ running'.entry = running.entry /\ handled' = handled
    BY <1>9 DEF Answered, TypeOK, LoopTypeOK, Macros
  <2> QED
    BY <1>3, <1>5, <1>6, <2>1 DEF KeysRest, Keeps
<1> QED
  BY <1>1, <1>7, <1>8, <1>9

(* The steps that poll or pass a key on to the queue or to wgetch().       *)
LEMMA PassingWays ==
  ASSUME Base, (\E p \in Polls : Delays(p)) \/ BeginsToWait \/ Fetches \/ ReceivesEvent \/ Drains \/ Leaves,
         UNCHANGED mainVars
  PROVE  Lines' /\ KindsTyped' /\ KeysRest
<1> USE DEF Base, mainVars
<1>1. /\ UNCHANGED <<typed, keybuf, undo, running, handled>>
      /\ interactive' => interactive
  BY DEF Delays, BeginsToWait, Fetches, ReceivesEvent, Drains, Leaves, ClosesScreen
<1>2. KindsTyped'
  BY <1>1 DEF KindsTyped, Keys
<1>3. ASSUME NEW C, Unread(C), wanted => wanted', interrupted' => interrupted \/ wanted'
      PROVE  KeysRest
  BY <1>1, <1>3 DEF KeysRest, Keeps, StaysBusy, Busy
<1>4. ASSUME UNCHANGED <<terminal, queue, held, eaten, wanted, interrupted>>
      PROVE  Lines' /\ KeysRest
  <2>1. UNCHANGED <<Buffered, HeldKey, Queued, Waiting, Keys, Pending>>
    BY <1>1, <1>4 DEF Buffered, HeldKey, Queued, Waiting, Keys, Pending
  <2>2. Unread({})
    BY <1>1, <1>4, <2>1 DEF Unread
  <2>3. Lines'
    BY <1>1, <1>4, <2>1 DEF Lines
  <2> QED
    BY <1>3, <1>4, <2>2, <2>3
<1>5. ASSUME NEW C, held = 0, Moved(queue', terminal', C), eaten' = eaten \cup C, held' = held,
             wanted => wanted', interrupted' => interrupted \/ wanted'
      PROVE  Lines' /\ KeysRest
  BY <1>1, <1>3, <1>5, MovesAlong
<1>6. ASSUME NEW p \in Polls, Delays(p) PROVE Lines' /\ KeysRest
  <2>1. /\ pc = "delays" /\ queue' = p.queue /\ terminal' = p.terminal
        /\ eaten' = eaten \cup p.caught
        /\ wanted' = (wanted \/ p.caught # {})
        /\ interrupted' = p.flag /\ held' = held
    BY <1>6 DEF Delays, Polled
  <2>2. held = 0 /\ Moved(queue', terminal', p.caught)
    BY <2>1, PollMoved DEF Places
  <2> QED
    BY <1>5, <2>1, <2>2, PollFlags
<1>7. CASE BeginsToWait \/ Leaves
  BY <1>2, <1>4, <1>7 DEF BeginsToWait, Leaves, ClosesScreen
<1>8. CASE Fetches
  <2>1. /\ held = 0 /\ queue = <<>> /\ terminal # <<>>
        /\ held' = Head(terminal) /\ terminal' = Tail(terminal)
        /\ UNCHANGED <<queue, eaten, wanted, interrupted>>
    BY <1>8 DEF Fetches, Places
  <2> DEFINE x == Head(terminal)
             T == ToSet(Tail(terminal))
  <2>2. x \in Keys /\ Waiting = {x} \cup T /\ Increasing(Tail(terminal)) /\ Ahead({x}, T)
    BY <2>1, NextKeys
  <2>3. x # 0
    BY <2>2 DEF Keys
  <2>4. /\ HeldKey = {} /\ HeldKey' = {x} /\ Queued = {} /\ Queued' = {} /\ Waiting' = T
        /\ Buffered' = Buffered /\ Keys' = Keys
    BY <1>1, <2>1, <2>3, NoElements DEF HeldKey, Queued, Waiting, Buffered, Keys
  <2> HIDE DEF x, T
  <2>5. Pending' = Pending
    BY <2>2, <2>4 DEF Pending
  <2>6. Unread({})
    BY <1>1, <2>1, <2>2, <2>4, <2>5 DEF Unread
  <2>7. Lines'
    BY <1>1, <2>1, <2>2, <2>4, <2>5 DEF Lines
  <2> QED
    BY <1>2, <1>3, <2>1, <2>6, <2>7
<1>9. CASE ReceivesEvent
  <2>1. /\ held = 0 /\ held' = held /\ terminal # <<>>
        /\ queue' = Append(queue, Head(terminal)) /\ terminal' = Tail(terminal)
        /\ UNCHANGED <<eaten, wanted, interrupted>>
    BY <1>9 DEF ReceivesEvent, Places
  <2> DEFINE x == Head(terminal)
             T == ToSet(Tail(terminal))
  <2>2. x \in Keys /\ x \in Numbers /\ Waiting = {x} \cup T
        /\ Increasing(Tail(terminal)) /\ Ahead({x}, T)
    BY <2>1, NextKeys DEF Keys, Numbers, TypeOK, LoopTypeOK
  <2>3. /\ Numbers \in SUBSET Int /\ queue \in Seq(Numbers) /\ Increasing(queue)
        /\ Ahead(Queued, Waiting) /\ ToSet(queue) = Queued
    BY DEF Numbers, TypeOK, LoopTypeOK, Lines, Ahead, Queued
  <2>8. Ahead(Queued, {x}) /\ Ahead(Queued, T)
    BY <2>2, <2>3 DEF Ahead
  <2> HIDE DEF x, T
  <2>4. Increasing(Append(queue, x)) /\ ToSet(Append(queue, x)) = Queued \cup {x}
    BY <2>2, <2>3, <2>8, AppendSorted
  <2>5. Moved(queue', terminal', {})
    BY <2>1, <2>2, <2>3, <2>4, <2>8 DEF Moved, Ahead, x, T
  <2> QED
    BY <1>2, <1>5, <2>1, <2>5
<1>10. CASE Drains
  <2>1. held = 0 /\ held' = held
    BY <1>10 DEF Drains, Places
  <2>2. CASE terminal # <<>>
    <3>1. Polled(PollEvent) /\ interrupted' = PollEvent.flag
      BY <1>10, <2>2 DEF Drains
    <3>2. /\ queue' = PollEvent.queue /\ terminal' = PollEvent.terminal
          /\ eaten' = eaten \cup PollEvent.caught
          /\ wanted' = (wanted \/ PollEvent.caught # {})
      BY <3>1 DEF Polled
    <3>3. Moved(queue', terminal', PollEvent.caught)
      BY <2>2, <3>2, EventMoved
    <3>4. interrupted' => interrupted \/ wanted'
      BY <3>1, <3>2 DEF PollEvent, Poll
    <3> QED
      BY <1>2, <1>5, <2>1, <3>2, <3>3, <3>4
  <2>3. CASE terminal = <<>>
    <3>1. UNCHANGED <<terminal, queue, held, eaten, wanted, interrupted>>
      BY <1>10, <2>3 DEF Drains
    <3> QED
      BY <1>2, <1>4, <3>1
  <2> QED
    BY <2>2, <2>3
<1> QED
  BY <1>2, <1>6, <1>7, <1>8, <1>9, <1>10

LEMMA NestedWays ==
  ASSUME Base, NestedEvent, UNCHANGED mainVars
  PROVE  Lines' /\ KindsTyped' /\ (KeyIsNested \/ KeysRest)
<1> USE DEF Base, mainVars
<1> DEFINE x == Head(terminal)
           T == ToSet(Tail(terminal))
<1>1. /\ pc = "nested" /\ interface = "gtk" /\ interactive /\ reader = "macro"
      /\ keybuf = <<>> /\ held = 0 /\ terminal # <<>> /\ terminal' = Tail(terminal)
      /\ running.kind # "nobody" /\ running.kind \in scenario.keys \cup {"plain"} /\ undo
      /\ UNCHANGED <<interface, interactive, typed, held, undo, eaten>>
      /\ typed[x] # "close" => queue' = queue
  BY DEF NestedEvent, Places, Control, Executing, KindsTyped
<1>2. x \in Keys /\ Waiting = {x} \cup T /\ Increasing(Tail(terminal)) /\ Ahead({x}, T)
  BY <1>1, NextKeys
<1>3. x \notin T
  <2>1. ~(x < x)
    BY <1>2 DEF Keys, TypeOK, LoopTypeOK
  <2> QED
    BY <1>2, <2>1 DEF Ahead
<1>4. ASSUME typed[x] # "close"
      PROVE  /\ \E outcome \in {"ignored", "answer"} : Adds(<<x>>, outcome)
             /\ keybuf' = keybuf /\ running'.kind \in {running.kind, "plain"}
  <2>1. CASE typed[x] = "function"
    <3>1. Ignored(<<x>>, "ignored", "nested") /\ UNCHANGED <<interrupted, keybuf>>
      BY <2>1 DEF NestedEvent
    <3>2. Adds(<<x>>, "ignored") /\ keybuf' = keybuf /\ running' = running
      BY <1>1, <3>1 DEF Ignored, Adds, StaysBusy, Busy
    <3> QED
      BY <3>2
  <2>2. CASE typed[x] # "function"
    <3>1. /\ AnswersOf(x)
          /\ interrupted' = (interrupted \/ IsInterrupt(x)) /\ wanted' = (wanted \/ IsInterrupt(x))
      BY <1>1, <1>2, <1>4, <2>2, AnswerCases DEF NestedEvent
    <3>2. typed[x] \notin {"lead", "cont"}
      BY <1>1, <1>2, ScenarioTypes DEF KindsTyped, TypeOK
    <3>3. AnswersWith(<<x>>, "answer")
      BY <1>1, <3>1, <3>2 DEF AnswersOf, Completes
    <3>4. running'.kind = "plain" /\ running'.entry = running.entry
      BY <3>3 DEF AnswersWith, TypeOK, LoopTypeOK, Macros
    <3>5. Adds(<<x>>, "answer") /\ keybuf' = keybuf
      BY <1>1, <3>1, <3>3, <3>4 DEF AnswersWith, Adds, StaysBusy, Busy
    <3> QED
      BY <3>4, <3>5
  <2> QED
    BY <2>1, <2>2
<1>5. CASE typed[x] # "close"
  <2>1. KindsTyped'
    BY <1>1, <1>4, <1>5 DEF KindsTyped, Keys
  <2>2. /\ HeldKey = {} /\ HeldKey' = {} /\ Queued' = Queued /\ Waiting' = T
        /\ Buffered' = Buffered /\ Keys' = Keys
    BY <1>1, <1>4, <1>5 DEF HeldKey, Queued, Waiting, Buffered, Keys
  <2> HIDE DEF x, T
  <2>3. Pending' \subseteq Pending /\ Waiting' = Waiting \ {x} /\ Ahead({x}, Waiting')
    BY <1>2, <1>3, <2>2 DEF Pending
  <2>4. Lines'
    BY <1>1, <1>2, <1>4, <1>5, <2>2, <2>3 DEF Lines, Ahead, x
  <2>5. TakesNested(x)
    BY <1>1, <1>2, <1>4, <1>5, <2>3 DEF TakesNested
  <2> QED
    BY <1>1, <1>4, <1>5, <2>1, <2>4, <2>5 DEF KeyIsNested
<1>6. CASE typed[x] = "close"
  <2>1. /\ queue' = Append(queue, x)
        /\ UNCHANGED <<running, wanted, handled, interrupted, keybuf>>
    BY <1>6 DEF NestedEvent
  <2>2. Moved(queue', terminal', {})
    BY <1>1, <1>6, <2>1, EventMoved DEF PollEvent, Poll, IsInterrupt
  <2>3. Lines' /\ Unread({})
    BY <1>1, <2>1, <2>2, MovesAlong
  <2>4. Keeps /\ KindsTyped'
    BY <1>1, <2>1 DEF Keeps, StaysBusy, Busy, KindsTyped, Keys
  <2> QED
    BY <2>3, <2>4 DEF KeysRest
<1> QED
  BY <1>5, <1>6

LEMMA MainWays ==
  ASSUME Base, MainSteps
  PROVE  Lines' /\ KindsTyped' /\ KeysRest
<1> USE DEF Base, LoopUnchanged, loopVars, limiterVars, InMain, GoesTo
<1>1. UNCHANGED <<typed, terminal, queue, keybuf, held, eaten, interface, scenario>>
  BY DEF MainSteps, ProcessesOptions, SetsUp, LoadsStdin, StartsMacro, Runs, MacroEnds, MacroEndsIn,
         GoesInteractive, FailsToOpen,
         Terminates, CallsHook, CleansUp, DestroysThread, JoinsThread
<1>2. /\ ~interactive /\ pc = "main" /\ running.kind = "nobody" /\ ~Busy
      /\ interactive' => running' = running
  <2>1. pc = "main"
    BY DEF MainSteps, ProcessesOptions, SetsUp, LoadsStdin, StartsMacro, MacroEnds, MacroEndsIn,
           GoesInteractive, FailsToOpen,
           Terminates, CallsHook, CleansUp, DestroysThread, JoinsThread
  <2>2. interactive' = interactive \/ GoesInteractive
    BY DEF MainSteps, ProcessesOptions, SetsUp, LoadsStdin, StartsMacro, Runs, MacroEnds, MacroEndsIn,
           FailsToOpen,
           Terminates, CallsHook, CleansUp, DestroysThread, JoinsThread
  <2>3. ~interactive /\ reader = "loop" /\ running.kind = "nobody"
    BY <2>1 DEF Control, Executing, TypeOK, LoopTypeOK
  <2>4. GoesInteractive /\ interactive' => running' = running
    BY <2>3 DEF GoesInteractive
  <2> QED
    BY <2>1, <2>2, <2>3, <2>4 DEF Busy
<1>3. KindsTyped'
  BY <1>1, <1>2 DEF KindsTyped, Keys
<1>4. UNCHANGED <<Buffered, HeldKey, Queued, Waiting, Keys, Pending>>
  BY <1>1 DEF Buffered, HeldKey, Queued, Waiting, Keys, Pending
<1>5. Lines' /\ Unread({})
  BY <1>1, <1>4 DEF Lines, Unread
<1>6. CASE GoesInteractive
  <2>1. handled = <<>> /\ undo'
    BY <1>6 DEF GoesInteractive, Places, Before
  <2>2. CASE scenario.fake # "none"
    <3>1. Starts(scenario.fake, 1) /\ handled' = <<Entry(<<>>, "running")>>
      BY <1>6, <2>2 DEF GoesInteractive
    <3>2. scenario.fake \in KeyKinds
      BY <2>2, ScenarioTypes DEF TypeOK, KeyKinds
    <3>3. running'.kind # "nobody" /\ running'.entry = 1
      BY <3>1, <3>2, StartsType
    <3>4. Begins(<<>>)
      BY <1>2, <2>1, <3>1, <3>3 DEF Begins, Busy
    <3> QED
      BY <1>3, <1>5, <2>1, <3>4 DEF KeysRest
  <2>3. CASE scenario.fake = "none"
    <3>1. handled' = handled /\ running' = running
      BY <1>6, <2>3 DEF GoesInteractive
    <3>2. Keeps
      BY <1>2, <3>1 DEF Keeps, StaysBusy, Busy
    <3> QED
      BY <1>3, <1>5, <3>2 DEF KeysRest
  <2> QED
    BY <2>2, <2>3
<1>7. CASE ~GoesInteractive
  <2>1. handled' = handled
    BY <1>7 DEF MainSteps, ProcessesOptions, SetsUp, LoadsStdin, StartsMacro, Runs, MacroEnds,
                MacroEndsIn, FailsToOpen,
                Terminates, CallsHook, CleansUp, DestroysThread, JoinsThread
  <2>2. phase # "keys" => running' = running \/ ~undo'
    BY <1>7 DEF Control, MainSteps, ProcessesOptions, SetsUp, LoadsStdin, StartsMacro, Runs, MacroEnds,
                MacroEndsIn, FailsToOpen,
                Terminates, CallsHook, CleansUp, DestroysThread, JoinsThread
  <2>3. phase = "keys" => ~undo'
    BY <1>7 DEF MainSteps, ProcessesOptions, SetsUp, LoadsStdin, StartsMacro, MacroEnds, MacroEndsIn,
                FailsToOpen,
                Terminates, CallsHook, CleansUp, DestroysThread, JoinsThread
  <2>4. Keeps
    BY <1>2, <2>1, <2>2, <2>3 DEF Keeps, StaysBusy, Busy
  <2> QED
    BY <1>3, <1>5, <2>4 DEF KeysRest
<1> QED
  BY <1>6, <1>7

LEMMA TypeWays ==
  ASSUME Base, NEW kind \in scenario.keys, Type(kind), UNCHANGED mainVars
  PROVE  Base' /\ KeyIsTyped
<1> USE DEF Base, mainVars, limiterVars
<1> DEFINE n == Len(typed) + 1
<1>1. /\ kind \in KeyKinds /\ typed \in Seq(KeyKinds) /\ typed' = Append(typed, kind)
      /\ n \in Numbers /\ Len(typed') = n /\ Keys' = Keys \cup {n} /\ Len(typed) \in Nat
      /\ \A key \in Keys : typed'[key] = typed[key]
      /\ typed'[n] = kind
  <2>1. kind \in KeyKinds /\ typed \in Seq(KeyKinds) /\ typed' = Append(typed, kind) /\ Len(typed) \in Nat
    BY ScenarioTypes DEF Type, TypeOK, LoopTypeOK
  <2>2. /\ Len(Append(typed, kind)) = n /\ Append(typed, kind)[n] = kind
        /\ \A key \in 1 .. Len(typed) : Append(typed, kind)[key] = typed[key]
    BY <2>1
  <2> QED
    BY <2>1, <2>2 DEF Keys, Numbers
<1>2. /\ interactive /\ phase = "keys" /\ undo
      /\ Utf8 => (kind = "cont" <=> typed # <<>> /\ Last(typed) = "lead")
      /\ UNCHANGED <<interface, interactive, pc, reader, queue, keybuf, held, signals, running,
                     undo, levels, exit, error, handled, limiterVars>>
  BY DEF Type, Control
<1>3. Keeps /\ wanted' \in BOOLEAN /\ interrupted' \in BOOLEAN
  <2>1. \/ interrupted' = TRUE /\ wanted' = TRUE
        \/ interrupted' = interrupted /\ wanted' = wanted
    BY DEF Type, Interrupt
  <2>2. wanted' \in BOOLEAN /\ interrupted' \in BOOLEAN
    BY <2>1 DEF TypeOK, LoopTypeOK
  <2>3. StaysBusy
    BY <1>2, <2>1 DEF StaysBusy, Busy
  <2> QED
    BY <1>2, <2>2, <2>3 DEF Keeps
<1>4. KindsTyped'
  BY <1>1, <1>2 DEF KindsTyped
<1>5. Control'
  BY <1>2 DEF Control, IsAsking, Executing, MacroPhases
<1>6. Places'
  BY <1>2 DEF Places, Before
<1>7. /\ Buffered' = Buffered /\ HeldKey' = HeldKey /\ Queued' = Queued
      /\ Ahead(HeldKey \cup Queued \cup Buffered \cup Waiting, {n})
  <2>1. \A key \in Keys : key < n
    BY <1>1 DEF Keys
  <2> QED
    BY <1>2, <2>1 DEF Buffered, HeldKey, Queued, Lines, Pending, Ahead
<1>8. ASSUME terminal' \in Seq(Numbers)
      PROVE  TypeOK'
  <2>1. typed' \in Seq(KeyKinds)
    BY <1>1
  <2> QED
    BY <1>2, <1>3, <1>8, <2>1 DEF TypeOK, LimiterTypeOK, LoopTypeOK
<1>9. CASE interface = "tty" /\ kind = "^C" /\ ~Raw
  <2>1. terminal' = <<>> /\ eaten' = eaten \cup Waiting \cup {n}
    BY <1>1, <1>9 DEF Type, Waiting
  <2>2. terminal' \in Seq(Numbers) /\ Increasing(terminal') /\ Waiting' = {}
    BY <2>1, NoElements DEF Waiting
  <2>3. Lines'
    BY <1>1, <1>2, <1>7, <2>2 DEF Lines, Pending, Ahead
  <2>4. KeyIsTyped
    BY <1>1, <1>2, <1>3, <1>9, <2>1, <2>2 DEF KeyIsTyped
  <2> QED
    BY <1>4, <1>5, <1>6, <1>8, <2>2, <2>3, <2>4
<1>10. CASE ~(interface = "tty" /\ kind = "^C" /\ ~Raw)
  <2>1. terminal' = Append(terminal, n) /\ eaten' = eaten
    BY <1>1, <1>10 DEF Type
  <2>2. /\ Numbers \in SUBSET Int /\ terminal \in Seq(Numbers) /\ Increasing(terminal)
        /\ Ahead(ToSet(terminal), {n}) /\ ToSet(terminal) = Waiting
    BY <1>7 DEF Numbers, TypeOK, LoopTypeOK, Lines, Waiting, Ahead
  <2> HIDE DEF n
  <2>3. /\ Append(terminal, n) \in Seq(Numbers) /\ Increasing(Append(terminal, n))
        /\ ToSet(Append(terminal, n)) = Waiting \cup {n}
    BY <1>1, <2>2, AppendSorted
  <2>4. terminal' \in Seq(Numbers) /\ Increasing(terminal') /\ Waiting' = Waiting \cup {n}
    BY <2>1, <2>3 DEF Waiting
  <2>5. Lines'
    BY <1>1, <1>2, <1>7, <2>4 DEF Lines, Pending, Ahead
  <2>6. KeyIsTyped
    BY <1>1, <1>2, <1>3, <2>1, <2>4 DEF KeyIsTyped, n
  <2> QED
    BY <1>4, <1>5, <1>6, <1>8, <2>4, <2>5, <2>6
<1> QED
  BY <1>9, <1>10

LEMMA OthersWays ==
  ASSUME Base, (Signal /\ UNCHANGED mainVars) \/ ThreadRuns \/ UNCHANGED vars
  PROVE  Base' /\ KeysRest
<1> USE DEF Base, mainVars, loopVars
<1>1. /\ UNCHANGED <<interface, interactive, pc, reader, typed, terminal, queue, keybuf, held,
                     running, undo, levels, exit, error, handled, eaten, mainVars>>
      /\ \/ UNCHANGED <<interrupted, wanted, signals>>
         \/ interrupted' = TRUE /\ wanted' = TRUE /\ signals' = signals + 1
  <2>1. CASE Signal /\ UNCHANGED mainVars
    BY <2>1 DEF Signal, Interrupt
  <2>2. CASE UNCHANGED <<loopVars, mainVars>>
    BY <2>2
  <2> QED
    BY <2>1, <2>2 DEF ThreadRuns, vars
<1>2. interrupted' \in BOOLEAN /\ wanted' \in BOOLEAN /\ signals' \in Nat
  <2>1. interrupted \in BOOLEAN /\ wanted \in BOOLEAN /\ signals \in Nat
    BY DEF TypeOK, LoopTypeOK
  <2>2. CASE UNCHANGED <<interrupted, wanted, signals>>
    BY <2>1, <2>2
  <2>3. CASE interrupted' = TRUE /\ wanted' = TRUE /\ signals' = signals + 1
    BY <2>1, <2>3
  <2> QED
    BY <1>1, <2>2, <2>3
<1>3. LimiterTypeOK'
  BY DEF Signal, ThreadRuns, ThreadNext, ThreadLooks, ThreadMeasures, MeasuresUsage,
         ThreadWakesSpuriously, vars,
         limiterVars, TypeOK, LimiterTypeOK
<1>4. TypeOK'
  BY <1>1, <1>2, <1>3 DEF TypeOK, LoopTypeOK
<1>5. Control' /\ Places'
  BY <1>1 DEF Control, IsAsking, Places, Executing, MacroPhases, Before
<1>6. UNCHANGED <<Buffered, HeldKey, Queued, Waiting, Keys, Pending>>
  BY <1>1 DEF Buffered, HeldKey, Queued, Waiting, Keys, Pending
<1>7. Lines' /\ KindsTyped' /\ Unread({})
  BY <1>1, <1>6 DEF Lines, KindsTyped, Unread
<1>8. Keeps
  BY <1>1 DEF Keeps, StaysBusy, Busy
<1> QED
  BY <1>4, <1>5, <1>7, <1>8 DEF KeysRest

LEMMA NextWays ==
  ASSUME Base, [Next]_vars
  PROVE  Base' /\ Ways /\ scenario' = scenario /\ interface' = interface
<1>1. CASE MainSteps
  <2>1. TypeOK' /\ Control' /\ Places'
    BY <1>1, MainTypes DEF Base
  <2> QED
    BY <1>1, <2>1, MainWays DEF Base, Ways, TypeOK, MainSteps, ProcessesOptions, SetsUp, LoadsStdin,
       StartsMacro, Runs, MacroEnds, MacroEndsIn, GoesInteractive, FailsToOpen, Terminates, CallsHook,
       CleansUp,
       DestroysThread, JoinsThread, GoesTo
<1>2. ASSUME UNCHANGED mainVars, TypeOK'
      PROVE  scenario' = scenario /\ interface' = interface
  BY <1>2 DEF Base, TypeOK, mainVars
<1>3. ASSUME NEW p \in Polls, Step(p), UNCHANGED mainVars
      PROVE  Base' /\ Ways
  BY <1>3, StepTypes, StepWays DEF Base, Ways
<1>4. CASE LoopSteps /\ UNCHANGED mainVars
  <2>1. TypeOK' /\ Control' /\ Places'
    BY <1>4, LoopTypes DEF Base
  <2>2. Lines' /\ KindsTyped' /\ Ways
    BY <1>4, ReadingWays, PassingWays, NestedWays DEF LoopSteps, Ways
  <2> QED
    BY <1>2, <1>4, <2>1, <2>2 DEF Base
<1>5. CASE UserTypes
  BY <1>2, <1>5, TypeWays DEF Base, UserTypes, Ways
<1>6. CASE SignalArrives \/ ThreadRuns \/ UNCHANGED vars
  BY <1>2, <1>6, OthersWays DEF Base, SignalArrives, ThreadRuns, vars, Ways
<1>7. Main => MainSteps \/ (LoopSteps /\ UNCHANGED mainVars)
              \/ \E p \in Polls : Step(p) /\ UNCHANGED mainVars
  BY DEF Main, MainSteps, LoopNext, Executes, LoopSteps
<1>8. (\E p \in Polls : Step(p) /\ UNCHANGED mainVars) =>
        Base' /\ Ways /\ scenario' = scenario /\ interface' = interface
  BY <1>2, <1>3 DEF Base
<1> QED
  BY <1>1, <1>4, <1>5, <1>6, <1>7, <1>8 DEF Next

LEMMA InitBase == Init => Base
<1> SUFFICES ASSUME Init PROVE Base
  OBVIOUS
<1>1. TypeOK /\ Control /\ Places
  BY InitPlaces
<1>2. Keys = {} /\ ~interactive /\ keybuf = <<>> /\ queue = <<>> /\ terminal = <<>> /\ held = 0
  BY DEF Init, LoopInit, Keys
<1>3. Buffered = {} /\ HeldKey = {} /\ Queued = {} /\ Waiting = {}
  BY <1>2, NoElements DEF Buffered, HeldKey, Queued, Waiting
<1>4. Lines /\ KindsTyped
  BY <1>2, <1>3, NoElements DEF Lines, KindsTyped, Pending, Ahead
<1> QED
  BY <1>1, <1>4 DEF Base

-----------------------------------------------------------------------------
(* The entries of the history.  One is running while its macro is executed.*)
Entries ==
  /\ Busy => running.entry \in DOMAIN handled
  /\ \A i \in DOMAIN handled :
       handled[i].outcome = "running" <=> Busy /\ i = running.entry

LEMMA AppendedEntry ==
  ASSUME TypeOK, NEW keys, NEW outcome, handled' = Append(handled, Entry(keys, outcome))
  PROVE  /\ DOMAIN handled' = DOMAIN handled \cup {Len(handled) + 1}
         /\ Len(handled') = Len(handled) + 1
         /\ \A i \in DOMAIN handled : i \in Nat /\ i < Len(handled) + 1 /\ handled'[i] = handled[i]
         /\ handled'[Len(handled) + 1] = Entry(keys, outcome)
         /\ Len(handled) + 1 \in Nat
<1>1. handled \in Seq(Entered)
  BY DEF TypeOK, LoopTypeOK
<1>2. /\ Len(handled') = Len(handled) + 1
      /\ \A i \in 1 .. Len(handled) : handled'[i] = handled[i]
      /\ handled'[Len(handled) + 1] = Entry(keys, outcome)
      /\ DOMAIN handled' = 1 .. (Len(handled) + 1)
      /\ DOMAIN handled = 1 .. Len(handled) /\ Len(handled) \in Nat
  BY <1>1
<1> QED
  BY <1>2

LEMMA EndedEntry ==
  ASSUME TypeOK, Entries, EndsEntry
  PROVE  /\ DOMAIN handled' = DOMAIN handled /\ Len(handled') = Len(handled)
         /\ \A i \in DOMAIN handled : /\ handled'[i].keys = handled[i].keys
                                      /\ i # running.entry => handled'[i] = handled[i]
         /\ running.entry \in DOMAIN handled /\ handled[running.entry].outcome = "running"
         /\ handled'[running.entry].outcome \in Endings
         /\ handled'[running.entry].wanted = wanted'
         /\ handled'[running.entry].outcome = "interrupted" => interrupted \/ wanted'
<1> DEFINE e == running.entry
<1>1. PICK outcome \in Endings :
        /\ handled' = [handled EXCEPT ![e].outcome = outcome, ![e].wanted = wanted']
        /\ outcome = "interrupted" => interrupted \/ wanted'
  BY DEF EndsEntry
<1>2. e \in DOMAIN handled /\ handled[e].outcome = "running" /\ handled \in Seq(Entered)
  BY DEF Entries, EndsEntry, TypeOK, LoopTypeOK
<1>3. handled[e] \in Entered
  BY <1>2
<1> DEFINE r == [handled[e] EXCEPT !.outcome = outcome, !.wanted = wanted']
<1>4. r.keys = handled[e].keys /\ r.outcome = outcome /\ r.wanted = wanted'
  BY <1>3 DEF Entered
<1>5. handled' = [handled EXCEPT ![e] = r]
  BY <1>1
<1> HIDE DEF r, e
<1>6. /\ DOMAIN handled' = DOMAIN handled
      /\ \A i \in DOMAIN handled : handled'[i] = IF i = e THEN r ELSE handled[i]
  BY <1>5
<1>7. Len(handled') = Len(handled)
  <2>1. handled' \in Seq({r} \cup Entered)
    <3>1. DOMAIN handled' = 1 .. Len(handled) /\ Len(handled) \in Nat
      BY <1>2, <1>6
    <3>2. \A i \in 1 .. Len(handled) : handled'[i] \in {r} \cup Entered
      BY <1>2, <1>6
    <3>3. handled' = [i \in 1 .. Len(handled) |-> handled'[i]]
      BY <1>5, <3>1
    <3> QED
      BY <3>1, <3>2, <3>3
  <2> QED
    BY <1>2, <1>6, <2>1
<1> QED
  BY <1>1, <1>2, <1>4, <1>6, <1>7 DEF e

LEMMA EntriesWays ==
  ASSUME Base, Entries, Ways
  PROVE  Entries'
<1>1. CASE Keeps
  BY <1>1 DEF Keeps, StaysBusy, Entries
<1>2. CASE EndsEntry
  <2>1. "running" \notin Endings /\ ~Busy'
    BY <1>2 DEF Endings, Rejecting, EndsEntry
  <2>2. /\ DOMAIN handled' = DOMAIN handled
        /\ \A i \in DOMAIN handled : i # running.entry => handled'[i] = handled[i]
        /\ handled'[running.entry].outcome \in Endings
    <3>1. TypeOK /\ Entries /\ EndsEntry
      BY <1>2 DEF Base
    <3> QED
      BY <3>1, EndedEntry
  <2>3. ASSUME NEW i \in DOMAIN handled PROVE handled'[i].outcome # "running"
    <3>1. CASE i = running.entry
      BY <2>1, <2>2, <3>1
    <3>2. CASE i # running.entry
      BY <2>2, <3>2 DEF Entries
    <3> QED
      BY <3>1, <3>2
  <2> QED
    BY <2>1, <2>2, <2>3 DEF Entries
<1>3. ASSUME NEW keys, NEW outcome, Adds(keys, outcome), outcome # "running"
      PROVE  Entries'
  <2>1. /\ DOMAIN handled' = DOMAIN handled \cup {Len(handled) + 1}
        /\ \A i \in DOMAIN handled : i # Len(handled) + 1 /\ handled'[i] = handled[i]
        /\ handled'[Len(handled) + 1].outcome = outcome
    BY <1>3, AppendedEntry DEF Base, Adds, Entry
  <2> QED
    BY <1>3, <2>1 DEF Adds, StaysBusy, Entries
<1>4. ASSUME NEW keys, Begins(keys)
      PROVE  Entries'
  <2>1. /\ DOMAIN handled' = DOMAIN handled \cup {Len(handled) + 1}
        /\ \A i \in DOMAIN handled : i # Len(handled) + 1 /\ handled'[i] = handled[i]
        /\ handled'[Len(handled) + 1].outcome = "running"
    BY <1>4, AppendedEntry DEF Base, Begins, Entry
  <2> QED
    BY <1>4, <2>1 DEF Begins, Entries
<1>5. CASE KeysRest
  BY <1>1, <1>2, <1>4, <1>5 DEF KeysRest
<1>6. CASE KeyIsRead
  BY <1>1, <1>3, <1>4, <1>6 DEF KeyIsRead, BecomesOf
<1>7. CASE KeyIsNested
  BY <1>3, <1>7 DEF KeyIsNested
<1>8. CASE KeyIsTyped
  BY <1>1, <1>8 DEF KeyIsTyped
<1> QED
  BY <1>5, <1>6, <1>7, <1>8 DEF Ways

-----------------------------------------------------------------------------
(* Characters of two bytes: the second one is not far behind the first.    *)
Characters ==
  /\ Len(keybuf) \in {0, 1}
  /\ \A k \in Buffered : typed[k] = "lead"
  /\ Utf8 => \A k \in Keys : typed[k] = "cont" <=> k > 1 /\ typed[k - 1] = "lead"
  /\ \A k \in Pending : typed[k] = "cont" => k - 1 \in Pending \cup Buffered
  /\ \A k \in Pending \cup Buffered : typed[k] = "lead" => k = Len(typed) \/ k + 1 \in Pending
  /\ Len(typed) > 0 /\ typed[Len(typed)] = "lead" => Len(typed) \in Pending \cup Buffered

(* Where there are such characters they arrive whole.                      *)
LEMMA Whole ==
  ASSUME Base, CharactersArriveWhole(scenario), NEW k \in Keys, typed[k] \in {"lead", "cont"}
  PROVE  /\ Utf8 /\ "asksByte" \notin scenario.keys /\ interface # "gtk"
         /\ interface = "tty" => "^C" \notin scenario.keys
<1>1. typed[k] \in scenario.keys
  BY DEF Base, KindsTyped
<1>2. scenario \in Scenarios /\ interface = scenario.interface
  BY DEF Base, TypeOK
<1> QED
  BY <1>1, <1>2, ScenarioTypes DEF CharactersArriveWhole

LEMMA KeysTyped ==
  ASSUME Base
  PROVE  /\ Buffered \subseteq Keys /\ Pending \subseteq Keys /\ Keys \subseteq Nat /\ Len(typed) \in Nat
         /\ \A k \in Keys : k >= 1 /\ k <= Len(typed) /\ (k > 1 => k - 1 \in Keys) /\ (k < Len(typed) => k + 1 \in Keys)
         /\ \A k : k \in Buffered <=> \E i \in 1 .. Len(keybuf) : k = keybuf[i]
         /\ keybuf = <<>> <=> Buffered = {}
         /\ keybuf = <<>> <=> Len(keybuf) = 0
<1>1. keybuf \in Seq(Numbers) /\ typed \in Seq(KeyKinds)
  BY DEF Base, TypeOK, LoopTypeOK
<1>2. /\ \A k : k \in Buffered <=> \E i \in 1 .. Len(keybuf) : k = keybuf[i]
      /\ keybuf = <<>> <=> Buffered = {}
  BY <1>1, ElementsOfSeq DEF Buffered
<1>3. keybuf = <<>> <=> Len(keybuf) = 0
  BY <1>1
<1>4. Buffered \subseteq Keys /\ Pending \subseteq Keys /\ Len(typed) \in Nat
  BY <1>1 DEF Base, Lines
<1> QED
  BY <1>2, <1>3, <1>4 DEF Keys

(* So the next key is the second byte exactly if there is a first one.     *)
LEMMA NextByte ==
  ASSUME Base, Characters, CharactersArriveWhole(scenario), NEW x, x \in Pending,
         Ahead({x}, Pending \ {x})
  PROVE  /\ keybuf # <<>> => Completes(x) /\ Len(keybuf) = 1 /\ keybuf[1] = x - 1
         /\ keybuf = <<>> => typed[x] # "cont"
<1> USE KeysTyped
<1>1. x \in Keys /\ \A k \in Pending : x <= k
  BY DEF Ahead
<1>2. ASSUME keybuf # <<>> PROVE Completes(x) /\ Len(keybuf) = 1 /\ keybuf[1] = x - 1
  <2> DEFINE l == keybuf[1]
  <2>1. Len(keybuf) = 1 /\ l \in Buffered
    BY <1>2 DEF Characters
  <2> HIDE DEF l
  <2>2. typed[l] = "lead" /\ l \in Keys /\ l < x
    BY <2>1 DEF Characters, Base, Lines, Ahead
  <2>3. l + 1 \in Pending
    <3>1. l # Len(typed)
      BY <1>1, <2>2 DEF Keys
    <3> QED
      BY <2>1, <2>2, <3>1 DEF Characters
  <2>4. x = l + 1 /\ Utf8
    BY <1>1, <2>2, <2>3, Whole
  <2>5. typed[x] = "cont"
    BY <1>1, <2>2, <2>4 DEF Characters
  <2> QED
    BY <2>1, <2>2, <2>4, <2>5 DEF Completes, l
<1>3. ASSUME keybuf = <<>>, typed[x] = "cont" PROVE FALSE
  <2>1. x - 1 \in Pending
    BY <1>1, <1>3 DEF Characters
  <2> QED
    BY <1>1, <2>1
<1> QED
  BY <1>2, <1>3

(* What becomes of a key then: it is collected, or it is complete.         *)
IsCollected(x) ==
  Keeps /\ keybuf = <<>> /\ Buffered = {} /\ keybuf' = <<x>> /\ Buffered' = {x} /\ typed[x] = "lead"
IsComplete(x) ==
  /\ keybuf' = <<>> /\ Buffered' = {}
  /\ typed[x] # "lead"
  /\ typed[x] = "cont" => Buffered = {x - 1}
  /\ typed[x] # "cont" => Buffered = {}
  /\ \E keys \in Seq(Numbers) :
       /\ Increasing(keys) /\ ToSet(keys) = Buffered \cup {x}
       /\ \/ Begins(keys)
          \/ \E outcome \in {"ignored", "quit"} : Adds(keys, outcome)
          \/ reader = "macro" /\ Adds(keys, "answer")

LEMMA ReadWhole ==
  ASSUME Base, Base', Characters, CharactersArriveWhole(scenario), NEW x, Takes(x), BecomesOf(x)
  PROVE  IsCollected(x) \/ IsComplete(x)
<1>1. x \in Pending /\ Pending' = Pending \ {x} /\ Ahead({x}, Pending \ {x})
  BY DEF Takes
<1>2. /\ keybuf # <<>> => Completes(x) /\ Len(keybuf) = 1 /\ keybuf[1] = x - 1
      /\ keybuf = <<>> => typed[x] # "cont"
  BY <1>1, NextByte
<1>3. x \in Numbers /\ <<x>> \in Seq(Numbers) /\ keybuf \in Seq(Numbers) /\ Numbers \in SUBSET Int
  BY <1>1, KeysTyped DEF Keys, Numbers, Base, TypeOK, LoopTypeOK
<1>4. Increasing(<<x>>) /\ ToSet(<<x>>) = {x}
  BY OneElement
<1>5. keybuf = <<>> => Buffered = {}
  BY KeysTyped
<1>6. keybuf' = <<>> => Buffered' = {}
  BY NoElements DEF Buffered
<1>7. ASSUME keybuf = <<>>, keybuf' = <<>>, typed[x] # "lead",
             \/ Begins(<<x>>)
             \/ \E outcome \in {"ignored", "quit"} : Adds(<<x>>, outcome)
             \/ reader = "macro" /\ Adds(<<x>>, "answer")
      PROVE  IsComplete(x)
  BY <1>2, <1>3, <1>4, <1>5, <1>6, <1>7 DEF IsComplete
<1>8. CASE Keeps /\ keybuf = <<>> /\ keybuf' = <<x>> /\ typed[x] = "lead"
  BY <1>4, <1>5, <1>8 DEF IsCollected, Buffered
<1>9. CASE Begins(<<x>>) /\ keybuf = <<>> /\ keybuf' = <<>> /\ typed[x] \notin {"lead", "cont"}
  BY <1>7, <1>9
<1>10. CASE /\ Begins(Append(keybuf, x)) \/ (reader = "macro" /\ Adds(Append(keybuf, x), "answer"))
            /\ Completes(x) /\ keybuf' = <<>>
  <2>1. keybuf # <<>> /\ typed[x] = "cont" /\ Len(keybuf) = 1 /\ keybuf[1] = x - 1
    BY <1>2, <1>10 DEF Completes
  <2>2. Buffered = {x - 1}
    BY <2>1, KeysTyped
  <2>3. Increasing(keybuf) /\ ToSet(keybuf) = Buffered /\ Ahead(Buffered, {x})
    BY <1>1 DEF Base, Lines, Ahead, Buffered
  <2> DEFINE keys == Append(keybuf, x)
  <2>4. keys \in Seq(Numbers) /\ Increasing(keys) /\ ToSet(keys) = Buffered \cup {x}
    BY <1>3, <2>3, AppendSorted
  <2> HIDE DEF keys
  <2>5. Begins(keys) \/ (reader = "macro" /\ Adds(keys, "answer"))
    BY <1>10 DEF keys
  <2> QED
    BY <1>6, <1>10, <2>1, <2>2, <2>4, <2>5 DEF IsComplete
<1>11. CASE ~Completes(x) /\ (keybuf # <<>> \/ typed[x] = "cont")
  BY <1>2, <1>11
<1>12. CASE /\ typed[x] \in {"function", "close"} /\ keybuf' = keybuf
            /\ \E outcome \in {"ignored", "quit"} : Adds(<<x>>, outcome)
  <2>1. keybuf = <<>>
    BY <1>2, <1>12 DEF Completes
  <2> QED
    BY <1>7, <1>12, <2>1
<1>13. CASE /\ reader = "macro" /\ Adds(<<x>>, "answer") /\ keybuf = <<>> /\ keybuf' = <<>>
            /\ typed[x] \in {"lead", "cont"} => "asksByte" \in scenario.keys
  <2>1. typed[x] # "lead"
    BY <1>1, <1>13, Whole, KeysTyped
  <2> QED
    BY <1>7, <1>13, <2>1
<1> QED
  BY <1>8, <1>9, <1>10, <1>11, <1>12, <1>13 DEF BecomesOf

LEMMA CharactersWays ==
  ASSUME Base, Base', Characters, CharactersArriveWhole(scenario), Ways
  PROVE  Characters'
<1> USE KeysTyped
<1> DEFINE n == Len(typed)
<1>1. ASSUME NEW C, Unread(C) PROVE Characters'
  <2>1. /\ typed' = typed /\ keybuf' = keybuf /\ Buffered' = Buffered /\ Keys' = Keys
        /\ Pending' = Pending \ C
        /\ \A k \in C : typed[k] = "^C"
    BY <1>1 DEF Unread, Buffered, Keys, IsInterrupt
  <2>2. ASSUME NEW k \in Pending', typed[k] = "cont" PROVE k - 1 \in Pending' \cup Buffered
    <3>1. k \in Keys /\ k - 1 \in Pending \cup Buffered
      BY <2>1, <2>2 DEF Characters
    <3>2. k > 1 /\ typed[k - 1] = "lead"
      BY <2>2, <3>1, Whole DEF Characters
    <3> QED
      BY <2>1, <3>1, <3>2
  <2>3. ASSUME NEW k \in Pending' \cup Buffered, typed[k] = "lead"
        PROVE  k = n \/ k + 1 \in Pending'
    <3>1. k \in Keys /\ (k = n \/ k + 1 \in Pending)
      BY <2>1, <2>3 DEF Characters
    <3>2. k # n => k + 1 \in Keys /\ typed[k + 1] = "cont"
      <4>1. k # n => k + 1 \in Keys /\ k + 1 > 1 /\ (k + 1) - 1 = k
        BY <3>1
      <4> QED
        BY <2>3, <3>1, <4>1, Whole DEF Characters
    <3> QED
      BY <2>1, <3>1, <3>2
  <2>4. n > 0 /\ typed[n] = "lead" => n \in Pending' \cup Buffered
    BY <2>1 DEF Characters
  <2> QED
    BY <2>1, <2>2, <2>3, <2>4 DEF Characters
<1>2. ASSUME NEW x, Takes(x), BecomesOf(x) PROVE Characters'
  <2>1. /\ x \in Pending /\ Pending' = Pending \ {x} /\ Ahead({x}, Pending')
        /\ typed' = typed /\ Keys' = Keys
    BY <1>2 DEF Takes, Keys
  <2>2. CASE IsCollected(x)
    <3>1. /\ Buffered = {} /\ Buffered' = {x} /\ Len(keybuf') = 1 /\ typed[x] = "lead"
          /\ Pending' \cup Buffered' = Pending /\ x \in Keys
      BY <2>1, <2>2 DEF IsCollected
    <3>2. \A k \in Pending : k >= x /\ k + 1 # x
      BY <2>1, <3>1 DEF Ahead
    <3>3. \A k \in Pending' \cup Buffered' : typed[k] = "lead" => k = n \/ k + 1 \in Pending'
      BY <2>1, <3>1, <3>2 DEF Characters
    <3> QED
      BY <2>1, <3>1, <3>3 DEF Characters
  <2>3. CASE IsComplete(x)
    <3>1. /\ Buffered' = {} /\ Len(keybuf') = 0 /\ x \in Keys
          /\ typed[x] # "lead"
          /\ typed[x] = "cont" => Buffered = {x - 1}
          /\ typed[x] # "cont" => Buffered = {}
      BY <2>1, <2>3 DEF IsComplete
    <3>2. ASSUME NEW k \in Pending', typed[k] = "cont" PROVE k - 1 \in Pending'
      <4>1. k \in Pending /\ k > x /\ k \in Keys
        BY <2>1, <3>1 DEF Ahead
      <4>2. k - 1 \in Pending \cup Buffered /\ typed[k - 1] = "lead"
        BY <3>2, <4>1, Whole DEF Characters
      <4>3. k - 1 # x /\ k - 1 \notin Buffered
        BY <3>1, <4>1, <4>2
      <4> QED
        BY <2>1, <4>2, <4>3
    <3>3. ASSUME NEW k \in Pending', typed[k] = "lead" PROVE k = n \/ k + 1 \in Pending'
      <4>1. k \in Pending /\ k > x /\ k \in Keys
        BY <2>1, <3>1 DEF Ahead
      <4>2. (k = n \/ k + 1 \in Pending) /\ k + 1 # x
        BY <3>1, <3>3, <4>1 DEF Characters
      <4> QED
        BY <2>1, <4>2
    <3>4. n > 0 /\ typed[n] = "lead" => n \in Pending'
      <4>1. SUFFICES ASSUME n > 0, typed[n] = "lead" PROVE n \in Pending'
        OBVIOUS
      <4>2. n \in Pending \cup Buffered /\ n # x
        BY <3>1, <4>1 DEF Characters
      <4>3. n \notin Buffered
        BY <3>1
      <4> QED
        BY <2>1, <4>2, <4>3
    <3> QED
      BY <2>1, <3>1, <3>2, <3>3, <3>4 DEF Characters
  <2> QED
    BY <1>2, <2>2, <2>3, ReadWhole
<1>3. CASE KeyIsNested
  <2>1. interface = "gtk" /\ typed' = typed /\ Keys' = Keys /\ keybuf' = keybuf
    BY <1>3 DEF KeyIsNested, TakesNested, Keys
  <2>2. \A k \in Keys : typed[k] \notin {"lead", "cont"}
    BY <2>1, Whole
  <2>3. /\ keybuf' = <<>> /\ Len(keybuf') = 0 /\ Buffered' = {} /\ Pending' \subseteq Keys
    BY <1>3, <2>1, NoElements DEF KeyIsNested, Buffered, Base, Lines
  <2>4. n > 0 => n \in Keys
    BY DEF Keys
  <2>5. \A k \in Keys : typed[k] # "cont" /\ ~(k > 1 /\ typed[k - 1] = "lead")
    BY <2>2
  <2> QED
    BY <2>1, <2>2, <2>3, <2>4, <2>5 DEF Characters
<1>4. CASE KeyIsTyped
  <2>1. PICK kind \in scenario.keys :
          /\ typed' = Append(typed, kind)
          /\ Utf8 => (kind = "cont" <=> typed # <<>> /\ Last(typed) = "lead")
          /\ UNCHANGED <<keybuf, queue, held>>
          /\ \/ Waiting' = Waiting \cup {n + 1}
             \/ interface = "tty" /\ kind = "^C" /\ Waiting' = {}
    BY <1>4 DEF KeyIsTyped
  <2>2. /\ Len(typed') = n + 1 /\ typed'[n + 1] = kind /\ n \in Nat
        /\ \A k \in 1 .. n : typed'[k] = typed[k]
        /\ typed # <<>> <=> n > 0
    BY <2>1 DEF Base, TypeOK, LoopTypeOK
  <2>3. /\ Keys' = Keys \cup {n + 1} /\ \A k \in Keys : typed'[k] = typed[k]
        /\ n > 0 => n \in Keys
        /\ Utf8 => (kind = "cont" <=> n > 0 /\ typed[n] = "lead")
        /\ Buffered' = Buffered
    BY <2>1, <2>2 DEF Keys, Last, Buffered
  <2>4. Utf8 => \A k \in Keys' : typed'[k] = "cont" <=> k > 1 /\ typed'[k - 1] = "lead"
    <3> SUFFICES ASSUME Utf8, NEW k \in Keys'
                 PROVE  typed'[k] = "cont" <=> k > 1 /\ typed'[k - 1] = "lead"
      OBVIOUS
    <3>1. CASE k \in Keys
      BY <2>3, <3>1 DEF Characters
    <3>2. CASE k = n + 1
      <4>1. k > 1 <=> n > 0
        BY <2>2, <3>2
      <4>2. (n + 1) - 1 = n
        BY <2>2
      <4> QED
        BY <2>2, <2>3, <3>2, <4>1, <4>2
    <3> QED
      BY <2>3, <3>1, <3>2
  <2>5. CASE Waiting' = Waiting \cup {n + 1}
    <3>1. Pending' = Pending \cup {n + 1}
      BY <2>1, <2>5 DEF Pending, HeldKey, Queued
    <3>2. ASSUME NEW k \in Pending', typed'[k] = "cont" PROVE k - 1 \in Pending' \cup Buffered
      <4>1. CASE k = n + 1
        <5>1. n + 1 \in Keys' /\ Utf8
          BY <2>1, <2>2, <2>3, <3>2, <4>1 DEF CharactersArriveWhole
        <5> QED
          BY <2>2, <2>3, <3>1, <3>2, <4>1, <5>1 DEF Characters
      <4>2. CASE k \in Pending
        BY <2>3, <3>1, <3>2, <4>2 DEF Characters
      <4> QED
        BY <3>1, <4>1, <4>2
    <3>3. ASSUME NEW k \in Pending' \cup Buffered, typed'[k] = "lead"
          PROVE  k = n + 1 \/ k + 1 \in Pending'
      <4>1. CASE k \in Pending \cup Buffered
        <5>1. k = n \/ k + 1 \in Pending
          BY <2>3, <3>3, <4>1 DEF Characters
        <5> QED
          BY <3>1, <5>1
      <4> QED
        BY <3>1, <4>1
    <3> QED
      BY <2>1, <2>2, <2>3, <2>4, <3>1, <3>2, <3>3 DEF Characters
  <2>6. CASE interface = "tty" /\ kind = "^C"
    <3>1. \A k \in Keys' : typed'[k] \notin {"lead", "cont"}
      BY <2>2, <2>3, <2>6, Whole
    <3>2. /\ Buffered' \subseteq Keys' /\ Pending' \subseteq Keys' /\ n + 1 \in Keys'
      BY <2>3 DEF Base, Lines
    <3> QED
      BY <2>1, <2>2, <2>3, <2>4, <3>1, <3>2 DEF Characters
  <2> QED
    BY <2>1, <2>5, <2>6
<1> QED
  BY <1>1, <1>2, <1>3, <1>4 DEF Ways, KeysRest, KeyIsRead

-----------------------------------------------------------------------------
(* The order of the keys.  What has been taken is in front of what has not,*)
(* but GTK's nested main loop overtakes the queue.                         *)
TakenByLoop(e) == interface # "gtk" \/ e.outcome \notin {"answer", "ignored"}
Comparable(e, f) ==
  \/ interface # "gtk"
  \/ e.outcome = "answer" /\ f.outcome = "answer"
  \/ TakenByLoop(e) /\ TakenByLoop(f)
Untaken == Buffered \cup Pending
UntakenNested == IF interface = "gtk" THEN Waiting ELSE Untaken
Order ==
  /\ \A i \in DOMAIN handled :
       /\ Increasing(handled[i].keys) /\ ToSet(handled[i].keys) \subseteq Keys
       /\ Ahead(ToSet(handled[i].keys), UntakenNested)
       /\ TakenByLoop(handled[i]) => Ahead(ToSet(handled[i].keys), Untaken)
  /\ \A i, j \in DOMAIN handled :
       i < j /\ Comparable(handled[i], handled[j]) =>
         Ahead(ToSet(handled[i].keys), ToSet(handled[j].keys))

LEMMA OrderMeansInOrder ==
  ASSUME TypeOK, Order
  PROVE  InOrder
<1> SUFFICES ASSUME NEW S, interface # "gtk" \/ S = {"answer"} \/ S = Outcomes \ {"answer", "ignored"}
             PROVE  Sorted(S)
  BY DEF InOrder
<1> SUFFICES ASSUME NEW i \in DOMAIN handled, NEW j \in DOMAIN handled,
                    NEW a \in DOMAIN handled[i].keys, NEW b \in DOMAIN handled[j].keys,
                    handled[i].outcome \in S, handled[j].outcome \in S, i < j \/ (i = j /\ a < b)
             PROVE  handled[i].keys[a] < handled[j].keys[b]
  BY DEF Sorted
<1>1. handled[i] \in Entered /\ handled[j] \in Entered
  BY DEF TypeOK, LoopTypeOK
<1>2. handled[i].keys \in Seq(Numbers) /\ handled[j].keys \in Seq(Numbers)
  BY <1>1 DEF Entered
<1>3. a \in 1 .. Len(handled[i].keys) /\ b \in 1 .. Len(handled[j].keys)
  BY <1>2
<1>4. CASE i = j
  BY <1>3, <1>4 DEF Order, Increasing, TypeOK, LoopTypeOK
<1>5. CASE i < j
  <2>1. Comparable(handled[i], handled[j])
    BY DEF Comparable, TakenByLoop
  <2>2. handled[i].keys[a] \in ToSet(handled[i].keys) /\ handled[j].keys[b] \in ToSet(handled[j].keys)
    BY <1>2, <1>3, ElementsOfSeq
  <2> QED
    BY <1>5, <2>1, <2>2 DEF Order, Ahead
<1> QED
  BY <1>4, <1>5

(* Nothing is taken, and what is new is behind everything.                 *)
LEMMA OrderStays ==
  ASSUME Order, interface' = interface,
         DOMAIN handled' = DOMAIN handled,
         \A i \in DOMAIN handled :
           /\ handled'[i].keys = handled[i].keys
           /\ \A o \in {"answer", "ignored"} : handled'[i].outcome = o <=> handled[i].outcome = o,
         NEW new, Keys' = Keys \cup new, Ahead(Keys, new),
         Untaken' \subseteq Untaken \cup new, UntakenNested' \subseteq UntakenNested \cup new
  PROVE  Order'
<1>1. ASSUME NEW i \in DOMAIN handled
      PROVE  /\ TakenByLoop(handled[i])' = TakenByLoop(handled[i])
             /\ handled'[i].keys = handled[i].keys
             /\ handled'[i].outcome = "answer" <=> handled[i].outcome = "answer"
  BY DEF TakenByLoop
<1>2. ASSUME NEW i \in DOMAIN handled
      PROVE  /\ Increasing(handled'[i].keys) /\ ToSet(handled'[i].keys) \subseteq Keys'
             /\ Ahead(ToSet(handled'[i].keys), UntakenNested')
             /\ TakenByLoop(handled[i])' => Ahead(ToSet(handled'[i].keys), Untaken')
  <2> DEFINE K == ToSet(handled[i].keys)
  <2>1. /\ Increasing(handled[i].keys) /\ K \subseteq Keys /\ Ahead(K, UntakenNested)
        /\ TakenByLoop(handled[i]) => Ahead(K, Untaken)
    BY DEF Order
  <2>2. Ahead(K, new)
    BY <2>1 DEF Ahead
  <2> HIDE DEF K
  <2>3. Ahead(K, UntakenNested') /\ (TakenByLoop(handled[i]) => Ahead(K, Untaken'))
    BY <2>1, <2>2 DEF Ahead
  <2> QED
    BY <1>1, <2>1, <2>3 DEF K
<1>3. ASSUME NEW i \in DOMAIN handled, NEW j \in DOMAIN handled,
             i < j, Comparable(handled[i], handled[j])'
      PROVE  Ahead(ToSet(handled'[i].keys), ToSet(handled'[j].keys))
  <2>1. Comparable(handled[i], handled[j])
    BY <1>1, <1>3 DEF Comparable
  <2> QED
    BY <1>1, <1>3, <2>1 DEF Order
<1> QED
  BY <1>2, <1>3 DEF Order

(* An entry is added for keys that have not been taken.                    *)
LEMMA OrderGrows ==
  ASSUME TypeOK, Order, interface' = interface, Keys' = Keys,
         NEW K, NEW o, handled' = Append(handled, Entry(K, o)),
         Increasing(K), ToSet(K) \subseteq Keys, Ahead(ToSet(K), UntakenNested'),
         interface # "gtk" \/ o \notin {"answer", "ignored"} => Ahead(ToSet(K), Untaken'),
         \/ ToSet(K) \subseteq Untaken /\ (interface = "gtk" => o # "answer")
         \/ ToSet(K) \subseteq UntakenNested,
         Untaken' \subseteq Untaken, UntakenNested' \subseteq UntakenNested
  PROVE  Order'
<1>1. PICK n \in Nat :
        /\ DOMAIN handled' = DOMAIN handled \cup {n}
        /\ \A i \in DOMAIN handled : i \in Nat /\ i < n /\ handled'[i] = handled[i]
        /\ handled'[n].keys = K /\ handled'[n].outcome = o
  BY AppendedEntry DEF Entry
<1>2. ASSUME NEW i \in DOMAIN handled
      PROVE  /\ Increasing(handled'[i].keys) /\ ToSet(handled'[i].keys) \subseteq Keys'
             /\ Ahead(ToSet(handled'[i].keys), UntakenNested')
             /\ TakenByLoop(handled[i])' => Ahead(ToSet(handled'[i].keys), Untaken')
  <2> DEFINE I == ToSet(handled[i].keys)
  <2>1. /\ Increasing(handled[i].keys) /\ I \subseteq Keys /\ Ahead(I, UntakenNested)
        /\ TakenByLoop(handled[i]) => Ahead(I, Untaken)
        /\ handled'[i] = handled[i]
    BY <1>1 DEF Order
  <2> HIDE DEF I
  <2>2. Ahead(I, UntakenNested') /\ (TakenByLoop(handled[i]) => Ahead(I, Untaken'))
    BY <2>1 DEF Ahead
  <2>3. TakenByLoop(handled[i])' <=> TakenByLoop(handled[i])
    BY <2>1 DEF TakenByLoop
  <2> QED
    BY <2>1, <2>2, <2>3 DEF I
<1>3. /\ Increasing(handled'[n].keys) /\ ToSet(handled'[n].keys) \subseteq Keys'
      /\ Ahead(ToSet(handled'[n].keys), UntakenNested')
      /\ TakenByLoop(handled[n])' => Ahead(ToSet(handled'[n].keys), Untaken')
  BY <1>1 DEF TakenByLoop
<1>4. ASSUME NEW i \in DOMAIN handled, Comparable(handled[i], handled[n])'
      PROVE  Ahead(ToSet(handled'[i].keys), ToSet(K))
  <2>1. /\ handled'[i] = handled[i]
        /\ interface # "gtk" \/ (handled[i].outcome = "answer" /\ o = "answer")
             \/ (TakenByLoop(handled[i]) /\ o \notin {"answer", "ignored"})
    BY <1>1, <1>4 DEF Comparable, TakenByLoop
  <2>2. CASE ToSet(K) \subseteq Untaken /\ (interface = "gtk" => o # "answer")
    <3>1. TakenByLoop(handled[i])
      BY <2>1, <2>2 DEF TakenByLoop
    <3> QED
      BY <2>1, <2>2, <3>1 DEF Order, Ahead
  <2>3. CASE ToSet(K) \subseteq UntakenNested
    BY <2>1, <2>3 DEF Order, Ahead
  <2> QED
    BY <2>2, <2>3
<1>5. ASSUME NEW i \in DOMAIN handled', NEW j \in DOMAIN handled',
             i < j, Comparable(handled[i], handled[j])'
      PROVE  Ahead(ToSet(handled'[i].keys), ToSet(handled'[j].keys))
  <2>1. i \in DOMAIN handled
    BY <1>1, <1>5
  <2>2. CASE j = n
    BY <1>1, <1>4, <1>5, <2>1, <2>2
  <2>3. CASE j \in DOMAIN handled
    <3>1. Comparable(handled[i], handled[j])
      BY <1>1, <1>5, <2>1, <2>3 DEF Comparable, TakenByLoop
    <3> QED
      BY <1>1, <1>5, <2>1, <2>3, <3>1 DEF Order
  <2> QED
    BY <1>1, <2>2, <2>3
<1> QED
  BY <1>1, <1>2, <1>3, <1>5 DEF Order

LEMMA OrderWays ==
  ASSUME Base, Base', Entries, Characters, CharactersArriveWhole(scenario), Order, Ways,
         interface' = interface
  PROVE  Order'
<1> USE KeysTyped
<1>0. TypeOK
  BY DEF Base
<1>1. ASSUME NEW new, Keys' = Keys \cup new, Ahead(Keys, new), Keeps \/ EndsEntry,
             Untaken' \subseteq Untaken \cup new, UntakenNested' \subseteq UntakenNested \cup new
      PROVE  Order'
  <2>1. CASE Keeps
    BY <1>1, <2>1, OrderStays DEF Keeps
  <2>2. CASE EndsEntry
    <3>1. /\ DOMAIN handled' = DOMAIN handled
          /\ \A i \in DOMAIN handled : /\ handled'[i].keys = handled[i].keys
                                       /\ i # running.entry => handled'[i] = handled[i]
          /\ handled[running.entry].outcome = "running"
          /\ handled'[running.entry].outcome \in Endings
      BY <1>0, <2>2, EndedEntry
    <3>2. {"answer", "ignored"} \cap Endings = {}
      BY DEF Endings, Rejecting
    <3>3. ASSUME NEW i \in DOMAIN handled, NEW o \in {"answer", "ignored"}
          PROVE  handled'[i].outcome = o <=> handled[i].outcome = o
      <4>1. CASE i = running.entry
        BY <3>1, <3>2, <4>1
      <4>2. CASE i # running.entry
        BY <3>1, <4>2
      <4> QED
        BY <4>1, <4>2
    <3> QED
      BY <1>1, <3>1, <3>3, OrderStays
  <2> QED
    BY <1>1, <2>1, <2>2
<1>2. CASE KeysRest
  <2>1. PICK C : Unread(C) /\ (Keeps \/ EndsEntry \/ (handled = <<>> /\ Begins(<<>>)))
    BY <1>2 DEF KeysRest
  <2>2. /\ Keys' = Keys /\ Untaken' \subseteq Untaken /\ UntakenNested' \subseteq UntakenNested
    BY <2>1 DEF Unread, Keys, Untaken, UntakenNested, Buffered
  <2>3. CASE Keeps \/ EndsEntry
    <3>1. /\ Keys' = Keys \cup {} /\ Ahead(Keys, {})
          /\ Untaken' \subseteq Untaken \cup {} /\ UntakenNested' \subseteq UntakenNested \cup {}
      BY <2>2 DEF Ahead
    <3> QED
      BY <1>1, <2>3, <3>1
  <2>4. CASE handled = <<>> /\ Begins(<<>>)
    <3>1. handled' = Append(handled, Entry(<<>>, "running"))
      BY <2>4 DEF Begins
    <3> QED
      BY <1>0, <2>2, <3>1, NoElements, OrderGrows DEF Ahead
  <2> QED
    BY <2>1, <2>3, <2>4
<1>3. ASSUME NEW x, Takes(x), BecomesOf(x), interface = "gtk" => reader = "loop"
      PROVE  Order'
  <2>1. /\ x \in Pending /\ Pending' = Pending \ {x} /\ Ahead({x}, Pending')
        /\ Waiting' \subseteq Waiting /\ Keys' = Keys /\ x \in Keys
    BY <1>3 DEF Takes, Keys
  <2>2. Waiting' \subseteq Pending' /\ Ahead(Buffered, Pending')
    BY <2>1 DEF Pending, Base, Lines, Ahead
  <2>3. CASE IsCollected(x)
    <3>1. Keeps /\ Buffered' = {x}
      BY <2>3 DEF IsCollected
    <3>2. Untaken' \subseteq Untaken /\ UntakenNested' \subseteq UntakenNested
      BY <2>1, <3>1 DEF Untaken, UntakenNested
    <3> QED
      <4>1. /\ Keys' = Keys \cup {} /\ Ahead(Keys, {})
            /\ Untaken' \subseteq Untaken \cup {} /\ UntakenNested' \subseteq UntakenNested \cup {}
        BY <2>1, <3>2 DEF Ahead
      <4> QED
        BY <1>1, <3>1, <4>1
  <2>4. CASE IsComplete(x)
    <3>1. Buffered' = {} /\ Untaken' = Pending' /\ UntakenNested' \subseteq Pending'
      BY <2>2, <2>4 DEF IsComplete, Untaken, UntakenNested
    <3>2. Untaken' \subseteq Untaken /\ UntakenNested' \subseteq UntakenNested
      BY <2>1, <3>1 DEF Untaken, UntakenNested
    <3>3. PICK K \in Seq(Numbers) :
            /\ Increasing(K) /\ ToSet(K) = Buffered \cup {x}
            /\ \/ Begins(K)
               \/ \E outcome \in {"ignored", "quit"} : Adds(K, outcome)
               \/ reader = "macro" /\ Adds(K, "answer")
      BY <2>4 DEF IsComplete
    <3>4. PICK o : /\ handled' = Append(handled, Entry(K, o))
                   /\ o = "answer" => reader = "macro"
      BY <3>3 DEF Begins, Adds
    <3>5. /\ ToSet(K) \subseteq Keys /\ ToSet(K) \subseteq Untaken
          /\ Ahead(ToSet(K), Untaken') /\ Ahead(ToSet(K), UntakenNested')
      BY <2>1, <2>2, <3>1, <3>3 DEF Untaken, Ahead
    <3>6. interface = "gtk" => o # "answer"
      BY <1>3, <3>4
    <3> HIDE DEF IsComplete
    <3> QED
      BY <1>0, <2>1, <3>2, <3>3, <3>4, <3>5, <3>6, OrderGrows
  <2> QED
    BY <1>3, <2>3, <2>4, ReadWhole
<1>4. CASE KeyIsNested
  <2>0. PICK x : TakesNested(x) /\ \E o \in {"ignored", "answer"} : Adds(<<x>>, o)
    BY <1>4 DEF KeyIsNested
  <2>1. PICK o \in {"ignored", "answer"} : TakesNested(x) /\ Adds(<<x>>, o)
    BY <2>0
  <2>2. /\ interface = "gtk" /\ x \in Waiting /\ x \in Keys /\ Waiting' = Waiting \ {x} /\ Ahead({x}, Waiting')
        /\ Keys' = Keys /\ Buffered' = Buffered /\ Queued' = Queued /\ HeldKey' = HeldKey
    BY <2>1 DEF TakesNested, Keys, Buffered, Queued, HeldKey, Pending
  <2>3. Untaken' \subseteq Untaken /\ UntakenNested' = Waiting' /\ UntakenNested = Waiting
    BY <2>2 DEF Untaken, UntakenNested, Pending
  <2>4. ToSet(<<x>>) = {x} /\ Increasing(<<x>>)
    BY OneElement
  <2>5. handled' = Append(handled, Entry(<<x>>, o))
    BY <2>1 DEF Adds
  <2> DEFINE K == <<x>>
  <2>6. /\ Increasing(K) /\ ToSet(K) \subseteq Keys /\ Ahead(ToSet(K), UntakenNested')
        /\ ToSet(K) \subseteq UntakenNested /\ handled' = Append(handled, Entry(K, o))
        /\ ~(interface # "gtk" \/ o \notin {"answer", "ignored"})
        /\ UntakenNested' \subseteq UntakenNested
    BY <2>2, <2>3, <2>4, <2>5
  <2> HIDE DEF K
  <2> QED
    BY <1>0, <2>2, <2>3, <2>6, OrderGrows
<1>5. CASE KeyIsTyped
  <2> DEFINE n == Len(typed)
  <2>1. PICK kind \in scenario.keys :
          /\ typed' = Append(typed, kind)
          /\ UNCHANGED <<keybuf, queue, held>>
          /\ Keeps
          /\ \/ Waiting' = Waiting \cup {n + 1}
             \/ Waiting' = {}
    BY <1>5 DEF KeyIsTyped
  <2>2. Len(typed') = n + 1 /\ n \in Nat
    BY <2>1 DEF Base, TypeOK, LoopTypeOK
  <2>3. Keys' = Keys \cup {n + 1} /\ Ahead(Keys, {n + 1})
    BY <2>2 DEF Keys, Ahead
  <2>4. Waiting' \subseteq Waiting \cup {n + 1}
    BY <2>1
  <2>5. /\ Untaken' \subseteq Untaken \cup {n + 1} /\ UntakenNested' \subseteq UntakenNested \cup {n + 1}
    BY <2>1, <2>4 DEF Untaken, UntakenNested, Pending, HeldKey, Queued, Buffered
  <2> QED
    BY <1>1, <2>1, <2>3, <2>5
<1> QED
  BY <1>2, <1>3, <1>4, <1>5 DEF Ways, KeyIsRead

-----------------------------------------------------------------------------
(* No key is lost.                                                         *)
HandledKeys == {k \in Keys : \E i \in DOMAIN handled :
                  k \in ToSet(handled[i].keys) /\ handled[i].outcome # "invalid"}
NothingLost == Keys \subseteq HandledKeys \cup Untaken \cup eaten

LEMMA NothingLostMeans ==
  ASSUME TypeOK
  PROVE  NothingLost <=> NoneLost
<1>1. DOMAIN typed = Keys
  BY DEF TypeOK, LoopTypeOK, Keys
<1>2. \A k \in Keys : k \in HeldKey <=> k = held
  BY DEF Keys, HeldKey
<1> QED
  BY <1>1, <1>2 DEF NothingLost, NoneLost, HandledKeys, Untaken, Pending, Queued, Waiting, Buffered

LEMMA NothingLostWays ==
  ASSUME Base, Base', Entries, Characters, CharactersArriveWhole(scenario), NothingLost, Ways
  PROVE  NothingLost'
<1>0. TypeOK
  BY DEF Base
<1>1. ASSUME Keeps, Keys \subseteq Keys' PROVE HandledKeys \subseteq HandledKeys'
  BY <1>1 DEF Keeps, HandledKeys
<1>2. ASSUME EndsEntry, Keys' = Keys PROVE HandledKeys \subseteq HandledKeys'
  <2>1. /\ DOMAIN handled' = DOMAIN handled
        /\ \A i \in DOMAIN handled : /\ handled'[i].keys = handled[i].keys
                                     /\ i # running.entry => handled'[i] = handled[i]
        /\ handled'[running.entry].outcome \in Endings
    BY <1>0, <1>2, EndedEntry
  <2>2. "invalid" \notin Endings
    BY DEF Endings, Rejecting
  <2>3. \A i \in DOMAIN handled : handled[i].outcome # "invalid" => handled'[i].outcome # "invalid"
    BY <2>1, <2>2
  <2> QED
    BY <1>2, <2>1, <2>3 DEF HandledKeys
<1>3. ASSUME NEW K, NEW o, handled' = Append(handled, Entry(K, o)), o # "invalid", Keys' = Keys
      PROVE  HandledKeys \cup (ToSet(K) \cap Keys) \subseteq HandledKeys'
  <2>1. PICK n \in Nat : /\ DOMAIN handled' = DOMAIN handled \cup {n}
                         /\ \A i \in DOMAIN handled : handled'[i] = handled[i]
                         /\ handled'[n].keys = K /\ handled'[n].outcome = o
    BY <1>0, <1>3, AppendedEntry DEF Entry
  <2> QED
    BY <1>3, <2>1 DEF HandledKeys
<1>4. CASE KeysRest
  <2>1. PICK C : Unread(C) /\ (Keeps \/ EndsEntry \/ (handled = <<>> /\ Begins(<<>>)))
    BY <1>4 DEF KeysRest
  <2>2. /\ Keys' = Keys /\ Untaken \subseteq Untaken' \cup eaten' /\ eaten \subseteq eaten'
    BY <2>1 DEF Unread, Keys, Untaken, Buffered
  <2>3. HandledKeys \subseteq HandledKeys'
    BY <1>1, <1>2, <1>3, <2>1, <2>2 DEF Begins
  <2> QED
    BY <2>2, <2>3 DEF NothingLost
<1>5. ASSUME NEW x, Takes(x), BecomesOf(x) PROVE NothingLost'
  <2>1. Pending' = Pending \ {x} /\ Keys' = Keys /\ eaten' = eaten
    BY <1>5 DEF Takes, Keys
  <2>2. CASE IsCollected(x)
    <3>1. Keeps /\ Buffered = {} /\ Buffered' = {x}
      BY <2>2 DEF IsCollected
    <3>2. HandledKeys \subseteq HandledKeys' /\ Untaken \subseteq Untaken'
      BY <1>1, <2>1, <3>1 DEF Untaken
    <3> QED
      BY <2>1, <3>2 DEF NothingLost
  <2>3. CASE IsComplete(x)
    <3>1. PICK K \in Seq(Numbers) :
            /\ ToSet(K) = Buffered \cup {x}
            /\ \/ Begins(K)
               \/ \E outcome \in {"ignored", "quit"} : Adds(K, outcome)
               \/ reader = "macro" /\ Adds(K, "answer")
      BY <2>3 DEF IsComplete
    <3>2. PICK o : handled' = Append(handled, Entry(K, o)) /\ o # "invalid"
      BY <3>1 DEF Begins, Adds
    <3>3. HandledKeys \cup ((Buffered \cup {x}) \cap Keys) \subseteq HandledKeys'
      BY <1>3, <2>1, <3>1, <3>2
    <3> QED
      BY <2>1, <3>3 DEF NothingLost, Untaken
  <2> QED
    BY <1>5, <2>2, <2>3, ReadWhole
<1>6. CASE KeyIsNested
  <2>0. PICK x : TakesNested(x) /\ \E o \in {"ignored", "answer"} : Adds(<<x>>, o)
    BY <1>6 DEF KeyIsNested
  <2>1. PICK o \in {"ignored", "answer"} : Adds(<<x>>, o)
    BY <2>0
  <2>2. /\ Keys' = Keys /\ eaten' = eaten /\ Waiting' = Waiting \ {x} /\ Buffered' = Buffered
        /\ Queued' = Queued /\ HeldKey' = HeldKey
    BY <2>0 DEF TakesNested, Keys, Buffered, Queued, HeldKey
  <2>3. HandledKeys \cup ({x} \cap Keys) \subseteq HandledKeys'
    <3>1. handled' = Append(handled, Entry(<<x>>, o)) /\ ToSet(<<x>>) = {x}
      BY <2>1, OneElement DEF Adds
    <3> DEFINE K == <<x>>
    <3>2. handled' = Append(handled, Entry(K, o)) /\ ToSet(K) = {x}
      BY <3>1
    <3> HIDE DEF K
    <3> QED
      BY <1>3, <2>2, <3>2
  <2> QED
    BY <2>2, <2>3 DEF NothingLost, Untaken, Pending
<1>7. CASE KeyIsTyped
  <2> DEFINE n == Len(typed)
  <2>1. PICK kind \in scenario.keys :
          /\ typed' = Append(typed, kind)
          /\ UNCHANGED <<keybuf, queue, held>>
          /\ Keeps
          /\ \/ Waiting' = Waiting \cup {n + 1} /\ eaten' = eaten
             \/ Waiting' = {} /\ eaten' = eaten \cup Waiting \cup {n + 1}
    BY <1>7 DEF KeyIsTyped
  <2>2. Len(typed') = n + 1 /\ n \in Nat
    BY <2>1 DEF Base, TypeOK, LoopTypeOK
  <2>3. Keys' = Keys \cup {n + 1}
    BY <2>2 DEF Keys
  <2>4. HandledKeys \subseteq HandledKeys'
    BY <1>1, <2>1, <2>3
  <2>5. Untaken \cup eaten \cup {n + 1} \subseteq Untaken' \cup eaten'
    BY <2>1 DEF Untaken, Pending, HeldKey, Queued, Buffered
  <2> QED
    BY <2>3, <2>4, <2>5 DEF NothingLost
<1> QED
  BY <1>4, <1>5, <1>6, <1>7 DEF Ways, KeyIsRead

-----------------------------------------------------------------------------
(* Interruptions.  The flag is not raised before the key starts, nor after *)
(* that without an interruption.                                           *)
Interruptions ==
  /\ interface = "pad" => ~interrupted
  /\ Busy /\ handled[running.entry].keys # <<>> => (interrupted => wanted)
  /\ InterruptsOneKey

LEMMA InterruptionsWays ==
  ASSUME Base, Entries, Interruptions, Ways, interface' = "pad" => ~interrupted'
  PROVE  Interruptions'
<1>0. TypeOK
  BY DEF Base
<1>1. CASE Keeps
  BY <1>1 DEF Keeps, StaysBusy, Interruptions, InterruptsOneKey
<1>2. CASE EndsEntry
  <2>1. /\ DOMAIN handled' = DOMAIN handled
        /\ \A i \in DOMAIN handled : /\ handled'[i].keys = handled[i].keys
                                     /\ i # running.entry => handled'[i] = handled[i]
        /\ handled'[running.entry].wanted = wanted'
        /\ handled'[running.entry].outcome = "interrupted" => interrupted \/ wanted'
    BY <1>0, <1>2, EndedEntry
  <2>2. ~Busy' /\ Busy /\ (wanted => wanted')
    BY <1>2 DEF EndsEntry
  <2>3. ASSUME NEW i \in DOMAIN handled, handled'[i].keys # <<>>, handled'[i].outcome = "interrupted"
        PROVE  handled'[i].wanted
    <3>1. CASE i = running.entry
      <4>1. handled[running.entry].keys # <<>>
        BY <2>1, <2>3, <3>1
      <4>2. interrupted => wanted
        BY <2>2, <4>1 DEF Interruptions
      <4>3. wanted'
        BY <2>1, <2>2, <2>3, <3>1, <4>2
      <4> QED
        BY <2>1, <3>1, <4>3
    <3>2. CASE i # running.entry
      BY <2>1, <2>3, <3>2 DEF Interruptions, InterruptsOneKey
    <3> QED
      BY <3>1, <3>2
  <2> QED
    BY <2>1, <2>2, <2>3 DEF Interruptions, InterruptsOneKey
<1>3. ASSUME NEW K, NEW o, handled' = Append(handled, Entry(K, o)), o # "interrupted"
      PROVE  InterruptsOneKey'
  <2>1. PICK n \in Nat : /\ DOMAIN handled' = DOMAIN handled \cup {n}
                         /\ \A i \in DOMAIN handled : handled'[i] = handled[i]
                         /\ handled'[n].outcome = o
    BY <1>0, <1>3, AppendedEntry DEF Entry
  <2> QED
    BY <1>3, <2>1 DEF Interruptions, InterruptsOneKey
<1>4. ASSUME NEW K, NEW o, Adds(K, o), o # "interrupted" PROVE Interruptions'
  <2>1. \A i \in DOMAIN handled : handled'[i] = handled[i]
    BY <1>0, <1>4, AppendedEntry DEF Adds
  <2>2. Busy => /\ running'.entry = running.entry /\ running.entry \in DOMAIN handled
                /\ wanted => wanted'
                /\ interrupted' => interrupted \/ wanted'
    BY <1>4 DEF Adds, StaysBusy, Entries
  <2>3. Busy' <=> Busy
    BY <1>4 DEF Adds, StaysBusy
  <2>4. Busy' /\ handled'[running'.entry].keys # <<>> => (interrupted' => wanted')
    BY <2>1, <2>2, <2>3 DEF Interruptions
  <2>5. InterruptsOneKey'
    BY <1>3, <1>4 DEF Adds
  <2> QED
    BY <2>4, <2>5 DEF Interruptions
<1>5. ASSUME NEW K, Begins(K) PROVE Interruptions'
  <2>1. handled'[running'.entry].keys = K
    BY <1>0, <1>5, AppendedEntry DEF Begins, Entry
  <2>2. K # <<>> => ~interrupted'
    BY <1>5 DEF Begins, Interruptions
  <2>3. InterruptsOneKey'
    BY <1>3, <1>5 DEF Begins
  <2> QED
    BY <2>1, <2>2, <2>3 DEF Interruptions
<1>6. CASE KeysRest
  BY <1>1, <1>2, <1>5, <1>6 DEF KeysRest
<1>7. CASE KeyIsRead
  BY <1>1, <1>4, <1>5, <1>7 DEF KeyIsRead, BecomesOf
<1>8. CASE KeyIsNested
  BY <1>4, <1>8 DEF KeyIsNested
<1>9. CASE KeyIsTyped
  BY <1>1, <1>9 DEF KeyIsTyped
<1> QED
  BY <1>6, <1>7, <1>8, <1>9 DEF Ways

(* On Curses windows the flag stays down where nothing raises it.          *)
LEMMA FlagStaysDown ==
  ASSUME Base, FlagIsLowered(scenario), interface = "pad", ~interrupted, [Next]_vars
  PROVE  ~interrupted'
<1> USE DEF loopVars, limiterVars
<1>1. TypeOK /\ scenario.interface = "pad"
  BY DEF Base, TypeOK
<1>2. ~scenario.signals /\ ~("^C" \in scenario.keys /\ scenario.keys \cap {"asks", "asksByte"} # {})
  BY <1>1 DEF FlagIsLowered
<1>3. ASSUME NEW x \in Keys, Read(x, FALSE), pc \in {"ready", "fetched"} PROVE ~interrupted'
  <2>1. CASE reader = "macro"
    <3>1. scenario.keys \cap {"asks", "asksByte"} # {}
      BY <1>3, <2>1 DEF Base, Control, KindsTyped, IsAsking
    <3>2. typed[x] # "^C"
      BY <1>2, <3>1 DEF Base, KindsTyped
    <3> QED
      BY <1>3, <2>1, <3>2 DEF Read, Answer, IsInterrupt
  <2>2. CASE reader # "macro"
    BY <1>3, <2>2 DEF Read, Key
  <2> QED
    BY <2>1, <2>2
<1>4. interrupted = FALSE
  BY <1>1 DEF TypeOK, LoopTypeOK
<1>5. ASSUME NEW p \in Polls, Step(p) \/ Delays(p) PROVE ~interrupted'
  BY <1>1, <1>4, <1>5, PollFlags DEF Step, Delays
<1>6. CASE PopsKey
  <2>1. Head(queue) \in Keys
    BY <1>1, <1>6, NextKeys DEF PopsKey, Base
  <2> QED
    BY <1>3, <1>4, <1>6, <2>1 DEF PopsKey
<1>7. CASE Resets
  <2>1. held \in Keys
    BY <1>1, <1>7, NextKeys DEF Resets, Base, Places
  <2> QED
    BY <1>3, <1>7, <2>1 DEF Resets
<1>8. CASE BeginsToWait \/ Fetches \/ ReceivesEvent \/ HandlesEvent \/ Leaves
  BY <1>4, <1>8 DEF BeginsToWait, Fetches, ReceivesEvent, HandlesEvent, Leaves, ClosesScreen
<1>9. CASE Drains \/ NestedEvent
  BY <1>9 DEF Drains, NestedEvent, Base, Control, Places
<1>10. CASE MainSteps
  BY <1>4, <1>10 DEF MainSteps, ProcessesOptions, SetsUp, LoadsStdin, StartsMacro, Runs, MacroEnds,
                     MacroEndsIn,
     GoesInteractive, FailsToOpen, Terminates, CallsHook, CleansUp, DestroysThread, JoinsThread, LoopUnchanged
<1>11. CASE UserTypes
  BY <1>4, <1>11 DEF UserTypes, Type
<1>12. CASE SignalArrives
  BY <1>2, <1>12 DEF SignalArrives
<1>13. CASE ThreadRuns \/ UNCHANGED vars
  BY <1>4, <1>13 DEF ThreadRuns, vars
<1> QED
  BY <1>5, <1>6, <1>7, <1>8, <1>9, <1>10, <1>11, <1>12, <1>13
     DEF Next, Main, MainSteps, LoopNext, Executes

-----------------------------------------------------------------------------
(* The theorems about keys.                                                *)
KeysInv ==
  /\ Base /\ Entries
  /\ CharactersArriveWhole(scenario) => Characters /\ Order /\ NothingLost
  /\ FlagIsLowered(scenario) => Interruptions

LEMMA InitKeysInv == Init => KeysInv
<1> SUFFICES ASSUME Init PROVE KeysInv
  OBVIOUS
<1>1. /\ Base /\ handled = <<>> /\ keybuf = <<>> /\ typed = <<>> /\ ~undo /\ ~interrupted
      /\ terminal = <<>> /\ queue = <<>> /\ held = 0 /\ Len(typed) = 0 /\ Keys = {}
  BY InitBase DEF Init, LoopInit, Keys
<1>2. Buffered = {} /\ Pending = {} /\ Len(keybuf) = 0 /\ DOMAIN handled = {}
  BY <1>1, NoElements DEF Buffered, Pending, HeldKey, Queued, Waiting
<1>3. Entries /\ Order /\ NothingLost /\ Interruptions
  BY <1>1, <1>2 DEF Entries, Busy, Order, NothingLost, Interruptions, InterruptsOneKey
<1>4. Characters
  BY <1>1, <1>2 DEF Characters
<1> QED
  BY <1>1, <1>3, <1>4 DEF KeysInv

LEMMA NextKeysInv == KeysInv /\ [Next]_vars => KeysInv'
<1> SUFFICES ASSUME KeysInv, [Next]_vars PROVE KeysInv'
  OBVIOUS
<1>1. Base /\ Entries
  BY DEF KeysInv
<1>2. Base' /\ Ways /\ scenario' = scenario /\ interface' = interface
  BY <1>1, NextWays
<1>3. Entries'
  BY <1>1, <1>2, EntriesWays
<1>4. ASSUME CharactersArriveWhole(scenario) PROVE Characters' /\ Order' /\ NothingLost'
  <2>1. Characters /\ Order /\ NothingLost
    BY <1>4 DEF KeysInv
  <2> QED
    BY <1>1, <1>2, <1>4, <2>1, CharactersWays, OrderWays, NothingLostWays
<1>5. ASSUME FlagIsLowered(scenario) PROVE Interruptions'
  <2>1. Interruptions
    BY <1>5 DEF KeysInv
  <2>2. interface' = "pad" => ~interrupted'
    BY <1>1, <1>2, <1>5, <2>1, FlagStaysDown DEF Interruptions
  <2> QED
    BY <1>1, <1>2, <2>1, <2>2, InterruptionsWays
<1> QED
  BY <1>2, <1>3, <1>4, <1>5 DEF KeysInv, CharactersArriveWhole, FlagIsLowered

(* The variables have their types, and keys, macros and the phases of the  *)
(* program are only where they can be: the screen exists only while keys   *)
(* are read, only a macro waits for an answer, and nothing is left in the  *)
(* hands of wgetch() (main.c, the event loops of the interfaces).          *)
THEOREM TypesAndPlaces == Spec => [](TypeOK /\ Control /\ Places)
<1>1. KeysInv => TypeOK /\ Control /\ Places
  BY DEF KeysInv, Base
<1> QED
  BY <1>1, InitKeysInv, NextKeysInv, PTL DEF Spec

(* Keys are taken in the order in which they are typed in, and none of     *)
(* them is lost, if the bytes of characters arrive together.               *)
THEOREM KeysArrive == Spec => [](CharactersArriveWhole(scenario) => InOrder /\ NoneLost)
<1>1. KeysInv => (CharactersArriveWhole(scenario) => InOrder /\ NoneLost)
  BY OrderMeansInOrder, NothingLostMeans DEF KeysInv, Base
<1> QED
  BY <1>1, InitKeysInv, NextKeysInv, PTL DEF Spec

(* An interruption ends only the key during which it came, if nothing      *)
(* raises the flag between keys (the polling of the interfaces).           *)
THEOREM InterruptionsHit == Spec => [](FlagIsLowered(scenario) => InterruptsOneKey)
<1>1. KeysInv => (FlagIsLowered(scenario) => InterruptsOneKey)
  BY DEF KeysInv, Interruptions
<1> QED
  BY <1>1, InitKeysInv, NextKeysInv, PTL DEF Spec

(* Both of them together are what the run checks.                          *)
THEOREM KeysAreHandledProof ==
  Spec => [](CharactersArriveWhole(scenario) /\ FlagIsLowered(scenario) => KeysAreHandled)
<1>1. KeysInv => (CharactersArriveWhole(scenario) /\ FlagIsLowered(scenario) => KeysAreHandled)
  BY OrderMeansInOrder, NothingLostMeans DEF KeysInv, Base, Interruptions, KeysAreHandled
<1> QED
  BY <1>1, InitKeysInv, NextKeysInv, PTL DEF Spec

-----------------------------------------------------------------------------
(* The end of the program.  What ends it has the last entry, and nothing   *)
(* but leaving the event loop follows.                                     *)
Quits == {"quit", "committed"}
Ending ==
  /\ \A i \in DOMAIN handled :
       handled[i].outcome \in Quits => i = Len(handled) /\ (undo => pc \in {"stops", "main"})
  /\ Busy /\ running.kind \in Exiting => running.entry = Len(handled)
  /\ running.kind # "nobody" /\ undo /\ ~interactive => running.kind \in {scenario.fake, "plain"}
  /\ running.kind # "nobody" /\ phase = "cleanup" => running.kind \in {scenario.hook, "plain"}

Finished == {"exits", "joins", "exited"}
Errors ==
  /\ phase \in {"options", "setup", "stdin", "macro", "interactive", "hook"} => error = "none"
  /\ phase = "keys" /\ scenario.fake # "none" => error = "none"
  /\ phase \in Before \cup {"keys", "hook"} => hooks = 0
  /\ phase \notin {"options"} \cup Finished => scenario.options = "ok"
  /\ hooks > 0 => ~undo
  /\ phase \notin Finished => status \in {"none", "code"} /\ ~printed
  /\ phase = "cleanup" =>
       error # "quit" /\ (hooks = 1 \/ (hooks = 0 /\ pc = "main" /\ Failed))
  /\ phase \in Finished =>
       /\ printed => status # "failure"
       /\ IF scenario.options = "ok" /\ scenario.mung # "missing"
          THEN /\ hooks = 1 \/ (hooks = 0 /\ Failed)
               /\ IF error = "none" THEN status \in {"success", "code"} ELSE status = "failure"
               /\ error # "quit"
          ELSE hooks = 0 /\ (scenario.options = "ok" => status = "failure")

LEMMA EndingMeansEndsOnce ==
  ASSUME TypeOK, Control, Ending, Errors
  PROVE  EndsOnce
<1>1. NothingBehindQuit
  BY DEF Ending, NothingBehindQuit, Quits
<1>2. hooks > 0 => phase \in {"cleanup"} \cup Finished /\ hooks = 1
  BY DEF Errors, Finished, Phases, TypeOK
<1>3. HookIsLast
  BY <1>2 DEF HookIsLast, Control, Errors, Finished
<1>4. SuccessMeansHook
  <2>1. CASE phase \notin Finished
    BY <2>1 DEF SuccessMeansHook, Errors, Ended, Finished
  <2>2. CASE phase \in Finished
    <3>1. /\ error \in Rejecting \cup {"none", "quit", "input", "argument", "screen", "output"}
          /\ "none" \notin Rejecting \cup {"input", "argument", "screen", "output"}
      BY DEF TypeOK, LoopTypeOK, Rejecting
    <3>2. CASE scenario.options = "ok" /\ scenario.mung # "missing"
      <4>1. /\ hooks = 1 \/ (hooks = 0 /\ Failed)
            /\ IF error = "none" THEN status \in {"success", "code"} ELSE status = "failure"
            /\ error # "quit" /\ (printed => status # "failure")
        BY <2>2, <3>2 DEF Errors
      <4> QED
        BY <3>1, <4>1 DEF SuccessMeansHook, Failed
    <3>3. CASE ~(scenario.options = "ok" /\ scenario.mung # "missing")
      BY <2>2, <3>3 DEF SuccessMeansHook, Errors
    <3> QED
      BY <3>2, <3>3
  <2> QED
    BY <2>1, <2>2
<1> QED
  BY <1>1, <1>3, <1>4 DEF EndsOnce

LEMMA InitEnding == Init => Ending /\ Errors
  BY DEF Init, LoopInit, Nobody, Ending, Errors, Before, Finished, Busy

LEMMA MainErrors ==
  ASSUME Base, Ending, Errors, MainSteps
  PROVE  Errors'
<1> USE DEF Errors, Base, InMain, GoesTo, LoopUnchanged, limiterVars, loopVars, Before, Phases, Finished,
            Failed, Rejecting
<1>0. TypeOK
  OBVIOUS
<1>1. CASE ProcessesOptions
  BY <1>1 DEF ProcessesOptions
<1>2. CASE SetsUp
  BY <1>2 DEF SetsUp
<1>3. CASE LoadsStdin
  BY <1>3 DEF LoadsStdin
<1>4. CASE StartsMacro
  BY <1>4 DEF StartsMacro, Runs
<1>5. CASE MacroEnds
  BY <1>5 DEF MacroEnds, MacroEndsIn, TypeOK, LoopTypeOK
<1>6. CASE GoesInteractive
  BY <1>6 DEF GoesInteractive
<1>7. CASE Terminates
  BY <1>7 DEF Terminates
<1>8. CASE CallsHook
  <2>1. ~undo /\ undo' = undo
    BY <1>8 DEF CallsHook, Control
  <2> QED
    BY <1>8, <2>1 DEF CallsHook
<1>9. CASE CleansUp
  <2>1. scenario.options = "ok" /\ scenario.mung # "missing" /\ phase = "cleanup" /\ phase' = "exits"
    BY <1>9 DEF CleansUp, Control
  <2>2. /\ IF error' = "none" THEN status' \in {"success", "code"} ELSE status' = "failure"
        /\ printed' => error' = "none"
        /\ error' = error \/ (error = "none" /\ error' = "output")
        /\ UNCHANGED <<scenario, hooks, undo>>
    BY <1>9 DEF CleansUp
  <2>3. error # "quit" /\ (hooks = 1 \/ (hooks = 0 /\ Failed)) /\ (hooks > 0 => ~undo)
    BY <2>1
  <2> QED
    BY <2>1, <2>2, <2>3
<1>10. CASE DestroysThread
  BY <1>10 DEF DestroysThread
<1>11. CASE JoinsThread
  BY <1>11 DEF JoinsThread
<1>12. CASE FailsToOpen
  BY <1>12 DEF FailsToOpen
<1> QED
  BY <1>1, <1>2, <1>3, <1>4, <1>5, <1>6, <1>7, <1>8, <1>9, <1>10, <1>11, <1>12 DEF MainSteps

LEMMA MainEnding ==
  ASSUME Base, Ending, MainSteps
  PROVE  Ending'
<1> USE DEF Base, InMain, GoesTo, LoopUnchanged, limiterVars, loopVars
<1>1. /\ ~interactive /\ pc = "main" /\ running.kind = "nobody" /\ ~Busy /\ scenario' = scenario
  BY DEF MainSteps, ProcessesOptions, SetsUp, LoadsStdin, StartsMacro, Runs, MacroEnds, MacroEndsIn,
         GoesInteractive, FailsToOpen,
         Terminates, CallsHook, CleansUp, DestroysThread, JoinsThread, Control, Executing, Busy,
         TypeOK, LoopTypeOK
<1>2. CASE GoesInteractive
  <2>1. handled = <<>> /\ phase' = "keys"
    BY <1>2 DEF GoesInteractive, Places, Before
  <2>2. CASE scenario.fake # "none"
    <3>1. Starts(scenario.fake, 1) /\ handled' = <<Entry(<<>>, "running")>>
      BY <1>2, <2>2 DEF GoesInteractive
    <3>2. scenario.fake \in KeyKinds
      BY <2>2, ScenarioTypes DEF TypeOK, KeyKinds
    <3>3. running'.kind = scenario.fake /\ running'.entry = 1
      BY <3>1, <3>2, StartsType
    <3>4. /\ Len(handled') = 1 /\ \A i \in DOMAIN handled' : handled'[i].outcome = "running"
      BY <3>1 DEF Entry
    <3> QED
      BY <1>1, <2>1, <3>3, <3>4 DEF Ending, Quits, Busy
  <2>3. CASE scenario.fake = "none"
    <3>1. handled' = handled /\ running' = running
      BY <1>2, <2>3 DEF GoesInteractive
    <3> QED
      BY <1>1, <2>1, <3>1 DEF Ending, Busy
  <2> QED
    BY <2>2, <2>3
<1>3. CASE ~GoesInteractive
  <2>1. handled' = handled
    BY <1>3 DEF MainSteps, ProcessesOptions, SetsUp, LoadsStdin, StartsMacro, Runs, MacroEnds,
                MacroEndsIn, FailsToOpen,
                Terminates, CallsHook, CleansUp, DestroysThread, JoinsThread
  <2>2. ~undo' \/ (running' = running /\ pc' = "main")
    <3>1. CASE phase = "keys"
      BY <1>3, <3>1 DEF MainSteps, ProcessesOptions, SetsUp, LoadsStdin, StartsMacro, MacroEnds,
                        MacroEndsIn, FailsToOpen,
                  Terminates, CallsHook, CleansUp, DestroysThread, JoinsThread
    <3>2. CASE phase # "keys"
      BY <1>3, <3>2 DEF Control, MainSteps, ProcessesOptions, SetsUp, LoadsStdin, StartsMacro, Runs,
                  MacroEnds, MacroEndsIn, FailsToOpen, Terminates, CallsHook, CleansUp, DestroysThread, JoinsThread
    <3> QED
      BY <3>1, <3>2
  <2>3. phase' = "cleanup" => running' = running \/ (Starts(scenario.hook, 0) /\ scenario.hook # "none")
    <3>1. CASE StartsMacro
      BY <3>1 DEF StartsMacro, Runs
    <3>2. CASE CallsHook
      BY <3>2 DEF CallsHook
    <3>3. CASE ~StartsMacro /\ ~CallsHook
      <4>1. running' = running
        BY <1>3, <3>3 DEF MainSteps, ProcessesOptions, SetsUp, LoadsStdin, MacroEnds, MacroEndsIn,
                          FailsToOpen, Terminates,
                          CleansUp, DestroysThread, JoinsThread
      <4> QED
        BY <4>1
    <3> QED
      BY <3>1, <3>2, <3>3
  <2>4. Starts(scenario.hook, 0) /\ scenario.hook # "none" => running'.kind = scenario.hook
    <3>1. scenario.hook # "none" => scenario.hook \in KeyKinds
      BY ScenarioTypes DEF TypeOK, KeyKinds
    <3> QED
      BY <3>1, StartsType
  <2> QED
    BY <1>1, <2>1, <2>2, <2>3, <2>4 DEF Ending, Busy
<1> QED
  BY <1>2, <1>3

LEMMA StepEnding ==
  ASSUME Base, Entries, LeavesCleanly(scenario), Ending, Errors, NEW p \in Polls, Step(p),
         UNCHANGED mainVars
  PROVE  Ending' /\ Errors'
<1> USE DEF mainVars
<1>0. TypeOK /\ Control
  BY DEF Base
<1>1. /\ pc = "step" /\ UNCHANGED <<interface, interactive, undo>>
      /\ EndsNow(p) \/ StillRuns \/ Answered \/ BeginsToAsk
  BY <1>0, StepCases
<1>2. /\ running.kind # "nobody" /\ phase \in MacroPhases
      /\ undo <=> phase = "keys"
      /\ interactive => phase = "keys" /\ scenario.fake = "none"
      /\ undo /\ interactive => running.kind \in scenario.keys \cup {"plain"}
  BY <1>1 DEF Base, Control, Executing, KindsTyped
<1>3. ASSUME NEW i \in DOMAIN handled, undo PROVE handled[i].outcome \notin Quits
  BY <1>1, <1>3 DEF Ending
<1>4. CASE EndsNow(p)
  <2>1. PICK outcome \in Endings :
          /\ Ends(outcome)
          /\ outcome = "interrupted" => p.result
          /\ outcome = "committed" => running.kind = "commits" /\ interface = "gtk"
          /\ outcome \in Quits => running.kind \in Exiting
    BY <1>4 DEF EndsNow, Quits
  <2>2. running'.kind = "nobody" /\ ~Busy'
    BY <2>1 DEF Ends, Nobody, Busy
  <2>3. outcome \in Quits /\ undo => interactive
    BY <1>2, <2>1 DEF Ending, LeavesCleanly, Exiting
  <2>4. outcome \in Quits /\ undo => outcome = "quit" /\ running.entry = Len(handled) /\ pc' = "stops"
    <3>1. SUFFICES ASSUME outcome \in Quits, undo
                   PROVE  outcome = "quit" /\ running.entry = Len(handled) /\ pc' = "stops"
      OBVIOUS
    <3>2. interactive /\ running.kind \in Exiting
      BY <2>1, <2>3, <3>1
    <3>3. outcome = "quit"
      <4>1. scenario.interface = interface
        BY <1>0 DEF TypeOK
      <4> QED
        BY <1>2, <2>1, <3>1, <3>2, <4>1 DEF LeavesCleanly, Quits
    <3>4. pc' = "stops"
      BY <2>1, <3>2, <3>3 DEF Ends
    <3> QED
      BY <1>2, <3>1, <3>2, <3>3, <3>4 DEF Ending, Busy
  <2>5. Ending'
    <3>1. CASE undo
      <4>1. EndsEntry
        <5>1. KeysRest
          BY <1>1, StepWays
        <5>2. wanted => wanted'
          BY <1>0, StepCases
        <5>3. outcome = "interrupted" => interrupted \/ wanted'
          BY <1>0, <2>1, StepCases, PollFlags
        <5> QED
          BY <1>2, <2>1, <2>2, <3>1, <5>2, <5>3 DEF EndsEntry, Busy, Ends
      <4>2. /\ DOMAIN handled' = DOMAIN handled /\ Len(handled') = Len(handled)
            /\ \A i \in DOMAIN handled : i # running.entry => handled'[i] = handled[i]
        BY <1>0, <4>1, EndedEntry
      <4>3. handled'[running.entry].outcome = outcome
        <5>1. handled' = [handled EXCEPT ![running.entry].outcome = outcome,
                                         ![running.entry].wanted = wanted']
          BY <2>1, <3>1 DEF Ends
        <5>2. running.entry \in DOMAIN handled /\ handled \in Seq(Entered)
          BY <1>0, <4>1, EndedEntry DEF TypeOK, LoopTypeOK
        <5>3. handled[running.entry] \in Entered
          BY <5>2
        <5> QED
          BY <5>1, <5>2, <5>3 DEF Entered
      <4>4. \A i \in DOMAIN handled' :
              handled'[i].outcome \in Quits => i = Len(handled') /\ pc' = "stops"
        BY <1>3, <2>4, <3>1, <4>2, <4>3
      <4>5. UNCHANGED <<undo, interactive, phase, scenario>>
        BY <1>1
      <4> QED
        BY <2>2, <4>4, <4>5 DEF Ending
    <3>2. CASE ~undo
      <4>1. handled' = handled
        BY <2>1, <3>2 DEF Ends
      <4> QED
        BY <1>1, <2>2, <3>2, <4>1 DEF Ending
    <3> QED
      BY <3>1, <3>2
  <2>6. Errors'
    <3>1. error' = IF outcome \in Quits THEN "quit"
                   ELSE IF ~undo /\ outcome \in Rejecting THEN outcome ELSE error
      BY <2>1 DEF Ends, Quits, Rejecting
    <3>2. phase = "cleanup" => outcome \notin Quits
      BY <1>2, <2>1 DEF Ending, LeavesCleanly, Exiting
    <3>3. phase = "keys" /\ scenario.fake # "none" => outcome \notin Quits
      BY <1>2, <2>3
    <3> QED
      BY <1>1, <1>2, <3>1, <3>2, <3>3 DEF Errors, MacroPhases, Finished, Before, Rejecting
  <2> QED
    BY <2>5, <2>6
<1>5. CASE StillRuns \/ Answered \/ BeginsToAsk
  <2>1. handled' = handled /\ error' = error
    BY <1>5 DEF StillRuns, Answered, BeginsToAsk
  <2>2. running'.entry = running.entry /\ running'.kind \in {running.kind, "plain"}
    BY <1>0, <1>5 DEF StillRuns, Answered, BeginsToAsk, TypeOK, LoopTypeOK, Macros
  <2>3. Ending'
    BY <1>1, <1>2, <1>3, <2>1, <2>2 DEF Ending, Busy, Exiting
  <2>4. Errors'
    BY <1>1, <1>2, <2>1 DEF Errors, MacroPhases, Finished, Before, Failed
  <2> QED
    BY <2>3, <2>4
<1> QED
  BY <1>1, <1>4, <1>5

(* A key that is read adds at most one entry, and ends the program only if *)
(* the event loop stops; a macro that will end it has the last entry.      *)
AddsNoMore ==
  \/ UNCHANGED handled
  \/ \E keys : \E outcome \in Outcomes \ {"committed"} :
       /\ handled' = Append(handled, Entry(keys, outcome))
       /\ outcome = "quit" => pc' = "stops"
LastEnds == running'.kind \in Exiting => running'.entry = Len(handled')

LEMMA KeyEffects ==
  ASSUME Base, NEW x \in Keys, pc \in {"ready", "fetched", "nested"},
         \/ \E flag : Read(x, flag)
         \/ UNCHANGED <<handled, running, error>>
         \/ KeyPress(x) /\ interface = "gtk" /\ pc = "ready"
         \/ Ignored(<<x>>, "ignored", "nested") /\ pc = "nested"
  PROVE  AddsNoMore /\ LastEnds /\ error' \in {error, "quit"}
<1> USE DEF Base, Outcomes, Rejecting
<1>1. /\ TypeOK
      /\ reader \in {"loop", "macro"}
      /\ reader = "loop" => running.kind = "nobody"
      /\ reader = "macro" => running.kind \in {"asks", "asksByte"}
      /\ interface = "gtk" /\ pc = "ready" => reader = "loop"
      /\ pc = "nested" => reader = "macro"
      /\ typed[x] \in KeyKinds
  BY DEF Control, Executing, TypeOK, LoopTypeOK, Keys, IsAsking
<1>2. {"nobody", "asks", "asksByte", "plain"} \cap Exiting = {}
  BY DEF Exiting
<1>3. ASSUME NEW kind \in KeyKinds, NEW keys, Starts(kind, Len(handled) + 1),
             handled' = Append(handled, Entry(keys, "running")), UNCHANGED error
      PROVE  AddsNoMore /\ LastEnds /\ error' \in {error, "quit"}
  <2>1. Len(handled) + 1 \in Nat
    BY <1>1 DEF TypeOK, LoopTypeOK
  <2>2. running'.entry = Len(handled) + 1
    BY <1>1, <1>3, <2>1, StartsType
  <2>3. Len(handled') = Len(handled) + 1
    BY <1>1, <1>3, AppendedEntry
  <2>4. AddsNoMore
    BY <1>3 DEF AddsNoMore
  <2> QED
    BY <1>3, <2>2, <2>3, <2>4 DEF LastEnds
<1>4. ASSUME NEW key, NEW outcome \in {"invalid", "ignored"}, NEW next, Ignored(key, outcome, next)
      PROVE  AddsNoMore /\ LastEnds /\ error' \in {error, "quit"}
  BY <1>1, <1>2, <1>4 DEF Ignored, AddsNoMore, LastEnds
<1>5. ASSUME Closes(x)
      PROVE  AddsNoMore /\ LastEnds /\ error' \in {error, "quit"}
  BY <1>1, <1>2, <1>5 DEF Closes, AddsNoMore, LastEnds
<1>6. ASSUME NEW next, KeyMacro(x, next)
      PROVE  AddsNoMore /\ LastEnds /\ error' \in {error, "quit"}
  BY <1>4, <1>5, <1>6 DEF KeyMacro
<1>7. ASSUME NEW flag, Answer(x, flag), reader = "macro"
      PROVE  AddsNoMore /\ LastEnds /\ error' \in {error, "quit"}
  <2>1. AnswersOf(x) /\ error' = error
    BY <1>7, AnswerCases
  <2>2. running' = running \/ running' = [running EXCEPT !.kind = "plain"]
    BY <2>1 DEF AnswersOf, AnswersWith, AsksAgain
  <2>3. running'.kind \in {running.kind, "plain"}
    BY <2>2 DEF TypeOK, LoopTypeOK, Macros
  <2>4. AddsNoMore
    BY <2>1 DEF AnswersOf, AnswersWith, AddsNoMore
  <2> QED
    BY <1>1, <1>2, <1>7, <2>1, <2>3, <2>4 DEF LastEnds
<1>8. ASSUME NEW keys, NEW kind \in KeyKinds, StartsKey(keys, kind)
      PROVE  AddsNoMore /\ LastEnds /\ error' \in {error, "quit"}
  <2>1. (IF kind \in {"^C", "^D"} THEN "plain" ELSE kind) \in KeyKinds
    BY DEF KeyKinds, MacroKinds
  <2> QED
    BY <1>3, <1>8, <2>1 DEF StartsKey
<1>9. ASSUME Byte(x), reader = "loop"
      PROVE  AddsNoMore /\ LastEnds /\ error' \in {error, "quit"}
  <2> DEFINE bytes == Append(keybuf, x)
  <2>1. \/ UNCHANGED <<running, wanted, error, handled>>
        \/ StartsKey(bytes, "plain") \/ StartsKey(bytes, typed[x])
        \/ Ignored(bytes, "invalid", "ready")
    BY <1>9 DEF Byte
  <2>2. UNCHANGED <<running, error, handled>> => AddsNoMore /\ LastEnds
    BY <1>1, <1>2, <1>9 DEF AddsNoMore, LastEnds
  <2>3. "plain" \in KeyKinds
    BY DEF KeyKinds, MacroKinds
  <2> HIDE DEF bytes
  <2> QED
    BY <1>1, <1>4, <1>8, <2>1, <2>2, <2>3
<1>10. CASE \E flag : Read(x, flag)
  BY <1>1, <1>6, <1>7, <1>9, <1>10 DEF Read, Key
<1>11. CASE KeyPress(x) /\ interface = "gtk" /\ pc = "ready"
  BY <1>1, <1>6, <1>8, <1>11 DEF KeyPress
<1>12. CASE Ignored(<<x>>, "ignored", "nested")
  BY <1>4, <1>12
<1>13. CASE UNCHANGED <<handled, running, error>>
  BY <1>1, <1>2, <1>13 DEF AddsNoMore, LastEnds
<1> QED
  BY <1>10, <1>11, <1>12, <1>13

LEMMA KeyEnding ==
  ASSUME Base, LeavesCleanly(scenario), Ending, Errors, UNCHANGED <<undo, interactive, mainVars>>,
         interactive, pc \notin {"stops", "main"},
         AddsNoMore, LastEnds, error' \in {error, "quit"}
  PROVE  Ending' /\ Errors'
<1> USE DEF mainVars
<1>1. /\ undo /\ undo' /\ interactive /\ phase = "keys" /\ scenario.fake = "none"
      /\ TypeOK
  BY DEF Base, Control
<1>2. \A i \in DOMAIN handled : handled[i].outcome \notin Quits
  BY <1>1 DEF Ending
<1>3. interactive'
  OBVIOUS
<1>4. \A i \in DOMAIN handled' : handled'[i].outcome \in Quits => i = Len(handled') /\ pc' = "stops"
  <2>1. CASE UNCHANGED handled
    BY <1>2, <2>1
  <2>2. ASSUME NEW keys, NEW outcome \in Outcomes \ {"committed"},
               handled' = Append(handled, Entry(keys, outcome)), outcome = "quit" => pc' = "stops",
               NEW i \in DOMAIN handled', handled'[i].outcome \in Quits
        PROVE  i = Len(handled') /\ pc' = "stops"
    <3>1. /\ DOMAIN handled' = DOMAIN handled \cup {Len(handled) + 1}
          /\ Len(handled') = Len(handled) + 1
          /\ \A j \in DOMAIN handled : handled'[j] = handled[j]
          /\ handled'[Len(handled) + 1].outcome = outcome
      BY <1>1, <2>2, AppendedEntry DEF Entry
    <3> QED
      BY <1>2, <2>2, <3>1 DEF Quits
  <2> QED
    BY <2>1, <2>2 DEF AddsNoMore
<1>5. Ending'
  BY <1>1, <1>3, <1>4 DEF Ending, LastEnds
<1>6. Errors'
  BY <1>1 DEF Errors, Finished, Before
<1> QED
  BY <1>5, <1>6

LEMMA LoopEnding ==
  ASSUME Base, LeavesCleanly(scenario), Ending, Errors, LoopSteps, UNCHANGED mainVars
  PROVE  Ending' /\ Errors'
<1> USE DEF Base, mainVars
<1>0. TypeOK /\ Lines
  OBVIOUS
<1>1. CASE PopsKey
  <2>1. pc = "ready" /\ interactive /\ UNCHANGED <<undo, interactive>>
    BY <1>1 DEF PopsKey, Control
  <2>2. Head(queue) \in Keys
    BY <1>0, <1>1, NextKeys DEF PopsKey
  <2>3. AddsNoMore /\ LastEnds /\ error' \in {error, "quit"}
    BY <1>1, <2>1, <2>2, KeyEffects DEF PopsKey
  <2> QED
    BY <2>1, <2>3, KeyEnding
<1>2. CASE Resets
  <2>1. pc = "fetched" /\ interactive /\ held # 0 /\ UNCHANGED <<undo, interactive>>
    BY <1>2 DEF Resets, Control, Places
  <2>2. held \in Keys
    BY <1>0, <2>1, NextKeys
  <2>3. AddsNoMore /\ LastEnds /\ error' \in {error, "quit"}
    BY <1>2, <2>1, <2>2, KeyEffects DEF Resets
  <2> QED
    BY <2>1, <2>3, KeyEnding
<1>3. CASE HandlesEvent
  <2>1. pc = "ready" /\ interface = "gtk" /\ interactive /\ queue # <<>> /\ UNCHANGED <<undo, interactive>>
    BY <1>3 DEF HandlesEvent, Control, Places
  <2>2. Head(queue) \in Keys
    BY <1>0, <2>1, NextKeys
  <2>3. AddsNoMore /\ LastEnds /\ error' \in {error, "quit"}
    BY <1>3, <2>1, <2>2, KeyEffects DEF HandlesEvent
  <2> QED
    BY <2>1, <2>3, KeyEnding
<1>4. CASE NestedEvent
  <2>1. pc = "nested" /\ reader = "macro" /\ interactive /\ terminal # <<>> /\ UNCHANGED <<undo, interactive>>
    BY <1>4 DEF NestedEvent, Control
  <2>2. Head(terminal) \in Keys
    BY <1>0, <2>1, NextKeys
  <2>3. \/ Ignored(<<Head(terminal)>>, "ignored", "nested") \/ Read(Head(terminal), interrupted)
        \/ UNCHANGED <<handled, running, error>>
    BY <1>4, <2>1 DEF NestedEvent, Read
  <2>4. AddsNoMore /\ LastEnds /\ error' \in {error, "quit"}
    BY <2>1, <2>2, <2>3, KeyEffects
  <2> QED
    BY <2>1, <2>4, KeyEnding
<1>5. CASE (\E p \in Polls : Delays(p)) \/ BeginsToWait \/ Fetches \/ ReceivesEvent \/ Drains \/ Leaves
  <2>1. /\ UNCHANGED <<handled, running, error, undo>> /\ (pc = "stops" \/ interactive' = interactive)
        /\ pc # "main"
        /\ pc' = "main" <=> pc = "stops"
    BY <1>5 DEF Delays, BeginsToWait, Fetches, ReceivesEvent, Drains, Leaves, ClosesScreen
  <2>2. pc = "stops" => interactive /\ running.kind = "nobody"
    BY DEF Control, Executing, TypeOK, LoopTypeOK
  <2>3. Ending'
    BY <2>1, <2>2 DEF Ending, Busy
  <2>4. Errors'
    BY <2>1, <2>2 DEF Errors, Finished, Before, Failed
  <2> QED
    BY <2>3, <2>4
<1> QED
  BY <1>1, <1>2, <1>3, <1>4, <1>5 DEF LoopSteps

LEMMA OthersEnding ==
  ASSUME Base, Ending, Errors,
         \/ (\E kind \in scenario.keys : Type(kind)) /\ UNCHANGED mainVars
         \/ Signal /\ UNCHANGED mainVars
         \/ ThreadRuns \/ UNCHANGED vars
  PROVE  Ending' /\ Errors'
<1>1. UNCHANGED <<handled, running, error, undo, interactive, pc, mainVars>>
  BY DEF Type, Signal, ThreadRuns, vars, loopVars
<1> QED
  BY <1>1 DEF Ending, Errors, Busy, Failed, mainVars

(* What is invariant, and that it is.                                      *)
EndsInv == Base /\ Entries /\ (LeavesCleanly(scenario) => Ending /\ Errors)

LEMMA InitEndsInv == Init => EndsInv
<1> SUFFICES ASSUME Init PROVE EndsInv
  OBVIOUS
<1>1. Entries
  BY DEF Init, LoopInit, Entries, Busy
<1> QED
  BY <1>1, InitBase, InitEnding DEF EndsInv

LEMMA NextEndsInv == EndsInv /\ [Next]_vars => EndsInv'
<1> SUFFICES ASSUME EndsInv, [Next]_vars PROVE EndsInv'
  OBVIOUS
<1>0. Base /\ Entries
  BY DEF EndsInv
<1>1. Base' /\ Ways /\ scenario' = scenario
  BY <1>0, NextWays
<1>2. Entries'
  BY <1>0, <1>1, EntriesWays
<1>3. ASSUME LeavesCleanly(scenario) PROVE Ending' /\ Errors'
  <2>1. Ending /\ Errors
    BY <1>3 DEF EndsInv
  <2>2. CASE MainSteps
    BY <1>0, <2>1, <2>2, MainEnding, MainErrors
  <2>3. CASE \E p \in Polls : Step(p) /\ UNCHANGED mainVars
    BY <1>0, <1>3, <2>1, <2>3, StepEnding
  <2>4. CASE LoopSteps /\ UNCHANGED mainVars
    BY <1>0, <1>3, <2>1, <2>4, LoopEnding
  <2>5. CASE UserTypes \/ SignalArrives \/ ThreadRuns \/ UNCHANGED vars
    BY <1>0, <2>1, <2>5, OthersEnding DEF UserTypes, SignalArrives
  <2>6. Main => MainSteps \/ (LoopSteps /\ UNCHANGED mainVars)
                \/ \E p \in Polls : Step(p) /\ UNCHANGED mainVars
    BY DEF Main, MainSteps, LoopNext, Executes, LoopSteps
  <2> QED
    BY <2>2, <2>3, <2>4, <2>5, <2>6 DEF Next
<1> QED
  BY <1>1, <1>2, <1>3 DEF EndsInv

(* The program ends in one way: nothing is processed behind what ends it,  *)
(* the QUIT hook is executed once and last, and only success is reported   *)
(* as success and prints the buffer.                                       *)
THEOREM EndsOnceProof == Spec => [](LeavesCleanly(scenario) => EndsOnce)
<1>1. EndsInv => (LeavesCleanly(scenario) => EndsOnce)
  BY EndingMeansEndsOnce DEF EndsInv, Base
<1> QED
  BY <1>1, InitEndsInv, NextEndsInv, PTL DEF Spec
=============================================================================
