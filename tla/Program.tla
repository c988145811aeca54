------------------------------ MODULE Program -------------------------------
(***************************************************************************)
(* The life of the program (main.c) around its event loop: macros and the  *)
(* profile are executed in batch mode, keys interactively with an undo     *)
(* stack, and the QUIT hook in batch mode again.  A scenario says which    *)
(* program is started how and which kinds of keys are typed in.            *)
(***************************************************************************)
EXTENDS EventLoop

CONSTANT Scenarios   \* the scenarios, records with the fields
                     \*   interface, backend: which program was built
                     \*   keys: the kinds of keys typed in
                     \*   signals: whether signals are sent from outside
                     \*   options: "ok", "version", "bad"
                     \*   stdin: "none", "text", "fails";  stdout: "none", "saved", "fails"
                     \*   eval, mung, profile, fallback, fake, hook:
                     \*     the kind of the macro, or "none"
                     \*   argument: the exit code the macro leaves: "none", "code", "fails"
                     \*   screen: whether the environment allows the interactive mode

(* The kinds of keys and macros, see EventLoop.                            *)
MacroKinds == {"plain", "fails", "loop", "hog", "delays", "asks", "asksByte", "limits", "unlimits", "rubs",
               "exits", "commits", "ex"}
KeyKinds == MacroKinds \cup {"^C", "^D", "close", "function", "lead", "cont"}

ASSUME ScenariosAssumption ==
  /\ Scenarios \subseteq
       [interface: {"tty", "pad", "gtk"}, backend: {"malloc", "poll"}, keys: SUBSET KeyKinds,
        signals: BOOLEAN, options: {"ok", "version", "bad"}, stdin: {"none", "text", "fails"},
        stdout: {"none", "saved", "fails"},
        eval: MacroKinds \cup {"none"}, mung: MacroKinds \cup {"none", "missing"},
        profile: MacroKinds \cup {"none"}, fallback: MacroKinds \cup {"none"},
        fake: MacroKinds \cup {"none"}, hook: MacroKinds \cup {"none"},
        argument: {"none", "code", "fails"}, screen: BOOLEAN]
  \* GTK delivers whole characters.
  /\ \A s \in Scenarios : s.interface = "gtk" => s.keys \cap {"lead", "cont"} = {}

VARIABLES scenario, phase,
          hooks,     \* how often the QUIT hook has been executed
          printed,   \* whether the buffer has been written to stdout
          status     \* the exit code
mainVars == <<scenario, phase, hooks, printed, status>>
vars == <<mainVars, loopVars, limiterVars>>

Init ==
  /\ scenario \in Scenarios
  /\ LoopInit(scenario.interface, scenario.backend)
  /\ phase = "options" /\ hooks = 0 /\ printed = FALSE /\ status = "none"

GoesTo(next) == phase' = next /\ UNCHANGED <<scenario, hooks, printed, status>>
LoopUnchanged == UNCHANGED <<loopVars, limiterVars>>

(* Main is active between macros and outside of the event loop.            *)
InMain(p) == phase = p /\ pc = "main"

Failed == error \in Rejecting \cup {"input", "argument", "screen", "output"}

-----------------------------------------------------------------------------
(* Start-up, in the order of main.                                         *)

(* --version, errors and the script to mung that does not exist exit.      *)
ProcessesOptions ==
  /\ InMain("options")
  /\ IF scenario.options = "ok" /\ scenario.mung # "missing"
     THEN phase' = "setup" /\ UNCHANGED status
     ELSE /\ status' = IF scenario.options = "version" THEN "success" ELSE "failure"
          /\ phase' = "exits"
  /\ UNCHANGED <<scenario, hooks, printed>>
  /\ LoopUnchanged

(* Registers, the interface in batch mode, the environment, and the        *)
(* unnamed buffer; hooks are still disabled.                               *)
SetsUp == InMain("setup") /\ GoesTo("stdin") /\ LoopUnchanged

LoadsStdin ==
  /\ InMain("stdin")
  /\ error' = IF scenario.stdin = "fails" THEN "input" ELSE error
  /\ GoesTo(IF scenario.stdin = "fails" THEN "cleanup" ELSE "macro")
  /\ UNCHANGED <<interface, interactive, pc, reader, typed, terminal, queue, keybuf, held, interrupted,
                 signals, running, undo, levels, exit, handled, wanted, eaten>>
  /\ UNCHANGED limiterVars

(* The macro of --eval, else the script, else the profile or the fallback. *)
Runs(kind, next) ==
  /\ Starts(kind, 0)
  /\ GoesTo(next)
  /\ UNCHANGED <<interface, interactive, reader, typed, terminal, queue, keybuf, held, interrupted,
                 signals, undo, levels, exit, error, handled, eaten>>
  /\ UNCHANGED limiterVars

Script == IF scenario.mung # "none" THEN scenario.mung
          ELSE IF scenario.profile # "none" THEN scenario.profile ELSE scenario.fallback

StartsMacro ==
  /\ InMain("macro")
  /\ IF scenario.eval # "none" THEN Runs(scenario.eval, "evaluated")
     ELSE IF Script # "none" THEN Runs(Script, "munged")
     ELSE GoesTo("interactive") /\ LoopUnchanged

(* TECO_ERROR_QUIT is no error for main.  The program is over behind the   *)
(* macro of --eval and behind EX: the exit code is popped, then the hook.  *)
MacroEndsIn(end) ==
  LET isOver == ~Failed /\ (phase = "evaluated" \/ exit)
      fails == isOver /\ scenario.argument = "fails"
  IN /\ phase \in {"evaluated", "munged"} /\ pc = "main"
     /\ phase' = IF Failed \/ fails THEN "cleanup" ELSE IF isOver THEN end ELSE "interactive"
     /\ error' = IF Failed THEN error ELSE IF fails THEN "argument" ELSE "none"
     /\ status' = IF isOver /\ scenario.argument = "code" THEN "code" ELSE status
     /\ UNCHANGED <<scenario, hooks, printed>>
     /\ UNCHANGED <<interface, interactive, pc, reader, typed, terminal, queue, keybuf, held, interrupted,
                    signals, running, undo, levels, exit, handled, wanted, eaten>>
     /\ UNCHANGED limiterVars

MacroEndsWithoutHook == MacroEndsIn("cleanup")
MacroEnds == MacroEndsIn("hook")

(* Undo is enabled, and the event loop is entered or keys are simulated.   *)
GoesInteractive ==
  /\ InMain("interactive")
  /\ scenario.fake = "none" => scenario.screen
  /\ undo' = TRUE
  /\ GoesTo("keys")
  /\ IF scenario.fake # "none"
     THEN /\ Starts(scenario.fake, 1)
          /\ handled' = <<Entry(<<>>, "running")>>
          /\ UNCHANGED <<interactive, state, thread>>
     ELSE /\ IF interface = "gtk" THEN EntersGtk ELSE EntersCurses
          /\ UNCHANGED <<running, wanted, handled>>
  /\ UNCHANGED <<interface, reader, typed, terminal, queue, keybuf, held, interrupted, signals,
                 levels, exit, error, eaten>>
  /\ UNCHANGED <<backend, memory, usage, limit>>

(* The event loop fails before it has opened the screen, since a register  *)
(* has no value for the environment.  Neither undo is disabled again nor   *)
(* is the hook executed.                                                   *)
FailsToOpen ==
  /\ InMain("interactive")
  /\ scenario.fake = "none" /\ ~scenario.screen
  /\ undo' = TRUE
  /\ error' = "screen"
  /\ GoesTo("cleanup")
  /\ UNCHANGED <<interface, interactive, pc, reader, typed, terminal, queue, keybuf, held, interrupted,
                 signals, running, levels, exit, handled, wanted, eaten>>
  /\ UNCHANGED limiterVars

-----------------------------------------------------------------------------
(* Termination.                                                            *)

(* The event loop clears the error that ended it.                          *)
Terminates ==
  /\ InMain("keys")
  /\ undo' = FALSE
  /\ levels' = <<>>
  /\ error' = IF scenario.fake # "none" THEN error ELSE "none"
  /\ GoesTo("hook")
  /\ UNCHANGED <<interface, interactive, pc, reader, typed, terminal, queue, keybuf, held, interrupted,
                 signals, running, exit, handled, wanted, eaten>>
  /\ UNCHANGED limiterVars

CallsHook ==
  /\ InMain("hook")
  /\ hooks' = hooks + 1
  /\ phase' = "cleanup"
  /\ UNCHANGED <<scenario, printed, status>>
  /\ IF scenario.hook = "none" THEN UNCHANGED loopVars
     ELSE /\ Starts(scenario.hook, 0)
          /\ UNCHANGED <<interface, interactive, reader, typed, terminal, queue, keybuf, held, interrupted,
                         signals, undo, levels, exit, error, handled, eaten>>
  /\ UNCHANGED limiterVars

(* The buffer is written to stdout only if there was no error.  Errors,    *)
(* that of writing included, take the place of the exit code.              *)
CleansUp ==
  LET saves == scenario.stdout # "none" /\ error = "none" IN
  /\ InMain("cleanup")
  /\ error' = IF saves /\ scenario.stdout = "fails" THEN "output" ELSE error
  /\ printed' = (saves /\ error' = "none")
  /\ status' = IF error' # "none" THEN "failure" ELSE IF status = "code" THEN "code" ELSE "success"
  /\ phase' = "exits"
  /\ UNCHANGED <<scenario, hooks>>
  /\ UNCHANGED <<interface, interactive, pc, reader, typed, terminal, queue, keybuf, held, interrupted,
                 signals, running, undo, levels, exit, handled, wanted, eaten>>
  /\ UNCHANGED limiterVars

(* Destructors of debug builds.                                            *)
DestroysThread ==
  /\ InMain("exits")
  /\ Shutdown
  /\ GoesTo("joins")
  /\ UNCHANGED loopVars

JoinsThread ==
  /\ InMain("joins")
  /\ Joined
  /\ GoesTo("exited")
  /\ LoopUnchanged

-----------------------------------------------------------------------------
Main ==
  \/ ProcessesOptions \/ SetsUp \/ LoadsStdin \/ StartsMacro \/ MacroEnds
  \/ GoesInteractive \/ FailsToOpen \/ Terminates \/ CallsHook \/ CleansUp \/ DestroysThread \/ JoinsThread
  \/ LoopNext /\ UNCHANGED mainVars

UserTypes == (\E kind \in scenario.keys : Type(kind)) /\ UNCHANGED mainVars
SignalArrives == scenario.signals /\ phase # "exited" /\ Signal /\ UNCHANGED mainVars
ThreadRuns == ThreadNext /\ UNCHANGED <<loopVars, mainVars>>

Next == Main \/ UserTypes \/ SignalArrives \/ ThreadRuns

(* Neither thread stops for good by itself, and execution polls the main   *)
(* loop of GTK again and again.  Nobody has to type.                       *)
Fairness ==
  /\ WF_vars(Main)
  /\ SF_vars(ExecutesPolling /\ UNCHANGED mainVars)
  /\ WF_vars(ThreadLooks /\ UNCHANGED <<loopVars, mainVars>>)
  /\ WF_vars(ThreadMeasures /\ UNCHANGED <<loopVars, mainVars>>)

Spec == Init /\ [][Next]_vars /\ Fairness

-----------------------------------------------------------------------------
(* Properties.                                                             *)

(* The program ends in one way: nothing is processed behind the key that   *)
(* ends it, the QUIT hook is executed once, behind everything else and     *)
(* without undo, the buffer is printed and the exit code is no failure only *)
(* if the hook and everything in front of it succeeded.                    *)
NothingBehindQuit ==
  \A i \in DOMAIN handled : handled[i].outcome \in {"quit", "committed"} => i = Len(handled)
HookIsLast ==
  hooks > 0 => hooks = 1 /\ ~undo /\ ~interactive /\ phase \in {"cleanup", "exits", "joins", "exited"}
Ended == phase \in {"exits", "joins", "exited"}
SuccessMeansHook ==
  /\ printed => status # "failure"
  /\ Ended /\ status # "failure" /\ scenario.options = "ok" => hooks = 1 /\ error = "none"
  /\ status = "failure" /\ scenario.options = "ok" /\ scenario.mung # "missing" => Failed
EndsOnce == NothingBehindQuit /\ HookIsLast /\ SuccessMeansHook

(* What never ends by itself is stopped: by ^C, a signal or the limit.  On *)
(* terminals a ^C typed in before its key was taken is an ordinary key.    *)
RunsOn == running.kind \in {"loop", "hog", "delays"}
ToBeStopped ==
  /\ RunsOn
  /\ \/ wanted
     \/ interactive /\ interface # "tty" /\ \E key \in ToSet(terminal) : IsInterrupt(key)
     \/ running.kind = "hog" /\ limit # 0
RunawaysEnd == ToBeStopped ~> ~RunsOn

(* Memory is no longer measured while the event loop waits for a key.      *)
QuietWhile(p) == <>[](pc = p) => <>[](thread # "polling")
IdleIsQuiet == QuietWhile("waits")
(* The same for macros that wait for a key, in the nested loop of GTK.     *)
AskingIsQuiet == QuietWhile("nested")

(* Macros do not keep the user, and waiting does not keep the processor.   *)
Responsive == RunawaysEnd /\ IdleIsQuiet
=============================================================================
