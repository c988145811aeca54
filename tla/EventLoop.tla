----------------------------- MODULE EventLoop ------------------------------
(***************************************************************************)
(* How keys reach the command line and how ^C and the memory limit stop    *)
(* what they execute: the event loops of the Curses and GTK interfaces     *)
(* (interface-curses/interface.c, interface-gtk/interface.c), the polling  *)
(* for interruptions and the loop of teco_machine_main_step.  The Curses   *)
(* interface exists for terminals ("tty"), where ^C is a signal, and for   *)
(* windows ("pad"), where it has to be found among the keys.               *)
(*                                                                         *)
(* Keys are numbered in the order they are typed in.  What a key does is   *)
(* its kind: run a macro that ends ("plain"), fails, never ends ("loop"),  *)
(* allocates without end ("hog"), waits again and again ("delays"), asks   *)
(* for a character ("asks") or a byte ("asksByte"), sets the memory limit  *)
(* ("limits", "unlimits"), rubs out the last key ("rubs") or ends the      *)
(* program ("exits", and "commits" if the last character comes from an     *)
(* input method), or it is the key "close" or "function" or one of the     *)
(* bytes "lead", "cont" of a character.  "^C" and "^D" are plain keys,     *)
(* except for macros that ask.                                             *)
(***************************************************************************)
EXTENDS Limiter, Integers, SequencesExt

CONSTANTS LowLimit,    \* the limit set by keys of the kind "limits"
          Utf8,        \* whether the terminal sends valid characters
          MaxKeys,     \* bound: keys typed in
          MaxSignals   \* bound: signals sent from outside

ASSUME EventLoopAssumption == LowLimit \in Nat

VARIABLES interface,    \* "tty", "pad" or "gtk"
          interactive,  \* whether the screen or the window exists
          pc,           \* where the main thread is
          reader,       \* who waits for a key: the "loop" or a "macro"
          typed,        \* the kinds of the keys typed so far
          terminal,     \* typed, but not yet read by the program
          queue,        \* teco_interface.input_queue or event_queue
          keybuf,       \* the bytes of an incomplete character, of the event
                        \* loop or of the macro that asks (never of both)
          held,         \* the key wgetch() has returned
          interrupted,  \* teco_interrupted
          signals,      \* signals sent from outside
          running,      \* the macro that is being executed
          undo,         \* teco_undo_enabled
          levels,       \* the memory limits in front of the keys on the line
          exit,         \* bit TECO_ED_EXIT of teco_ed, set by EX
          error,        \* the GError that has reached the event loop or main
          \* and as a history:
          handled,      \* what became of the keys, in order
          wanted,       \* an interruption since the macro has been started
          eaten         \* keys that interrupted, or died with the interruption
loopVars == <<interface, interactive, pc, reader, typed, terminal, queue, keybuf, held,
              interrupted, signals, running, undo, levels, exit, error, handled, wanted, eaten>>

(* The entry of its key in handled, and the memory in use when it started. *)
Nobody == [kind |-> "nobody", entry |-> 0, memory |-> 0]

LoopInit(i, b) ==
  /\ LimiterInit(b)
  /\ interface = i /\ interactive = FALSE
  /\ pc = "main" /\ reader = "loop" /\ typed = <<>> /\ terminal = <<>> /\ queue = <<>>
  /\ keybuf = <<>> /\ held = 0 /\ interrupted = FALSE /\ signals = 0 /\ running = Nobody
  /\ undo = FALSE /\ levels = <<>> /\ exit = FALSE /\ error = "none"
  /\ handled = <<>> /\ wanted = FALSE /\ eaten = {}

IsInterrupt(key) == typed[key] = "^C"
Entry(keys, outcome) == [keys |-> keys, outcome |-> outcome, wanted |-> FALSE]

-----------------------------------------------------------------------------
(* The user.  While wgetch() waits the terminal is in raw mode, otherwise  *)
(* its driver turns ^C into a signal and throws away what was typed ahead. *)

Raw == pc \in {"waits", "fetched"}

Interrupt == interrupted' = TRUE /\ wanted' = TRUE

Type(kind) ==
  /\ interactive
  /\ Len(typed) < MaxKeys
  /\ Utf8 => (kind = "cont" <=> typed # <<>> /\ Last(typed) = "lead")
  /\ typed' = Append(typed, kind)
  /\ IF interface = "tty" /\ kind = "^C" /\ ~Raw
     THEN /\ Interrupt
          /\ terminal' = <<>>
          /\ eaten' = eaten \cup ToSet(terminal) \cup {Len(typed')}
     ELSE /\ terminal' = Append(terminal, Len(typed'))
          /\ UNCHANGED <<interrupted, wanted, eaten>>
  /\ UNCHANGED <<interface, interactive, pc, reader, queue, keybuf, held, signals, running,
                 undo, levels, exit, error, handled>>
  /\ UNCHANGED limiterVars

(* SIGINT, and SIGTERM where the interface does not turn it into a key.    *)
Signal ==
  /\ signals < MaxSignals
  /\ signals' = signals + 1
  /\ Interrupt
  /\ UNCHANGED <<interface, interactive, pc, reader, typed, terminal, queue, keybuf, held,
                 running, undo, levels, exit, error, handled, eaten>>
  /\ UNCHANGED limiterVars

-----------------------------------------------------------------------------
(* Polling: what teco_interface_is_interrupted leaves and returns.         *)

Poll(q, t, flag, caught, result) ==
  [queue |-> q, terminal |-> t, flag |-> flag, caught |-> caught, result |-> result]
NoPoll == Poll(queue, terminal, interrupted, {}, interrupted)

(* One event from the main loop of GTK while input_cb is active.           *)
PollEvent ==
  LET key == Head(terminal) IN
  IF IsInterrupt(key) THEN Poll(queue, Tail(terminal), TRUE, {key}, TRUE)
  ELSE Poll(Append(queue, key), Tail(terminal), interrupted, {}, interrupted)

(* All keys up to a ^C, which leaves no flag behind.                       *)
PollPad ==
  LET at == SelectInSeq(terminal, IsInterrupt) IN
  IF at = 0 THEN Poll(queue \o terminal, <<>>, interrupted, {}, interrupted)
  ELSE Poll(queue \o SubSeq(terminal, 1, at - 1), SubSeq(terminal, at + 1, Len(terminal)),
            interrupted, {terminal[at]}, TRUE)

(* GTK looks for events only when TECO_POLL_INTERVAL has passed.           *)
Polls ==
  IF ~interactive \/ interface = "tty" THEN {NoPoll}
  ELSE IF interface = "pad" THEN {PollPad}
  ELSE {NoPoll} \cup (IF terminal = <<>> THEN {} ELSE {PollEvent})

Polled(p) ==
  /\ queue' = p.queue /\ terminal' = p.terminal
  /\ eaten' = eaten \cup p.caught
  /\ wanted' = (wanted \/ p.caught # {})

-----------------------------------------------------------------------------
(* Executing a macro: teco_machine_main_step, and how it ends.             *)

Rejecting == {"interrupted", "memory", "failed"}

(* An error in a key rubs out what it did; without undo nothing is undone. *)
(* Errors reach the caller only if they end the program.                   *)
Ends(outcome) ==
  /\ running' = Nobody
  /\ handled' = IF undo THEN [handled EXCEPT ![running.entry].outcome = outcome,
                                            ![running.entry].wanted = wanted'] ELSE handled
  /\ IF undo /\ outcome \in Rejecting THEN Allocate(running.memory) ELSE UNCHANGED <<memory, usage>>
  /\ error' = CASE outcome \in {"quit", "committed"} -> "quit"
                [] ~undo /\ outcome \in Rejecting -> outcome
                [] OTHER -> error
  /\ pc' = IF ~interactive THEN "main"
           ELSE IF outcome = "quit" THEN "stops"
           ELSE IF interface = "gtk" THEN "drains" ELSE "ready"

(* What comes from an input method ends the main loop, not input_cb.       *)
EndOfProgram == IF running.kind = "commits" /\ interface = "gtk" THEN "committed" ELSE "quit"

(* Executes the rest of the macro, or of a round of its loop.              *)
Finishes ==
  /\ running.kind \in {"plain", "fails", "exits", "commits", "ex"}
  /\ exit' = (exit \/ running.kind \in {"ex", "exits", "commits"})
  /\ Ends(CASE running.kind = "fails" -> "failed"
            [] running.kind \in {"exits", "commits"} -> EndOfProgram
            [] OTHER -> "done")
  /\ levels' = IF undo /\ running.kind = "plain" THEN Append(levels, limit) ELSE levels
  /\ UNCHANGED <<limit, state, thread, reader>>

Sets ==
  /\ running.kind \in {"limits", "unlimits"}
  /\ \E new \in {IF running.kind = "limits" THEN LowLimit ELSE 0} :
       IF SettingFails(new)
       THEN Ends("failed") /\ UNCHANGED <<limit, state, thread, levels>>
       ELSE Ends("done") /\ SetLimit(new) /\ levels' = IF undo THEN Append(levels, limit) ELSE levels
  /\ UNCHANGED <<reader, exit>>

(* Rubbing out the last key restores the limit, but not the thread.        *)
RubsOut ==
  /\ running.kind = "rubs"
  /\ limit' = IF levels = <<>> THEN limit ELSE Last(levels)
  /\ levels' = IF levels = <<>> THEN levels ELSE Front(levels)
  /\ Ends("done")
  /\ UNCHANGED <<state, thread, reader, exit>>

(* Another round of a loop: one that allocates, one that waits.            *)
GoesOn ==
  /\ running.kind \in {"loop", "hog", "delays"}
  /\ IF running.kind = "hog" /\ memory < MaxMemory THEN Allocate(memory + 1) ELSE UNCHANGED <<memory, usage>>
  /\ pc' = IF running.kind = "delays" THEN "delays" ELSE pc
  /\ UNCHANGED <<limit, state, thread, running, reader, levels, exit, error, handled>>

(* teco_interface_getch.  Curses takes a key from the queue if there is    *)
(* one; GTK nests a main loop, whose handlers replace the usual ones.      *)
NestsMainLoop == pc' = "nested"
IsAsking == running.kind \in {"asks", "asksByte"}
Asks ==
  /\ IsAsking
  /\ interactive
  /\ reader' = "macro"
  /\ IF interface = "gtk" THEN NestsMainLoop ELSE pc' = "ready"
  /\ UNCHANGED <<limit, state, thread, memory, usage, running, levels, exit, error, handled>>

(* In batch mode the key comes from stdin.                                 *)
AsksStdin ==
  /\ IsAsking
  /\ ~interactive
  /\ running' = [running EXCEPT !.kind = "plain"]
  /\ UNCHANGED <<limit, state, thread, memory, usage, pc, reader, levels, exit, error, handled>>

Step(p) ==
  /\ pc = "step"
  /\ Polled(p)
  /\ IF p.result \/ Exceeded(0)
     THEN /\ Ends(IF p.result THEN "interrupted" ELSE "memory")
          /\ UNCHANGED <<limit, state, thread, reader, levels, exit>>
     ELSE Finishes \/ Sets \/ RubsOut \/ GoesOn \/ Asks \/ AsksStdin
  /\ interrupted' = IF pc' = "drains" THEN FALSE ELSE p.flag
  /\ UNCHANGED <<backend, interface, interactive, typed, keybuf, held, signals, undo>>

(* [n]^W waits until its time is over or there is an interruption.         *)
Delays(p) ==
  /\ pc = "delays"
  /\ Polled(p)
  /\ pc' = "step"
  /\ interrupted' = p.flag
  /\ UNCHANGED <<interface, interactive, reader, typed, keybuf, held, signals, running, undo,
                 levels, exit, error, handled>>
  /\ UNCHANGED limiterVars

(* A macro is started, for the key with the given entry.                   *)
Starts(kind, entry) ==
  /\ running' = [kind |-> kind, entry |-> entry, memory |-> memory]
  /\ wanted' = FALSE
  /\ pc' = "step"

-----------------------------------------------------------------------------
(* Keys that have been read.                                               *)

StartsKey(keys, kind) ==
  /\ Starts(IF kind \in {"^C", "^D"} THEN "plain" ELSE kind, Len(handled) + 1)
  /\ handled' = Append(handled, Entry(keys, "running"))
  /\ UNCHANGED error

Ignored(keys, outcome, next) ==
  /\ handled' = Append(handled, Entry(keys, outcome))
  /\ pc' = next
  /\ UNCHANGED <<running, wanted, error>>

(* Function keys have no macros.  The CLOSE key ends the program then.     *)
IsFunctionKey(key) == typed[key] \in {"close", "function"}
Closes(key) ==
  /\ handled' = Append(handled, Entry(<<key>>, "quit"))
  /\ error' = "quit"
  /\ pc' = "stops"
  /\ UNCHANGED <<running, wanted>>

KeyMacro(key, next) == IF typed[key] = "close" THEN Closes(key) ELSE Ignored(<<key>>, "ignored", next)

(* Bytes are collected until they are a character or cannot become one.    *)
Byte(key) ==
  LET bytes == Append(keybuf, key)
      kinds == [i \in DOMAIN bytes |-> typed[bytes[i]]]
  IN CASE kinds = <<"lead">> ->
            keybuf' = bytes /\ pc' = "ready" /\ UNCHANGED <<running, wanted, error, handled>>
       [] kinds = <<"lead", "cont">> -> keybuf' = <<>> /\ StartsKey(bytes, "plain")
       [] keybuf = <<>> /\ kinds \notin {<<"lead">>, <<"cont">>} -> keybuf' = <<>> /\ StartsKey(bytes, typed[key])
       [] OTHER -> keybuf' = <<>> /\ Ignored(bytes, "invalid", "ready")

(* The rest of teco_interface_event_loop_iter.                             *)
Key(key, flag) ==
  /\ IF IsFunctionKey(key) THEN KeyMacro(key, "ready") /\ UNCHANGED keybuf ELSE Byte(key)
  /\ interrupted' = flag
  /\ UNCHANGED reader

(* The rest of teco_interface_getch.  The macro gets what it asked for, or *)
(* else -1 for ^C and ^D and the code of a function key, and goes on.  The *)
(* bytes in front of these are lost.                                       *)
AnswersWith(keys, outcome) ==
  /\ handled' = Append(handled, Entry(keys, outcome))
  /\ running' = [running EXCEPT !.kind = "plain"]
  /\ reader' = "loop" /\ pc' = "step" /\ keybuf' = <<>>
AsksAgain(bytes) == keybuf' = bytes /\ pc' = "ready" /\ UNCHANGED <<running, reader>>

AnswerByte(key) ==
  LET bytes == Append(keybuf, key)
      kinds == [i \in DOMAIN bytes |-> typed[bytes[i]]]
  IN CASE kinds = <<"lead">> -> AsksAgain(bytes) /\ UNCHANGED handled
       [] kinds = <<"lead", "cont">> \/ (keybuf = <<>> /\ kinds \notin {<<"lead">>, <<"cont">>}) ->
            AnswersWith(bytes, "answer")
       [] OTHER -> AsksAgain(<<>>) /\ handled' = Append(handled, Entry(bytes, "invalid"))

GivesUp(key) == typed[key] \in {"^C", "^D"} \/ IsFunctionKey(key)
Answer(key, flag) ==
  /\ IF running.kind = "asksByte" \/ GivesUp(key)
     THEN AnswersWith(Append(keybuf, key), IF keybuf = <<>> THEN "answer" ELSE "invalid")
     ELSE AnswerByte(key)
  /\ interrupted' = (flag \/ IsInterrupt(key))
  /\ wanted' = (wanted \/ IsInterrupt(key))
  /\ UNCHANGED error

Read(key, flag) == IF reader = "macro" THEN Answer(key, flag) ELSE Key(key, flag)

-----------------------------------------------------------------------------
(* Curses: teco_interface_blocking_getch.                                  *)

PopsKey ==
  /\ pc = "ready" /\ interface # "gtk" /\ queue # <<>>
  /\ queue' = Tail(queue)
  /\ Read(Head(queue), interrupted)
  /\ UNCHANGED <<interface, interactive, typed, terminal, held, signals, undo, levels, exit, eaten>>
  /\ UNCHANGED limiterVars

BeginsToWait ==
  /\ pc = "ready" /\ interface # "gtk" /\ queue = <<>>
  /\ StopLimiting
  /\ pc' = "waits"
  /\ UNCHANGED <<interface, interactive, reader, typed, terminal, queue, keybuf, held, interrupted,
                 signals, running, undo, levels, exit, error, handled, wanted, eaten>>
  /\ UNCHANGED <<backend, memory, usage, limit>>

Fetches ==
  /\ pc = "waits" /\ interface # "gtk" /\ terminal # <<>>
  /\ held' = Head(terminal) /\ terminal' = Tail(terminal)
  /\ StartLimiting
  /\ pc' = "fetched"
  /\ UNCHANGED <<interface, interactive, reader, typed, queue, keybuf, interrupted, signals,
                 running, undo, levels, exit, error, handled, wanted, eaten>>
  /\ UNCHANGED <<backend, memory, usage, limit>>

ResetsNothing ==
  /\ pc = "fetched"
  /\ Read(held, interrupted)
  /\ held' = 0
  /\ UNCHANGED <<interface, interactive, typed, terminal, queue, signals, undo, levels, exit, eaten>>
  /\ UNCHANGED limiterVars

(* Interruptions up to here are forgotten.                                 *)
Resets ==
  /\ pc = "fetched"
  /\ Read(held, FALSE)
  /\ held' = 0
  /\ UNCHANGED <<interface, interactive, typed, terminal, queue, signals, undo, levels, exit, eaten>>
  /\ UNCHANGED limiterVars

-----------------------------------------------------------------------------
(* GTK: teco_interface_input_cb.                                           *)

ReceivesEvent ==
  /\ pc = "waits" /\ interface = "gtk" /\ terminal # <<>>
  /\ queue' = Append(queue, Head(terminal)) /\ terminal' = Tail(terminal)
  /\ StartLimiting
  /\ pc' = "ready"
  /\ UNCHANGED <<interface, interactive, reader, typed, keybuf, held, interrupted, signals,
                 running, undo, levels, exit, error, handled, wanted, eaten>>
  /\ UNCHANGED <<backend, memory, usage, limit>>

KeyPress(key) == IF IsFunctionKey(key) THEN KeyMacro(key, "drains") ELSE StartsKey(<<key>>, typed[key])

HandlesEvent ==
  /\ pc = "ready" /\ interface = "gtk"
  /\ queue' = Tail(queue)
  /\ KeyPress(Head(queue))
  /\ interrupted' = FALSE
  /\ UNCHANGED <<interface, interactive, reader, typed, terminal, keybuf, held, signals, undo,
                 levels, exit, eaten>>
  /\ UNCHANGED limiterVars

(* Pending events are processed before the next one of the queue.          *)
Drains ==
  /\ pc = "drains"
  /\ IF terminal # <<>>
     THEN \E p \in {PollEvent} : /\ Polled(p) /\ interrupted' = p.flag
                                 /\ UNCHANGED <<pc, state, thread>>
     ELSE /\ IF queue # <<>> THEN pc' = "ready" /\ UNCHANGED <<state, thread>>
             ELSE StopLimiting /\ pc' = IF error = "quit" THEN "stops" ELSE "waits"
          /\ UNCHANGED <<queue, terminal, eaten, wanted, interrupted>>
  /\ UNCHANGED <<interface, interactive, reader, typed, keybuf, held, signals, running, undo,
                 levels, exit, error, handled>>
  /\ UNCHANGED <<backend, memory, usage, limit>>

(* The nested main loop of teco_interface_getch takes the events itself,   *)
(* except for "close", which is no event and sent to input_cb.             *)
NestedEvent ==
  /\ pc = "nested" /\ terminal # <<>>
  /\ terminal' = Tail(terminal)
  /\ queue' = IF typed[Head(terminal)] = "close" THEN Append(queue, Head(terminal)) ELSE queue
  /\ CASE typed[Head(terminal)] = "close" ->
            UNCHANGED <<pc, running, wanted, error, handled, interrupted, reader, keybuf>>
       [] typed[Head(terminal)] = "function" ->
            Ignored(<<Head(terminal)>>, "ignored", "nested") /\ UNCHANGED <<interrupted, reader, keybuf>>
       [] OTHER -> Answer(Head(terminal), interrupted)
  /\ UNCHANGED <<interface, interactive, typed, held, signals, undo, levels, exit, eaten>>
  /\ UNCHANGED limiterVars

(* teco_interface_event_loop, up to its main loop or its first key.        *)
OpensScreen == interactive' = TRUE
EntersGtk == OpensScreen /\ StopLimiting /\ pc' = "waits"
EntersCurses == OpensScreen /\ pc' = "ready" /\ UNCHANGED <<state, thread>>

(* The program returns to batch mode.                                      *)
ClosesScreen == interactive' = FALSE
Leaves ==
  /\ pc = "stops"
  /\ IF interface = "gtk" THEN StopLimiting ELSE UNCHANGED <<state, thread>>
  /\ ClosesScreen
  /\ pc' = "main"
  /\ UNCHANGED <<interface, reader, typed, terminal, queue, keybuf, held, interrupted, signals,
                 running, undo, levels, exit, error, handled, wanted, eaten>>
  /\ UNCHANGED <<backend, memory, usage, limit>>

Executes == \E p \in Polls : Step(p) \/ Delays(p)
(* Execution with an event taken from the main loop of GTK.                *)
ExecutesPolling == terminal # <<>> /\ \E p \in Polls \ {NoPoll} : Step(p) \/ Delays(p)

LoopNext ==
  \/ Executes \/ PopsKey \/ BeginsToWait \/ Fetches \/ Resets
  \/ ReceivesEvent \/ HandlesEvent \/ Drains \/ NestedEvent \/ Leaves

-----------------------------------------------------------------------------
(* Properties.                                                             *)

(* Keys are taken in the order in which they have been typed in: by the    *)
(* event loop or by the ^T command of a macro, from the queue of keys that *)
(* were typed ahead or from the terminal.  The GTK interface gives keys    *)
(* that were typed ahead only to its event loop.                           *)
Sorted(S) ==
  \A i, j \in DOMAIN handled : \A a \in DOMAIN handled[i].keys, b \in DOMAIN handled[j].keys :
    handled[i].outcome \in S /\ handled[j].outcome \in S /\ (i < j \/ (i = j /\ a < b)) =>
      handled[i].keys[a] < handled[j].keys[b]
Outcomes == Rejecting \cup {"running", "done", "quit", "committed", "ignored", "invalid", "answer"}
InOrder ==
  IF interface = "gtk" THEN Sorted({"answer"}) /\ Sorted(Outcomes \ {"answer", "ignored"})
  ELSE Sorted(Outcomes)

(* The same for the keys of GTK's event loop and its nested one together.  *)
TakenInOrder == Sorted(Outcomes)

(* No key is lost: it has been taken or waits somewhere, unless it was a   *)
(* ^C that interrupted or the terminal's driver threw it away with one.    *)
NoneLost ==
  \A key \in DOMAIN typed :
    \/ \E i \in DOMAIN handled : key \in ToSet(handled[i].keys) /\ handled[i].outcome # "invalid"
    \/ key \in ToSet(terminal) \cup ToSet(queue) \cup ToSet(keybuf) \cup {held} \cup eaten

(* An interruption ends the key that was being processed when it came, and *)
(* never one of the keys behind it.                                        *)
InterruptsOneKey ==
  \A i \in DOMAIN handled :
    handled[i].keys # <<>> /\ handled[i].outcome = "interrupted" => handled[i].wanted

KeysAreHandled == InOrder /\ NoneLost /\ InterruptsOneKey

(* A key is rejected for its use of memory only if it really used that     *)
(* much: the measured usage is up to date when it is compared.             *)
RejectedForItsMemory ==
  [][\A i \in DOMAIN handled :
       handled'[i].outcome = "memory" /\ handled[i].outcome # "memory" => memory >= limit]_<<handled>>

(* The ^T command returns characters and no function keys.                 *)
AnswersAreCharacters ==
  \A i \in DOMAIN handled : handled[i].outcome = "answer" => typed[handled[i].keys[1]] # "function"
=============================================================================
