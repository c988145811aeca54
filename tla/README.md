# A verification development for SciTECO

SciTECO is an interactive text editor whose command line *is* a program: every
key is inserted into a command line macro and executed at once, every character
can be rubbed out again with all of its effects, and the same language runs
macros in batch mode.  This directory holds TLA+ models of it, TLC
configurations that check them on small instances, and TLAPS proofs, for every size
of the instances, about what everything that can be rubbed out rests on: the undo stack, the
command line, the loop stack, the linked lists, files and processes.

Paths below are relative to `src/`, the directory of C code in the repository.

## 1. Inventory

| component | state | operations | what is hard |
|---|---|---|---|
| **Undo stack** `undo.c`, `undo.h` | `teco_undo_heads`: a list of tokens for every byte of the command line; `teco_undo_enabled` | push (by the macros for scalars, owned objects, calls), pop to a length, clear | tokens restore absolute values and indices: right only in reverse order from exactly the right state; ownership of heap objects |
| **Command line** `cmdline.c` | text, effective length, program counter, saved old command line, the parser's state | key press, insert, rub in and out by characters, words, strings and commands, replacement by `{` `}`, completion, termination by `$$` | everything happens while the text is being executed; failure half way; multi-byte characters; what is completed is parsed again |
| **Expressions** `expressions.c` | operator stack, number stack, brace level, prefix sign | push, calculate by precedence, braces, discard, return | two stacks in step; incomplete expressions; several values in braces |
| **Interpreter** `parser.c`, `core-commands.c` | macro frames (program counter, mode, modifiers, nesting), loop stack, string building machines | loops, conditionals, breaks, macro calls, returns, string arguments | no syntax tree: it skips text by counting; three stacks that open and close independently; machines that contain each other |
| **Gotos** `goto.c`, `goto-commands.c` | label table of every macro, the label looked for, the position to continue from | label, goto | the table is filled while parsing; parsing ahead, giving up |
| **Q-Registers** `qreg.c`, `qreg-commands.c` | global and local register tables, push-down stack | read, write, push, pop, load, edit, copy, macro call | undo of each kind of register; one view for all of them; editing a register that goes away |
| **Documents and views** `doc.c`, `view.c` | reference-counted Scintilla documents; save points; encoding, character index | edit, swap, load, save, convert positions | what an undo token finds in the view; crash between rename and write |
| **Buffer ring** `ring.c`, `list.h` | tail queue of buffers, the current one | open, edit, close, save; hooks | hooks run macros in the middle; reinsertion of closed buffers |
| **Search** `search.c` | parameters, result and pattern registers, ranges | all search commands, replacement, deletion | the whole search is repeated with every key; several buffers; incomplete patterns |
| **Movement, deletion, typeout** `move-commands.c`, `stdio-commands.c` | dot and selection of the document | moves by characters, lines and words, deletion, insertion, queries | bytes and characters, the gap of the buffer, both ends |
| **EOL normalisation** `eol.c` | block of input, last character | read and write in blocks | sequences across blocks |
| **Processes** `spawn.c` | static context, event loop | start, feed, read, exit, interrupt | order of events; interruption escalates |
| **Memory limit** `memory.c` | usage counter, limit, polling thread | check, set limit, start/stop polling | a thread; the limit itself can be undone |
| **Interfaces** `interface-curses`, `interface-gtk` | key queue, interruption flag | get key, poll | keys and interruptions race; recursion of event loops |
| **Main program** `main.c` | options, batch or interactive mode | start, run macros, quit | many ways to end |
| **Lexer** `lexer.c` | parser machine, styles, line states, fold levels | style from the end of what is styled | restarting in the middle; macros in braces |
| **Files, globbing, help** `file-utils.c`, `glob.c`, `help.c` | - | completion, glob patterns | escaping for three languages at once |

How they interact.  The interface hands keys to `teco_cmdline_keypress()`, which
inserts characters and lets the main state machine execute them
(`teco_machine_main_step()`).  Commands change the expression stacks, the loop
stack, registers, documents, the ring and the parser itself, and push an undo token
before every such change.  An error propagates up to the key press handler, which pops
the undo tokens of the characters that were inserted; so do rubout keys.  `$$`
ends the command line: it clears the undo stack.  Macro calls recurse through
`teco_execute_macro()`; opening, editing and closing buffers runs hooks, which are macros.
Loading and saving, and pipes to processes, go through the EOL readers and
writers.  The lexer runs parser machines of its own.  There is one thread, except
for the measurement of memory; interruptions arrive asynchronously through a flag that
is polled between characters, and processes run an event loop inside a command.

What makes each component correct:

* undo: a rubout leads exactly to the state before the character; objects have
  one owner and none is lost;
* command line: the editor always is what the effective command line, executed
  from the start, makes it; rejected keys leave no trace; word rubout takes
  exactly one command; every key press comes to its end; what is completed means what
  it was completed to;
* expressions: an expression has the value that precedence gives it wherever it
  stands, and nothing beyond a brace is touched;
* interpreter: programs have the effects of their structure; gotos go to the
  first definition of their label; rubout restores the loops; macros never touch
  the loops of their callers; skipped and executed strings end at the same place;
* registers and documents: a document lives as long as somebody refers to it; the view
  shows what is edited; commands change the registers they name, and rubout restores them;
* ring: a sequence of buffers that closing, hooks, errors and rubout leave intact; a
  clean buffer is what its file contains; no crash loses the original of a file;
* search and movement: each key finds what the whole pattern finds; conversions agree;
* processes: the range goes in, the normalised output comes out, the command ends;
* interfaces: keys are handled in order, none is lost, what does not end can be stopped;
* lexer: styles are those of the whole text.

All hazards, with their lines and the properties that cover them, are listed
in `PROJECT.json`.

## 2. Modules

| module | models | composed of |
|---|---|---|
| `Undo` | undo stack, with a scalar, owned strings and an array | |
| `SequenceLemmas`, `UndoProofs` | lemmas on sequences; the theorems on `Undo` | `Undo` |
| `ProgramProofs` | the theorems on `Program` and `EventLoop` | `Program`, `SequenceLemmas` |
| `CmdChars` | the little language of the command line model and its state machine | |
| `CmdlineSpec` | abstract: an editor that follows a cursor in a line | |
| `Cmdline` | the command line, its editing keys, replacement and failures | `CmdChars`, implements `CmdlineSpec` |
| `CmdlineProofs` | the theorems on `Cmdline` | `Cmdline`, `SequenceLemmas` |
| `Expressions` | the functions of `expressions.c` as operators on a record | |
| `ExpressionTrees` | expressions as trees with their values, executed | `Expressions` |
| `Calculator` | arithmetic commands in any order | `Expressions` |
| `Interp` | macro frames, loops, conditionals, gotos, calls, returns | `Expressions` |
| `GotoSpec` | abstract: gotos that know the whole macro | |
| `Programs` | programs as trees with their meaning, and texts of gotos, executed | `Interp`, implements `GotoSpec` |
| `Session` | the interpreter at the command line, with undo | `Interp` |
| `SessionProofs` | the theorems on `Session` | `Session`, `SequenceLemmas` |
| `StringBuilding` | string building, string arguments, names of registers | |
| `Arguments` | completions, their escaping, glob patterns; typing, completing and rubbing out an argument | `StringBuilding` |
| `Documents` | documents of registers in their one view | |
| `Registers` | the commands on registers, with macros and rubout | `Documents` |
| `Tailq` | tail queues | |
| `RingSpec` | abstract: a sequence of buffers that can be rubbed out | |
| `Ring` | buffers, hooks, files, save points, crashes | `Tailq`, implements `RingSpec` |
| `RingProofs` | the theorems on `Tailq` and on the files of `Ring` | `Ring`, `SequenceLemmas` |
| `RingOrderProofs` | the theorems on the order of `Ring` | `RingProofs` |
| `TextView` | text, positions, encodings, words | |
| `Patterns` | search patterns, regular expressions, matches | `TextView` |
| `Editing` | moves, deletions, insertions, queries | `Patterns` |
| `Search` | searching, and typing and rubbing out all of these | `Editing` |
| `Eol` | EOL readers and writers | |
| `Spawn` | `EC`, `EG` and their event loop | `Eol` |
| `SpawnProofs` | the theorems on `Spawn` | `Spawn`, `SequenceLemmas` |
| `Limiter` | the memory limit and its thread | |
| `EventLoop` | keys, interruptions and the execution of macros | `Limiter` |
| `Program` | the life of the program | `EventLoop` |
| `Lexer` | styling on demand | |
| `MC...` | instances for TLC (that of `ExpressionTrees` is at its end) | |

Where a component has many fields an *editor* is a record, and the functions of the
code are operators from records to records, so that they compose as the calls do;
the actions of the module are the commands.  `failed` is the error on its way, and
`tokens` the undo tokens of the command.  Ghost variables, which no guard reads, are
named in each module.

### Undo

`teco_undo_heads` is an array of token lists, one for every executed character.
The model keeps them as one flat sequence, `log`, oldest token first, with the
index of its list in every token (`at`), and the length of the array, `len`; `pc` is the
program counter that `teco_undo_push_size()` uses as index.  A token is one of
the kinds that the macros of `undo.h` and `expressions.h` define: *scalar* (value
of a variable), *owned* (pointer; the token owns the object) and *insert* or
*remove* (index, value).  What they protect is `scal`, `own` with the explicit `heap`,
so that ownership can be stated, and the array `stk`.  The actions are changes made by
commands, in both forms the code uses for strings: `ReplaceOwned` passes the old object
to the token (`teco_undo_string_own()`), `EditOwned` lets it keep a copy.  `BeginPop`,
`PopToken`, `PopList`, `EndPop` are `teco_undo_pop(target)` token by token;
`BeginClear`, `ClearToken`, `ClearList`, `EndClear` are `teco_undo_clear()`.  A command
may fail after any of its changes: a pop may begin after every step.
Three ghosts: a token's `before` is what the user saw (`View`) when it was pushed;
`snaps[n + 1]` and `marks[n + 1]` are the view and the number of tokens when `pc` became n.

### Command line

`Cmdline` has the text (`str`), effective length, the two program counters, the
old command line and replacement position of `teco_cmdline_insert()`, and an editor
(`ed`): a state machine (`CmdChars`) with modifiers, Q-Register names, strings, escapes
and commands, so that the tests the `process_edit_cmd` functions make on the current state
can be modelled, and one observable value, the bytes executed.  Of the undo stack it
uses what `Undo` promises: `heads[i + 1]` is the editor before the first change
by a character at offset i or later.  A key press is a sequence of keys, `keys`: more than
one for a key macro.  `op` is the loop that an editing key's handler is in, `executing`
says that `teco_cmdline_insert()` is; both go on one character at a time, and any
character may fail in the ways the code has: before it changes anything, half way, by an
interruption, or in a return.  `pressed` and `outcome` are ghosts that remember the
state at the key press and how it went.  `CmdlineSpec` knows nothing of this: it has a
line and a cursor, moved by rubout and reinsertion, and may replace the line
(`EditableLine` is the refinement).

### Expressions

A record holds both stacks, level, sign and the pending error.  Every function of
`expressions.c` is an operator from records to records; what a C function returns
besides is a field of the result.  `Calculator` enters the arithmetic commands,
values, commas, braces, and returns of macros in any order.  `ExpressionTrees`
writes trees as commands, executes them and compares with the values
of the trees.

### Interpreter

A command stands for all of its characters.  A frame is a macro invocation
(`teco_machine_main_t`).  Loops, conditionals and gotos follow the code to the
order of their checks: an error in the middle of a command leaves what the code
has changed so far.  `^C` looks ahead at the next command (`ctlc` in the frame): alone it is a
return, `^C^C` ends all macros and the program at once (`Exit`), and both are passed over where
nothing is executed.  `Programs` gives programs as trees a meaning by
recursion and executes their text (its variable `tick` makes every step visible, so that
a loop that changes nothing is not mistaken for a program that has stopped); it also
executes all short texts of gotos, which refine `GotoSpec`;
`Session` adds the
command line: typing, rejection, rubout, interruption between any two commands,
termination.  There the tokens of the loop stack are executed as index
operations like GLib does; scalars and strings are restored from a copy, which
`UndoProofs` justifies for tokens that were pushed before their change.

### String arguments and completion

In `StringBuilding` a machine's `level[k]` are the fields of the k-th string building
machine and of the register machine in it: `^EQ[^EQ[a]]` uses three of each.  All
assignments the code makes with a token are in `tokens`; those it makes
without one are not, so that the model shows what a rubout misses.  `executes` says whether
the command is executed or skipped (`parse_only`), which takes other branches of the
same functions.  `Arguments` has the functions of the Tab key and of the popup - the
common prefix, its escaping for string building, globbing and the terminator, and
`teco_globber_compile_pattern()` - and types, completes and rubs out by the
`process_edit_cmd` function of the state the innermost machine is in.

### Registers and documents

`Documents` has `teco_doc_t`: a document is created when it is first needed, counted,
shown in `teco_qreg_view` by whoever needs it, and put back.  An undo token that mentions
a document without a reference is modelled as such; `dangling` says that freed memory has
been used.  `Registers` has the virtual functions of plain and external registers, of `*` (the current
buffer: its number is the buffer's, setting it edits a buffer) and of `:` (dot), and the
commands: `U` and `%`, `^U`, `EU` and `X` with characters in front of their text, `EG` with the output of a
process in pieces, `EQ`, `E%`, `EB`, `Q`, `G`, `[`, `]` and `M`; macros with local registers are calls with
another register table.  Commands fail where the code does: for an argument, for a register that refuses a
string, for a process, and for a file that is missing or cannot be read to its end, which leaves what
has been read in the register.

### Ring

`Tailq` is `list.h` with explicit pointers: a removed entry keeps its own.  In `Ring`
the calls that hooks interrupt (`EB`, `EF`, `EW`) are on a stack `calls`, so that a hook
runs other commands in their middle; errors arise wherever the code handles one.  The disk
(`ed.disk`) and the save points (`ed.points`) survive a crash, which may happen at any
step; everything else does not.  `RingSpec` sees only the sequence of buffers and
what is to be restored.

### Search, movement and text

`TextView` has what Scintilla and GRegex (external) are asked for, in bytes: a character
may be of two bytes, and a position between them is one the code must avoid.  `Patterns`
translates patterns, complete or not, with the states of
`teco_pattern2regexp()`.  `Editing` has one operator per command.
In `Search` keys are typed into a command line: each one is a step that runs the whole handler of
the command for the string so far, and a rubout executes the tokens of the last key.
`line` holds, besides each key, the editor before it, which the properties compare with.

### Processes

`Spawn` has the callbacks of the GLib main loop as actions that may happen whenever
their source is ready, and a process that reads, writes and exits as it likes.  Pipes are
sequences of bytes with a capacity.  `Eol` has the reader and writer as records.

### Interfaces and program

`EventLoop` is one main thread that waits for a key, executes a macro character by
character or polls, one environment that types keys and sends signals at any time, and the thread
of `Limiter`.  Keys are numbered, and `handled` is a ghost: what became of each.  `Program`
is `main()` around it.  The three interfaces (terminal, Curses window, GTK) are chosen in the
beginning, and with them everything the environment may refuse: the input, a screen for the interactive
mode, the standard output the buffer is written to, and the argument a macro leaves as exit code.  `^T`
waits for a whole character, `:^T` for a byte (`AsksAgain`, `AnswerByte`).

### Lexer

A document is a sequence of characters; `styles`, the line states and the fold levels are what
Scintilla stores.  An edit invalidates what is behind it, as Scintilla does;
`StyleNeeded` is `teco_lexer_style()` up to a position, in two pieces if the gap of Scintilla's buffer
lies between; a hash-bang line may go beyond the gap.  Edits move the gap, and so does asking for a range around it.
The parser in lexing mode is a function of one character.  The properties `fold` and
`lexer.sciteco.macrodef` are fields of a scenario; the gap lies between characters.

## 3. Runs

`PROJECT.json` names the properties of every run, and for each of them a mutant of the
code that violates it.

| run | bounds | properties |
|---|---|---|
| `undo` | 1 scalar, 2 owning variables, 3 addresses, array of length 2, lines of 2 characters, 3 tokens; symmetry in variables and addresses | `RuboutRestores`: rubout leads exactly to what the editor showed; `OneOwner`, `NoLeak` |
| `cmdline` | key presses begin on lines shorter than 4 bytes; commands, white space, `@`, Q-Register names, strings, a character of two bytes, key macros, `^H` `^G` `^W` `^U`, failures; replacements that keep any prefix, and failing ones of the same length | `InSync`: the editor is what the effective line makes it; `Unity`: a rejected key press leaves no trace; `WordIsOneCommand`; `BackupRestores`: after a failed replacement the old line is back; `EditableLine`: refinement of `CmdlineSpec`; `KeyPressEnds` |
| `calculator` | 5 markers, 2 numbers, three levels of precedence; all trees of up to 3 numbers with all 8 operators, of 4 numbers with 4 operators | `ComputesTheValue`: trees have their value wherever they stand, and the two stacks stay in step whatever is entered; `ReturnDelivers` |
| `programs` | loops and conditionals nested in each other, up to 2 iterations, with all jumps, `^C` and `^C^C` among them; all texts of up to 5 commands with 2 labels | `MeansItsStructure`, `Terminates`, `GotosAreDirect`: refinement of `GotoSpec` |
| `session` | 3 commands out of 24 and eight macros, one termination, 5 tokens and markers | `RuboutRestoresLoops`: tokens fit the loop stack and restore it; `CallersLoopsAreSafe` |
| `strings` | 12 kinds of arguments with an alphabet of their own, up to 6 keys; directories of 7 files, 3 registers, 3 labels | `ParsesAlike`: skipped strings end where executed ones do; `KeepsWhatWasTyped`: rubout restores the machines; `CompletesToAName` |
| `registers` | 2 plain, 1 external, 1 local register and `*`, texts of 2 characters, 3 commands, a stack of 2, with undo and without | `ReferencesAreHeld`: a document is freed when the last reference goes, and not before; `EditedIsShown`; `RuboutRestores`; `OnlyNamedChanges` |
| `ring` | 1 to 3 buffers out of 4 entries, 3 names, 3 contents, 3 commands, hooks of depth 1, 1 crash | `RingIsRing`: refers to live buffers that fit together; `CleanMeansSaved`; `OriginalSurvives`; `RingIsRestored`: refinement of `RingSpec` |
| `search` | two buffers of up to 5 bytes, in UTF-8 or of single bytes; 2 commands, patterns of up to 4 constructs, 5 keys, 1 rubout | `SearchFindsTheNth`: the n-th match, by a definition on whole texts; `EditsWhatItFound`; `LastRangeIsTheText`; `PositionsAgree`: conversions, words, lines and encodings; `RuboutRestores` |
| `processes` | a document of one and a half lines, output of 3 bytes, buffers of 1 to 3 bytes, 1 command | `InputIsRange`, `FilterReplacesRange`, `RuboutRestores`, `ExitEndsCommand` |
| `program` | 4 keys, 1 signal, memory in 4 units, 123 scenarios: keys and macros of every kind on each interface, with or without stdin, standard output, a screen, an exit code as argument | `KeysAreHandled`: in order, none lost, and an interruption ends only the key it came for; `EndsOnce`: one end, the hook once and last; `Responsive`: what does not end by itself is stopped, and idling is quiet |
| `lexer` | 7 documents of 10 to 13 characters, one of them without folds and macros, 2 edits anywhere | `StylesAreFresh`: styles, clean states and folds are those of the whole text |

Why these bounds are enough.  The undo stack compares neighbouring tokens and
lists only; two owning variables are needed for aliasing, an array of
two elements for wrong indices, three tokens for a list of two beside another one.
A command line of four bytes holds two commands with modifiers or white
space, or a string with a character of two bytes and its terminator; one more key press
goes beyond.  Four numbers make an
operator that waits while two more of falling precedence arrive.  Two levels of nesting with
two iterations distinguish first and last iterations of an inner and an outer
loop.  Five commands hold two labels of the same name, a goto before, between or behind
them, and a colon.  Three commands in the session open a loop, call a macro that
does the same and fails, and close it; the macros have up to six commands each.
Six keys in a string open a construct, a name in it, and close both, with a character
to rub out.  Three commands on registers create a document, share it by the stack,
and pop it back where it was or elsewhere.  Three buffers are a first, a middle and a last
one; three commands change, close and reopen one, or save it twice, each inside a
hook.  Two commands of a search session leave a selection and a range behind and use
them; the documents have a character of two bytes, a line end in the middle and
an empty buffer or an empty pattern.  One byte of buffer in each pipe tears every sequence
of two.  Four keys are one to run a macro, one to interrupt it, one typed ahead and one
behind.  Two edits of a document may meet before it is styled again.

`FewEffects` (a bound on the effects of a program) and `OneLine` (the model ends
after the key press that terminates the line) are state constraints: the former is never
reached by the code, it only bounds faulty variants that loop for ever.  `MaxNum` in the
calculator and the session bounds numbers by a guard.  Other bounds are the `Max...`
constants of each module, all of them in guards.

`CHECK_DEADLOCK FALSE` is set where the system may stop: when the stack is full
(`calculator`), after the last command (`processes`, `registers`, `ring`, `search`, `strings`),
after the last edit (`lexer`), and when the program has ended (`program`).  The other runs check
that there is always a next step.

Fairness.  Once a key press has begun, its next step follows: `Cmdline!FairSpec` assumes weak
fairness of the internal steps of a key press, and nothing of the user.
`Programs` assumes (`GoesOn`) that the interpreter goes on until it is finished; this is
weak fairness of its next-state relation, since it always can.  `Spawn` assumes strong
fairness of the callbacks of the standard input, the standard output and the child: the GLib main
loop dispatches a source of the same priority that is ready again and again, but in
between another callback may make it unready; the functions a callback has begun are weakly
fair.  The idle callback and the process itself are not fair: a process may run for ever.
`Program` assumes weak fairness of the main thread and of the two steps of the memory
thread (the scheduler's), and strong fairness of polling events during
execution, because `teco_interface_is_interrupted()` polls the GTK main loop every
`TECO_POLL_INTERVAL`.  Nobody has to type.

### Deviations

While modelling, places were met where the code does not do what its comments, its manual or
its own assertions say.  The passing runs leave these cases out by a constant; each
row names the configuration the run starts from, the constants to change, and the
property that is then violated.  Definitions `MC...` are those of the `MC` module, or of the module itself
(`Usages <- MCReplaces` replaces the line of that constant in the `.cfg`).  Properties
that no run lists are defined beside the others in their modules.

| configuration, and what to change | violated property | at | what happens |
|---|---|---|---|
| `MCCmdline`: `Usages <- MCReplaces`, `Replacements <- LongerFails` | `KeyPressEnds` (PROPERTY) | `cmdline.c:161` | the length of the new command line is used for the restored one: a longer one is read past its end, and executed again and again |
| `Usages <- MCReplaces`, `Replacements <- ShorterFails` | `BackupRestores` | `cmdline.c:161` | the same with a shorter one: the old line is cut short |
| `Usages <- MCReplaces`, `Replacements <- ReplacesAgain` | `NoNestedReplacement` | `cmdline.c:134` | a `}` in a new command line runs into `g_assert(old_cmdline.len == 0)` |
| `Usages <- MCOtherUmlaut`, `Replacements <- OtherUmlaut`, `Conts = {"cont", "cont2"}` | `InSync` | `cmdline.c:130` | the common prefix ends within a character, where execution resumes |
| `Usages <- MCInterrupted` | `InSync` | `cmdline.c:249` | replaying the restored line is interrupted; the rest counts as executed |
| `Usages <- MCRubouts` | `Unity` | `cmdline.c:248` | what a failing key macro inserted after rubbing out keeps its effects |
| `Usages <- MCEditing`, `ReturnMayFail = TRUE` | `Unity` | `core-commands.c:1791` | a `$$` whose arguments fail leaves the parser in another state, which nothing undoes |
| `Usages <- MCReinserts` | `StringStopsAtTerminator` | `cmdline.c:651` | reinsertion of a string goes on behind its terminator into the next string |
| `ExpressionTrees`: as it is | `LevelIsNesting` | `expressions.c:308` | after `(1+)` the nesting level and the braces on the stack differ |
| `Cases <- MCPowers` | `ComputesTheValue` | `expressions.c:231` | `-1^*-2` and `-2^*0` are -1: with exponents of zero or less the sign of the base stays, odd or even |
| `Cases <- MCPlain`, `Zeros <- MCOneZero` | `ComputesTheValue` | `expressions.c:138` | `-02` is 2: the sign is used up by the first digit, zero |
| `MaxOps = 6` | `OperatorsAreCalculated` | `expressions.c:280` | `1+(2,3,4)=` reaches `g_assert_not_reached()` (doc/sciteco.7.template:1078) |
| `MCPrograms`: as it is | `ErrorNamesLabel` | `goto-commands.c:169` | after a colon-modified goto has parsed to the end, a failing goto names `teco_goto_skip_label`, empty by then, and not its own label |
| `MCSession`: `Macros <- MCReturnInLoop`, `Typed = {"M", "<", ">"}` | `RuboutRestoresLoops` | `parser.c:217` | after a return from a macro's open loop (`<$$`) its undo token indexes beyond the array |
| `Typed = {"<", "1", "(", "+", ";"}`, `MaxLine = 7` | `RuboutRestoresLoops` | `core-commands.c:465` | a `;` that fails closing the braces of its loop (`<(+1(;`) has removed the loop without a token |
| `MCStrings`: `Places = {"argument", "name", "skipped"}`, `Cases <- MCSkipped` | `CompletesToAName` | `parser.h:263` | in an argument that is skipped the Tab key completes an empty string |
| `Places = {"argument", "name", "in a mode"}` | `CompletesToAName` | `cmdline.c:775` | a completion within `^V`, `^W` (upper or lower case) is folded on its way in |
| `Places = {"argument", "name", "before the terminator"}` | `CompletesToAName` | `cmdline.c:775` | between `@` and the terminator the first character of a completion becomes the terminator |
| `Places = {"argument", "name", "name in the popup"}` | `CompletesToAName` | `cmdline.c:775` | a click on the name of a register in the popup inserts it unescaped |
| `Files <- MCCarets` | `CompletesToAName` | `doc/sciteco.7.template:831` | carets in file names, which string building reads as control characters, are not escaped |
| `Files <- MCBracketDirs`, `Cases <- MCGlobs` | `CompletesToAName` | `glob.c:46` | the directory of a glob pattern is taken literally, but completed with its brackets escaped |
| `Cases <- MCLocalNames`, `MaxKeys = 8` | `KeepsWhatWasTyped` | `qreg.c:1613` | a machine that is used for the next name is reset without a token |
| `MCRegisters`: `Cases = {"pop into edited"}` | `EditedIsShown` | `qreg.c:269` | popping into the register that is edited leaves the old document in the view |
| `Cases = {"pop into local"}` | `RuboutRestores` (PROPERTY) | `qreg.c:277` | the exchange is undone for local registers, which are gone |
| `Cases = {"failing load into local"}` | `EditedIsShown` | `qreg.c:330` | when loading fails, the view is not given back |
| as it is | `RuboutRestoresDots` (PROPERTY) | `doc.c:161` | the dot that a token restores is that of the view, which may show another document (also qreg.c:113, 191) |
| as it is | `RuboutUnloads` (PROPERTY) | `qreg.c:338` | a file is loaded into the document the register has already: rubout brings back that document, with the file in it |
| as it is | `MacroFailsRightly` (PROPERTY) | `qreg.h:222` | `teco_qreg_table_current` still is the table of an earlier macro when a buffer is edited; a macro whose table lies at the same address fails (qreg-commands.c:690) |
| `Cases = {"save external"}` | `RuboutRestores` (PROPERTY) | `qreg.c:602` | saving an external register pushes a token that undoes the last change of whatever document the view shows by then |
| `Macros = {"M", "EI"}` | `EditedIsShown` | `qreg-commands.c:742` | `EI` frees the local registers while one of them is edited |
| as it is | `PopIsAtomic` (PROPERTY) | `qreg.c:1263` | a pop that the register refuses has set its number already |
| `Capacity = 1` | `ReferencesAreHeld` | `qreg.c:1268` | tokens keep pointers into an array that has moved |
| `MCRing`: `Cases = {"failing hook"}` | `RingIsRing` | `ring.c:359` | when the EDIT hook of the next buffer fails, the closed one is never reinserted |
| `Cases = {"failing hook"}` | `RingIsRestored` (PROPERTY) | `ring.c:359` | the same |
| `Cases = {"close in hook"}` | `RingIsRing` | `ring.c:163` | a hook closes the neighbour the closed buffer is to be reinserted at |
| `Cases = {"close in hook"}` | `RingIsRestored` (PROPERTY) | `ring.c:163` | the same |
| `Cases = {"register in hook"}` | `RingIsRing` | `ring.c:361` | a hook edits a register while a buffer is being closed |
| `Cases = {"close behind register"}` | `RingIsRing` | `ring.c:361` | the current buffer is closed while a register is edited |
| `Cases = {"leave register"}` | `RingIsRing` | `ring.h:111` | leaving a register saves the register, but not the buffer behind it |
| `Cases = {"interrupted read"}` | `CleanMeansSaved` | `ring.c:626` | an interrupted load leaves half of the file in a clean buffer |
| `Cases = {"interrupted read"}` | `RingIsRestored` (PROPERTY) | `ring.c:626` | the same, without a token |
| `Cases = {"file of another buffer"}` | `CleanMeansSaved` | `ring.c:466` | saving a buffer into the file of another one leaves that clean |
| `Cases = {"no save point"}` | `OriginalSurvives` | `view.c:470` | if the save point cannot be made, the file is overwritten all the same |
| `Cases = {"save after crash"}` | `OriginalSurvives` | `view.c:403` | a save point left by a crash is overwritten by a new one of the same name |
| `Cases = {"lost write"}` | `CleanMeansSaved` | `view.c:567` | what is lost when the file is closed is not noticed |
| `MCSpawn`: `SplitCRLF = TRUE` | `FilterReplacesRange` | `spawn.c:782` | a piece of length zero (only the CR of a CRLF) ends the output |
| `Text <- MCReturnText` | `InputIsRange` | `eol.c:398` | a CR in front of a translated line end |
| as it is | `NeverWaitsInVain` | `spawn.c:747` | flushing the channel blocks in the event loop while the process waits for its output to be read |
| `MaxCommands = 2`, `Arguments <- MCWrong` | `FilterReplacesRange` | `spawn.c:261` | a refused `:EGq` leaves its register for the next `EC` |
| `MCSearch`: as it is | `LastRangeIsTheReplacement` | `search.c:1282` | `^Y` after a default replacement is the range of the match, not that of the insertion (core-commands.c:1466) |
| as it is | `LastRangeIsBehindTheKill` | `search.c:1116` | `FK` adjusts the ranges without a token: rubbed out and typed again, it adjusts them twice |
| as it is | `RuboutRestoresRanges` (PROPERTY) | `search.c:1116` | the same |
| as it is | `RuboutRestoresAllDots` (PROPERTY) | `search.c:699` | searching moves the dots of other buffers than the one a rubout comes back to |
| `Words <- MCAlternatives`, `MaxArgument = 5`, `MaxKeys = 6`, `Commands <- MCAll` | `SearchFindsTheNth` | `search.c:745` | an alternative that is not complete yet returns early; the complete one then finds another match than if it had been typed at once |
| `Words <- MCIncomplete`, `MaxArgument = 5`, `Commands <- MCAll` | `SearchFindsTheNth` | `search.c:738` | the same for other incomplete patterns |
| `Commands <- MCBackwardKills` | `RuboutRestores` (PROPERTY) | `search.c:1125` | a backward `FK` that deletes nothing undoes another action |
| `Commands <- MCBackwardKills` | `EditsWhatItFound` | `search.c:1125` | a backward `FK` deletes what is in front of the match |
| `Commands <- MCStraddles` | `RuboutRestores` (PROPERTY) | `search.c:1125` | the same for a range that begins behind the match |
| `Words <- MCEmpties` | `RuboutRestores` (PROPERTY) | `search.c:1176` | deleting an empty match pushes a token without an action |
| `FailingConversions = TRUE`, `Commands <- MCEncodings`, `MaxRubouts = 3`, `MaxCommands = 3` | `PositionsAgree` | `core-commands.c:2519` | tokens of a conversion that fails afterwards release the character index |
| `Commands <- MCEmptying`, `Beginnings <- MCNothing`, `MaxCommands = 3` | `RuboutRestores` (PROPERTY) | `core-commands.c:2573` | the conversion of an empty document is no action, but its token undoes one |
| `MCProgram`: `Scenarios <- MCPadSignals` | `KeysAreHandled` | `interface-curses/interface.c:2025` | keys typed ahead are looked through for `^C`: they swap places with the one being waited for, and an interruption ends the wrong key |
| `Scenarios <- MCPadDelays` | `Responsive` (PROPERTY) | `core-commands.c:1629` | `^W` waits without looking at keys |
| `Scenarios <- MCGtkAsks` | `TakenInOrder` | `interface-gtk/interface.c:473` | `^T` takes keys that were typed behind those waiting for the event loop |
| `Scenarios <- MCGtkAsks` | `AskingIsQuiet` (PROPERTY) | `memory.c:288` | memory is measured while `^T` waits |
| `Scenarios <- MCGtkCommits` | `EndsOnce` | `interface-gtk/interface.c:1001` | characters behind the one that ends the program are still executed |
| `Scenarios <- MCFake` | `EndsOnce` | `main.c:602` | a fake command line that ends the program goes on to the event loop's end |
| `Scenarios <- MCHook` | `EndsOnce` | `main.c:625` (also 535, 575) | a QUIT hook that ends the program itself counts as an error |
| `Scenarios <- MCHogs` | `RejectedForItsMemory` (PROPERTY) | `memory.c:606` | a key is rejected for the memory the key before it used |
| `Scenarios <- MCFunctions` | `AnswersAreCharacters` | `interface-curses/interface.c:975` | `^T` returns the code of a function key |
| `Scenarios <- MCGtkRubs` | `Responsive` (PROPERTY) | `memory.c:692` | a limit that is rubbed out does not switch the thread |
| `Scenarios <- MCGarbage`, `Utf8 = FALSE` | `KeysAreHandled` | `interface-curses/interface.c:2197` | an invalid byte takes the following keys with it |
| `Scenarios <- MCTorn` | `KeysAreHandled` | `interface-curses/interface.c:2197` | a `^C` between the bytes of a character makes the rest of it invalid, and what was typed between them is lost |
| `Scenarios <- MCTornByAsking` | `KeysAreHandled` | `interface-curses/interface.c:975` | `:^T` answers with the first byte of a character, the others are invalid (`^T` collects them all) |
| `MCLexer`: `Scenarios <- MCMacros` | `StylesAreFresh` | `lexer.c:150` | the inner lexer of a macro in braces begins in the middle of it |
| `Scenarios <- MCBangs` | `StylesAreFresh` | `lexer.c:96` | a hash-bang line appears or disappears above what is styled |
| `Scenarios <- MCBytes` | `StylesAreFresh` | `lexer.c:117` | an invalid byte at the beginning of a line leaves the line with the fold level of before |
| `Scenarios <- MCSkips` | `LexingIsPassive` | `goto-commands.c:58` | the lexer defines the label that the interpreter looks for, and ends its search |

Others that a property does not show, or that are outside of a model: a goto keeps its place
to continue from when a macro in between fails (`parser.c:288`); `0S` succeeds if there is no match
(`search.c:596`); `N` with a range of buffers takes its positions from the current one
(`search.c:1006`); `EC` fails when a process exits with success before it has read all of its input, and
`EGq` without output keeps the register as it was (`spawn.c`); the lexer asks for a range of `gap` bytes from
`start` on, not of the `gap-start` it needs, and so moves the gap whenever it restyles around it (`lexer.c:254`); a signal while nothing runs is forgotten,
as documented; in batch mode there are no save points, and hooks may call themselves; the
glob patterns `[]` and `[!]` reach `g_assert()` (`glob.c:297`); deleting the last character of a
document leaves styles, because nothing is styled behind it; the label variable is shared between the
lexer and the interpreter (`goto-commands.c:45`).  The prefix sign and the colon typed before `$$`
(`-$$`, `:F>`) reach the next command line, because the machine is not reset (`cmdline.c:296`, a FIXME in
the code).

## 4. Proofs

`UndoProofs` proves for every set of variables, values and addresses, every length of
the line and the array, and every number of tokens:

* `TypeCorrect`; `RuboutIsExact` (`RuboutRestores`); `NoIndexOutOfRange`; `PushAssertion`, the
  assertion of `teco_undo_push_size()`; `NoAliasing` (`OneOwner`); `Accounting` (`NoLeak`);
  `ClearKeepsView`.

They follow from one inductive invariant, `IInv`, by `Invariance`.  `RuboutRestores`
speaks of the end of a rubout, several steps after tokens were pushed in between
any other commands, so it is not inductive.  The strengthening says of every token
that executing it in the view in which the next later token was pushed (or the current
one) leads to the view it was pushed in; of every list, that its first token was pushed
in the view at the character's start; and that owners and live heap objects
correspond one to one.  `PushStep` and `OwnersKept` are what all commands have
in common; every kind of command and every step of the pop has a lemma of its own.
`SequenceLemmas` has what inserting and removing elements do to a sequence, and that they
undo each other.

`RingProofs` proves what closing a buffer and rubbing that out rely on, for lists of any
length over any set of addresses: `ReinsertionRestores` says that an entry, reinserted
before the entry its own stale pointer names, or at the end if that is null, gives the list back that
it was removed from - the very list of pointers - provided the list is again as the removal had
left it.  The lemmas describe `teco_tailq_insert_tail()`, `teco_tailq_remove()` and
`teco_tailq_insert_before()` by the sequence that a list of pointers stands for; the
argument is that a node's neighbours in the sequence are the nodes its pointers name, and that
no node occurs twice.  The proviso is what an undo stack gives - everything later is undone
first - and what `"close in hook"` above breaks.

`RingProofs` also proves `OriginalSurvives` of the run `ring` (`OriginalSurvivesProof`), for every set of
buffers, files and texts, any depth of hooks and any number of commands: until the command line is accepted,
what a file was before the first save is in the file or in a save point, whatever fails, is
interrupted or rubbed out, and also if the program crashes at any point of saving.  The hypothesis
`SavesCarefully` is that the cases `"no save point"` and `"save after crash"` do not happen; both are in the table above,
because the code overwrites the file, or the save point, if they do.

The property is not inductive: rubout runs tokens that rename save points back and remove files, and
whether the original is still there afterwards depends on the order of all of them.  The invariant (`Inv`) is that a
file without tokens is untouched, and that otherwise the first of its tokens brings its original
back - it names the save point that has it, or removes a file that had not been there (`FilesKept`).
The later tokens of the same file may bring back anything, since the first one is run last.
For this, save points must not be mistaken for each other: their numbers grow along the stack (`NumbersGrow`), which is
what the decrement of `savepoint_id` in a token relies on.  A function that is about to open or write
a file has already pushed the token for it (`FrameOK`); after a crash there are no tokens, and only save points count.
`RubbedKeeps` carries this through a rubout of any length, one token at a time, and `PlainKeeps`
shows that nothing else in the ring touches files.  `RunTokens` and `DropTokens` are
folds, whose definition chooses a recursive function: `RollsExist` constructs one by induction over
the number of tokens, so that `FoldRuns` and `FoldDrops` may say what the fold computes.

`RingOrderProofs` proves `RingIsRing` of the same run (`RingIsRingProof`), on `ReinsertionRestores`, for every set of
addresses, files and texts, any depth of hooks and any number of commands, with and without undo: no step of `EB`,
`EF`, `EW` or `ER`, no hook, error, crash or rubout uses a buffer that has been freed, leaks one, or loses the
buffer that is edited.  The hypothesis `RingCareful` is that `"failing hook"`, `"close in hook"`, `"register in hook"`,
`"close behind register"` and `"leave register"` do not happen: five rows of `MCRing` in the table above.
`RuboutShowsAgainProof` is an action property from the same invariant: a rubout shows the same buffers in the
same order again, with the same one edited, that the user saw before the command.

What makes it hard is that neither of them can be said of the present state: a closed buffer is in no list,
only a token knows it, and its stale pointer is meaningless until everything after it has been undone.  The
invariant (`RInv`) therefore says that there is a way back.  `HasTrail`: for every token there is what the ring
looked like before it was pushed, and each token leads from one look to the one before it (`LeadsBack`): one that reinserts
a buffer finds, in the pointer that the buffer has kept, its neighbour in that older ring, because no link
of a buffer outside of the ring changes meanwhile (`SameTrail`).  `Stops`: at each command that can be rubbed out,
the look is the one the user saw.  `RightLook`: the buffers that are allocated are those of the ring and those kept by tokens.  While a buffer
is being closed it is in no list and has no token either; `IsClosing` says that it knows its place all the same, and
`Fit` which functions may be on their way then (`FrameFit`: no second buffer is closed inside of a hook).
`TokenLeadsBack` runs one token, `RubbedLooks` any number of them by induction; at the end of the command line the
tokens are dropped, and `DroppedRing` says that freeing the buffers kept by them leaves exactly those of the ring.
Each function of `ring.c` then has a lemma on what it does to the ring, and each action one on what it does to the
functions on their way.

`ProgramProofs` proves what the run `program` checks of safety, for any number of keys,
signals and memory units, and for every scenario: every interface, every set of
kinds of keys, every way to start.

* `TypesAndPlaces`: types, and where a key can be.
* `KeysArrive`: `InOrder` and `NoneLost`, if `CharactersArriveWhole`: the bytes of a character
  arrive one after another, and neither `:^T`, which answers with raw bytes (`asksByte`), nor a `^C` that the
  terminal's driver turns into a signal takes one of them out.  `^T` (`asks`) collects a character itself.
* `InterruptionsHit`: `InterruptsOneKey`, if the `FlagIsLowered`: on Curses windows no signal comes, and
  no `^C` answers a macro.  (On terminals and in GTK the code lowers the flag itself.)
* `KeysAreHandledProof`: the two together, `KeysAreHandled`.
* `EndsOnceProof`: `EndsOnce`, if the program `LeavesCleanly`: input methods of GTK do not deliver what
  ends it, and neither do fake keys nor the QUIT hook.

The hypotheses speak of the scenario only, and each of them is there because the
code breaks the property without it: `MCTorn`, `MCTornByAsking`, `MCGarbage`; `MCPadSignals`;
`MCGtkCommits`, `MCFake` and `MCHook` in the table above.

None of these properties is inductive.  `InOrder` compares entries of the history that were
made long ago; the invariant (`Base`, `Order`) adds where each of the keys is that are not taken yet,
that they are sorted along their way - bytes of a character, the hand of `wgetch()`, queue, terminal -
and that all of them are ahead of everything taken.  `NothingLost` follows every key along
the same way.  `Characters` says that the second byte of a character is the very next key, so that nothing
can come in between.  `Interruptions` ties the flag `teco_interrupted` to the macro that is
running: a flag that is up has come since the macro was started.  `Entries`: the one entry that is
`running` belongs to the macro that is executed.  `Ending` and `Errors`: what ends the program has the last
entry, and which errors are possible in which phase.

The proof does not go through the 30 kinds of steps for each of these.  `NextWays` classifies every step
once by what it does to the keys - nothing, one is typed in, read, or taken by the nested
main loop, the running entry ends - and each part of the invariant is then shown for these ways alone.
`SequenceLemmas` has what sorted sequences and their sets of elements have to do with each other; the first
element with a property (`MinLemma`) needs induction over the natural numbers.  `SetInduction` states that
for sets instead of predicates, and derives it from the pigeonhole principle of the library.

`SpawnProofs` proves `RuboutRestores` of the run `processes` (`RuboutRestoresProof`) for every document,
every set of ranges and outputs, every size of the buffer and the pipes, with and without
automatic EOL translation, and for any number of commands: a command that fails, however the callbacks,
the process and interruptions were interleaved, and one that is rubbed out leave the document with
its undo history, dot, dirty flag and ranges, and the register as they were.

The property speaks of the end of a command; what is invariant (`Invariance`) is what the tokens of the
command would restore if it ended now.  `Settled`: between commands the tokens, run in their order,
lead back to what the last command has found.  `Busy`: while a command runs, either the document is
touched - then everything in front of the end of the range is as it was found, so that dot and `SCI_UNDO`
bring back the rest, and the tokens are the one for dot - or the register is, which has a token for its
text as soon as the first output has been stored, and no earlier.  `InText` bounds the range, what has
been sent of it, and says that half a CRLF is only ever written for a line end that is still to
be sent.  Around it stand lemmas on the code's parts: readers and writers of `Eol` stay within their
blocks and deliver texts (`TranslateTypes`, `ConvertTypes`), `RunTokens` computes what the tokens
of a command restore, `EndedOnDocument` and `EndedOnRegister` that the end of a command is undone by its
own tokens; then each callback has its lemma.

`InputIsRangeProof` is about the bytes themselves: for every text, cut at any place by the gap of the
document, the buffer of the channel and the room in the pipe, what the process reads is a prefix of the range with its
line ends encoded, and the whole of it when it finds the end of its input.  The hypothesis is
`Clean(Text)`: with automatic translation the document has no CR to begin with, as one that was
read from a file has none; `Text <- MCReturnText` above shows the code needs it, since the writer takes
an LF behind a CR for the second half of a line end that it has written already.  The strengthening is
`Arrived`: as long as nothing has failed, what has been read, what is in the pipe and what is in the
channel are together the encoding of the range up to `start`, and a CR if a CRLF is half written;
the pipe is closed only behind the whole range, and the loop is quit only when the process is dead.
`Clean` is invariant because the output is translated too (`CleanPiece`).  Its core is
`ConvertSends`, a statement on `teco_eol_writer_convert()` alone: by induction over the characters
it has looked at, whatever the room is, what it adds continues an encoding of the text.  It rests on
`EncodedNext`: without CRs a text is encoded character by character.

`CmdlineProofs` proves all safety properties of the run `cmdline` but one, for every alphabet, every
length of the line and every set of key presses and replacements that is `WellUsed`: `TypesOfCmdline`, `EditorInSync` (`InSync`),
`KeyPressIsUnity` (`Unity`), `BackupIsRestored` (`BackupRestores`), and that `Cmdline` implements
`CmdlineSpec` (`CmdlineIsEditableLine`).  `WellUsed` has three parts, each for
rows of the table above.  `PressesAreSimple`: a key press is one key, or a macro of keys that insert
(`MCRubouts` rubs out within a macro), and a `}` that replaces the line is pressed alone.  `ReplacementsAreSafe`: replaying the old line is not interrupted
(`MCInterrupted`); the new line differs from the old one at the beginning of a character
(`OtherUmlaut`), has no `}` of its own (`ReplacesAgain`), and if it can fail it is as long as the old one
(`ShorterFails`, `LongerFails`).  `~ReturnMayFail`: the arguments of `$$` can be evaluated.

The invariant, `CmdInv`, says where the undo stack leads at every moment: running the tokens down to
offset i gives the editor that the first i characters make, for every i at which a character begins.  An
offset within a character has no list of its own, and rubout never stops there because it goes by
characters (`Places`).  Three phases, `Inserting`, `Replacing` and `Handling`, say what the program
counters, the old line and the loop of the editing key have to do with that; `Rejection` and `Brace` what the
error handler and `}` find.  TLC has checked `CmdInv` on the instance of the run.
That the editor after a line is the fold of its characters (`ExecOkStep`) is by induction over the line; the steps of
`teco_cmdline_insert()`, of the rejection and of each editing key have a lemma each, and the
refinement follows from the invariant before and after a step (`NextImplements`).

`SessionProofs` is about the loop stack at the command line, for every set of commands and macros, any
depth of calls, lines of any length and any number of tokens.  `CallersLoopsAreSafeProof` is
`CallersLoopsAreSafe`.  It rests on `SessionInv`: the loops below `loop_stack_fp` of a
frame are at most as many as there are, and grow with the depth of the call, so that no step, whichever frame is
on top, reaches below that of its caller; rubout, which brings back the frames of a time when only the
command line ran, cannot break that.

`RuboutRestoresLoopsProof` is `RuboutRestoresLoops` for behaviours in which no macro returns from within
an open loop and no `;` fails closing the braces of its loop (`LoopsAreLeft`, the two rows of `MCSession` above).
What makes it hard is that loops of a macro are counted down without a token, so that in the
middle of a macro the tokens do not lead to anything that has been before.  The invariant
(`RestoringInv`) splits the tokens in two: those of commands that are complete lead
from a loop stack to the one before it, each about the entry on top (`Trail`); those of
a macro that runs lead from *every* loop stack of the present height with the
same loops of the command line to the one the macro was called with (`InMacro`).  When it returns to the command line, both are
joined (`JoinedTrails`).  `StepKinds` classifies the 24 kinds of steps by what they do to loops and tokens -
nothing, enter, leave, count, call, end - and the rest of the proof only speaks of these.

The only assumptions are `AddressesAssumption`, `InitialRingsAssumption`, `UndoAssumption`, `CmdlineAssumption`, `InterpAssumption`, `SessionAssumption`, `TailqAssumption`, `InitStatesAssumption`, `SpawnAssumption`, `AutoEolAssumption`, `LimiterAssumption`,
`EventLoopAssumption` and `ScenariosAssumption` (the types of scenarios; GTK delivers whole characters): bounds are natural numbers;
a command line exists in interactive mode only; the bytes that begin characters, those that continue
them and `^U` differ; the
null pointer, the content of free memory and "no pop in progress" differ from values, addresses and
lengths; the head of a list, its entries and the null pointer differ; an editor that has been started has no tokens
and no save points, and its ring is a list of the buffers that are allocated, one of which is edited and
shown; memory is finite, and what stands for a register (or another buffer) instead of a buffer is no address; texts are sequences and the arguments of `EC`
are of the three kinds there are.

Only model-checked: all liveness properties (fairness and ENABLED are beyond the
prover used); what programs and expressions compute (`ExpressionTrees`, `Programs`),
`StringBuilding`, `Patterns`, `Search` and `Lexer`, which are recursive operators or rest on
them; of the command line, `WordIsOneCommand`, which compares with a reading of the whole line; registers; of the ring, its dirty flags, and that rubout restores names, texts and files with the order; of the processes,
what arrives in the document (`FilterReplacesRange`), which compares the pieces that are read with a
definition on the whole output.

## 5. Plan

1. Done: undo and lists with their proofs; command line; expressions; interpreter, gotos, session;
   strings and completion; registers and documents; ring, files and save points; search, movement and
   encodings; processes and line ends; interfaces, memory limit and the main program; lexer.
2. Proofs.  Done: `Undo`, `Tailq`, the files and the order of `Ring`, `EventLoop`, `Program`, rubout and input of `Spawn`,
   `Cmdline` with its refinement, the loop stack of `Session`.  Next, in this order: the
   refinement of `RingSpec`, on `RuboutShowsAgain`; `ReferencesAreHeld` of `Registers`; the goto refinement.
3. Integer width and radix in `Expressions`; the special registers for radix and the environment.

A new module is checked by one run of its own; modules that are alike share one through
a module that composes them.

## 6. Not modelled, and why

* Drawing, the display of the command line, colors, mouse and clipboard, and I/O of terminals: no
  state the rest depends on.
* Formatting and radix of numbers, `=`, `^A`, the views' configuration (`ES`, `EJ`, `ED` flags): plain data
  handling.  The static `is_executing` of `=` is not undone by rubout either.
* A terminal that `newterm()` does not know: the process exits at once
  (`interface-curses/interface.c:603`), without the hook and whatever else `main()` does at its end.
* The `EDIT` hook at the end of a search through several buffers.
* Overflow of machine integers: numbers in the models are small and do not wrap.
* Modifiers and reinsertion of strings in `Arguments` (they are in `Cmdline`); options and
  directories of the program; walking directories and the index of help topics; stack frames of errors.
* The special registers for radix and the environment; names of local registers as such are in
  `StringBuilding`.
* The text component (Scintilla), GLib, GTK and Curses: only what the code relies on appears, as
  definitions marked external.
* Vendored code (`contrib/`), and the library of macros (`lib/`), which is written in SciTECO itself.
