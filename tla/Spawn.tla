------------------------------- MODULE Spawn --------------------------------
(***************************************************************************)
(* Piping a document through a process (spawn.c).  EC replaces a range of  *)
(* the document by what a process makes of it, EGq stores that in a        *)
(* register.  While the process runs, SciTECO runs an event loop with a    *)
(* callback for each of: room in the standard input of the process, output *)
(* to be read, the exit of the process, and an idle time in which          *)
(* interruptions are looked for.  The process is any program that reads    *)
(* bytes, writes bytes and exits, and only stops reading when it exits.    *)
(***************************************************************************)
EXTENDS Eol, FiniteSets

CONSTANTS
  Text,        \* the document in the beginning
  EolMode,     \* the line ends of the document in its file
  Arguments,   \* the arguments of the commands: see PipedRange
  Chunks,      \* the sequences of bytes that a process writes at once
  MaxOutput,   \* bound on the bytes that a process writes
  SplitCRLF,   \* whether a block may end between CR and LF
  BufferSize,  \* of the channel to the process
  PipeSize,    \* of its standard input
  OutputSize,  \* of its standard output
  MemoryLimit, \* the output that exceeds the limit on memory
  MaxCommands  \* bound on the number of commands

ASSUME SpawnAssumption ==
  /\ EolMode \in EolStyles /\ SplitCRLF \in BOOLEAN
  /\ {MaxOutput, BufferSize, PipeSize, OutputSize, MemoryLimit, MaxCommands} \subseteq Nat
  /\ Text \in Seq(ToSet(Text)) /\ \A bytes \in Chunks : bytes \in Seq(ToSet(bytes))
  /\ \A a \in Arguments : \/ a.kind = "none"
                          \/ a.kind = "lines" /\ a.n \in Int
                          \/ a.kind = "chars" /\ a.from \in Int /\ a.to \in Int

VARIABLES
  doc,         \* the document: text, dot, the texts that SCI_UNDO restores,
               \* whether it is dirty, and teco_ranges
  reg,         \* the register: text and line ends
  spawn,       \* teco_spawn_ctx
  loop,        \* "idle", "running", or what a callback is doing: "flushing",
               \* "reading", or "reaping"
  process,     \* what the process has read and written, and its status
  pipes,       \* the bytes on their way
  interrupted, \* teco_interrupted
  tokens,      \* undo tokens of the command, the latest one last
  result,      \* what became of the last command
  before,      \* ghost: document and register before the last command
  count        \* the number of commands

vars == <<doc, reg, spawn, loop, process, pipes, interrupted, tokens, result, before, count>>

NoProcess == [status |-> "none", read |-> <<>>, written |-> <<>>, eof |-> FALSE]
NoBytes == [buffer |-> <<>>, in |-> <<>>, out |-> <<>>, open |-> FALSE, watched |-> FALSE]

Running == loop # "idle"
Replace(text, from, to, new) == SubSeq(text, 1, from) \o new \o SubSeq(text, to + 1, Len(text))
Selected == SubSeq(doc.text, spawn.from + 1, spawn.to)

-----------------------------------------------------------------------------
(* The beginning of a command.                                             *)

(* Where the lines start, and the number of the line of a position.        *)
LineStarts == {0} \cup {i \in DOMAIN doc.text : doc.text[i] = "LF"}
LineOf(p) == Cardinality({q \in LineStarts : q <= p})
LinesAway(n) == {p \in LineStarts : LineOf(p) = LineOf(doc.dot) + n}

(* The range that is piped: nothing, a number of lines from dot, or from   *)
(* one position up to another one.                                         *)
PipedRange(a) ==
  CASE a.kind = "none" -> <<doc.dot, doc.dot>>
    [] a.kind = "lines" ->
         LET p == CHOOSE p \in LinesAway(a.n) : TRUE IN
         IF p < doc.dot THEN <<p, doc.dot>> ELSE <<doc.dot, p>>
    [] a.kind = "chars" -> <<a.from, a.to>>
InRange(a) ==
  CASE a.kind = "none" -> TRUE
    [] a.kind = "lines" -> LinesAway(a.n) # {}
    [] a.kind = "chars" -> a.from <= a.to /\ {a.from, a.to} \subseteq 0..Len(doc.text)

Token(kind, value) == [kind |-> kind, value |-> value]

(* Everything that the tokens of the command restore.                      *)
RunToken(s, t) ==
  CASE t.kind = "SCI_UNDO" -> [s EXCEPT !.doc.text = Last(s.doc.undo), !.doc.undo = Front(@),
                                        !.doc.dot = Len(Last(s.doc.undo))]
    [] t.kind = "SCI_GOTOPOS" -> [s EXCEPT !.doc.dot = t.value]
    [] t.kind = "register" -> [s EXCEPT !.reg.text = t.value]
    [] t.kind = "eol mode" -> [s EXCEPT !.reg.eol = t.value]
    [] t.kind = "dirty" -> [s EXCEPT !.doc.dirty = t.value]
    [] t.kind = "ranges" -> [s EXCEPT !.doc.ranges = t.value]
    [] t.kind = "argument" -> [s EXCEPT !.spawn.argument = t.value]
Undone(s, ts) ==
  LET left[n \in 0..Len(ts)] == IF n = Len(ts) THEN s ELSE RunToken(left[n + 1], ts[n + 1])
  IN  left[0]
Now == [doc |-> doc, reg |-> reg, spawn |-> spawn]

(* The command fails, and all it has done is undone; or it ends, which can *)
(* be rubbed out.                                                          *)
Fail(s, ts) == \E u \in {Undone(s, ts)} :
  /\ doc' = u.doc /\ reg' = u.reg /\ spawn' = u.spawn
  /\ tokens' = <<>> /\ result' = [kind |-> "error", value |-> 0]
End(s, ts, r) ==
  /\ doc' = s.doc /\ reg' = s.reg
  /\ tokens' = Append(ts, Token("argument", s.spawn.argument))
  /\ spawn' = [s.spawn EXCEPT !.argument = "none"]
  /\ result' = r
Failure(value) == [kind |-> "failure", value |-> value]
Success == [kind |-> "success", value |-> -1]

(* EGq names the register for the command EC that it turns into.           *)
Named(target) == IF target = "none" THEN spawn ELSE [spawn EXCEPT !.argument = target]
Naming(target) == IF target = "none" THEN <<>> ELSE <<Token("argument", spawn.argument)>>

Ready == ~Running /\ count < MaxCommands
Remember(target) == before' = [doc |-> doc, reg |-> reg, target |-> target] /\ count' = count + 1

(* An invalid range: the colon makes it a value, but the command string    *)
(* that follows is not executed any more.                                  *)
Refuse(target, colon, a) ==
  /\ Ready /\ ~InRange(a) /\ Remember(target)
  /\ IF colon
     THEN /\ spawn' = [Named(target) EXCEPT !.from = -1, !.to = -1]
          /\ tokens' = Naming(target) /\ result' = Failure(0)
          /\ UNCHANGED <<doc, reg>>
     ELSE Fail([Now EXCEPT !.spawn = Named(target)], Naming(target))
  /\ UNCHANGED <<loop, process, pipes, interrupted>>

(* The process cannot be started.                                          *)
CannotStart(target, colon, a) ==
  LET s == [Now EXCEPT !.spawn = [Named(target) EXCEPT !.from = PipedRange(a)[1], !.to = PipedRange(a)[2],
                                                       !.added = FALSE, !.rc = 0]] IN
  /\ Ready /\ InRange(a) /\ Remember(target)
  /\ IF colon THEN End(s, Naming(target), Failure(0)) ELSE Fail(s, Naming(target))
  /\ UNCHANGED <<loop, process, pipes, interrupted>>

Start(target, a) ==
  LET r == PipedRange(a)
      s == [Named(target) EXCEPT !.from = r[1], !.to = r[2], !.start = r[1], !.added = FALSE, !.rc = 0,
              !.interrupted = FALSE, !.error = "none",
              !.quit = FALSE, !.turn = {"stdin", "stdout"},
              !.writer = NewWriter(EolMode), !.reader = NewReader]
  IN
  /\ Ready /\ InRange(a) /\ Remember(target)
  /\ spawn' = s /\ loop' = "running"
  /\ process' = [NoProcess EXCEPT !.status = "running"]
  /\ pipes' = [NoBytes EXCEPT !.open = TRUE, !.watched = TRUE]
  /\ IF s.argument = "none"
     THEN /\ doc' = [doc EXCEPT !.dot = r[2]]
          /\ tokens' = Append(Naming(target), Token("SCI_GOTOPOS", doc.dot))
     ELSE UNCHANGED doc /\ tokens' = Naming(target)
  /\ result' = [kind |-> "none", value |-> 0]
  /\ UNCHANGED <<reg, interrupted>>

Execute == \E target \in {"none", "q"}, a \in Arguments :
  \/ \E colon \in BOOLEAN : Refuse(target, colon, a) \/ CannotStart(target, colon, a)
  \/ Start(target, a)

-----------------------------------------------------------------------------
(* The process.                                                            *)

Alive == process.status = "running"
unchangedEditor == UNCHANGED <<doc, reg, spawn, loop, interrupted, tokens, result, before, count>>

ProcessReads ==
  /\ Alive /\ unchangedEditor
  /\ \/ /\ pipes.in # <<>>
        /\ process' = [process EXCEPT !.read = Append(@, Head(pipes.in))]
        /\ pipes' = [pipes EXCEPT !.in = Tail(@)]
     \/ /\ pipes.in = <<>> /\ ~pipes.open /\ ~process.eof
        /\ process' = [process EXCEPT !.eof = TRUE]
        /\ UNCHANGED pipes
ProcessWrites == \E bytes \in Chunks :
  /\ Alive /\ unchangedEditor
  /\ Len(process.written \o bytes) <= MaxOutput /\ Len(pipes.out \o bytes) <= OutputSize
  /\ process' = [process EXCEPT !.written = @ \o bytes]
  /\ pipes' = [pipes EXCEPT !.out = @ \o bytes]
ProcessExits == \E code \in {0, 1} :
  /\ Alive /\ unchangedEditor
  /\ process' = [process EXCEPT !.status = IF code = 0 THEN "exited" ELSE "failed"]
  /\ UNCHANGED pipes

Dead == process.status \in {"exited", "failed", "killed"}
unchangedCommand == UNCHANGED <<tokens, result, before, count>>

(* A callback may be called in the event loop, and once more in the turn   *)
(* in which that has been quit; it does nothing when there is an error.    *)
MayCall(source) == loop = "running" /\ spawn.error = "none" /\ source \in spawn.turn
Called(source) == IF spawn.quit THEN spawn.turn \ {source} ELSE spawn.turn

-----------------------------------------------------------------------------
(* Standard input: the bytes pass through the buffer of the channel, which *)
(* is written to the pipe when it is full, and when the channel is shut    *)
(* down - then SciTECO waits for the process to take them.                 *)

PipeRoom == IF Alive THEN PipeSize - Len(pipes.in) ELSE 0
Room == BufferSize - Len(pipes.buffer) + PipeRoom
Broken == Dead

(* The part of the range up to the gap of the document, if that is inside. *)
Pending(gap) ==
  SubSeq(doc.text, spawn.start + 1, IF spawn.start < gap /\ gap < spawn.to THEN gap ELSE spawn.to)

(* The pipe has been closed by the process: the rest goes nowhere.         *)
StdinClosed ==
  /\ Broken /\ pipes' = [pipes EXCEPT !.open = FALSE, !.buffer = <<>>]
  /\ UNCHANGED <<loop, spawn>>

StdinFailsQuietly(c) ==
  /\ Broken /\ c.stuck
  /\ spawn' = [spawn EXCEPT !.error = "pipe"]
  /\ UNCHANGED <<loop, pipes>>
StdinFails(c) ==
  /\ Broken /\ c.stuck
  /\ spawn' = [spawn EXCEPT !.error = "pipe", !.quit = TRUE]
  /\ UNCHANGED <<loop, pipes>>

StdinTakes(c) ==
  LET bytes == pipes.buffer \o c.out
      s == [spawn EXCEPT !.writer = c.w, !.start = @ + c.taken, !.turn = Called("stdin")] IN
  /\ ~(Broken /\ c.stuck)
  /\ spawn' = s
  /\ \E n \in 0..PipeRoom :
       /\ Len(bytes) - n \in 0..BufferSize
       /\ pipes' = [pipes EXCEPT !.in = @ \o SubSeq(bytes, 1, n), !.buffer = SubSeq(bytes, n + 1, Len(bytes))]
  /\ loop' = IF s.start = s.to THEN "flushing" ELSE loop

StdinReady == pipes.open /\ (Room > 0 \/ Broken)
StdinWatch ==
  /\ MayCall("stdin") /\ StdinReady
  /\ \/ StdinClosed
     \/ \E gap \in 0..Len(doc.text) : \E c \in {Convert(spawn.writer, Pending(gap), Room)} :
          StdinFails(c) \/ StdinTakes(c)
  /\ UNCHANGED <<doc, reg, process, interrupted>> /\ unchangedCommand

(* g_io_channel_shutdown().                                                *)
Flush ==
  /\ pipes.open /\ (loop = "flushing" \/ (loop = "running" /\ spawn.quit))
  /\ \/ /\ pipes.buffer # <<>> /\ PipeRoom > 0
        /\ pipes' = [pipes EXCEPT !.in = Append(@, Head(pipes.buffer)), !.buffer = Tail(@)]
        /\ UNCHANGED loop
     \/ /\ pipes.buffer = <<>> \/ Broken
        /\ pipes' = [pipes EXCEPT !.open = FALSE, !.buffer = <<>>]
        /\ loop' = "running"
  /\ UNCHANGED <<doc, reg, spawn, process, interrupted>> /\ unchangedCommand

-----------------------------------------------------------------------------
(* Standard output.  The callback reads until there is nothing to be had;  *)
(* it is called by the event loop, and by the callback for the exit.       *)

StdoutReady == pipes.watched /\ (pipes.out # <<>> \/ Dead)
StdoutWatch ==
  /\ MayCall("stdout") /\ StdoutReady
  /\ loop' = "reading" /\ spawn' = [spawn EXCEPT !.turn = Called("stdout")]
  /\ UNCHANGED <<doc, reg, process, pipes, interrupted>> /\ unchangedCommand

ExitStatus == CASE process.status = "failed" -> [error |-> "exit", rc |-> 1]
                [] process.status = "killed" -> [error |-> "signal", rc |-> 0]
                [] OTHER -> [error |-> "none", rc |-> spawn.rc]

(* The end of the callback, and of the one that has called it.             *)
Leave(r) ==
  /\ UNCHANGED <<doc, reg, tokens>>
  /\ IF loop = "reaping"
     THEN spawn' = [spawn EXCEPT !.reader = r, !.quit = TRUE,
                                 !.error = ExitStatus.error, !.rc = ExitStatus.rc]
     ELSE spawn' = [spawn EXCEPT !.reader = r]
  /\ loop' = "running"

(* A piece of the output goes to the document or to the register.          *)
Insert(r) ==
  LET piece == Piece(r)
      full == (IF spawn.argument = "none" THEN Len(doc.text) ELSE Len(reg.text)) + Len(piece) > MemoryLimit
  IN
  /\ IF spawn.argument = "none"
     THEN /\ doc' = [doc EXCEPT !.text = Replace(@, doc.dot, doc.dot, piece), !.dot = @ + Len(piece)]
          /\ UNCHANGED <<reg, tokens>>
     ELSE /\ reg' = [reg EXCEPT !.text = IF spawn.added THEN @ \o piece ELSE piece]
          /\ tokens' = IF spawn.added THEN tokens ELSE Append(tokens, Token("register", reg.text))
          /\ UNCHANGED doc
  /\ spawn' = [spawn EXCEPT !.reader = r, !.added = TRUE, !.quit = @ \/ full,
                              !.error = IF full THEN "memory" ELSE @]
  /\ loop' = IF full THEN "running" ELSE loop

(* A piece is returned: an empty one means that there is nothing to read.  *)
Got(r) == \E s \in {Translate(r)} : IF s.piece = 0 THEN Leave(s) ELSE Insert(s)

Torn(n) == n < Len(pipes.out) /\ pipes.out[n] = "CR" /\ pipes.out[n + 1] = "LF"
Read ==
  /\ loop \in {"reading", "reaping"}
  /\ \E r \in {Advance(spawn.reader)} :
       \/ /\ ~NeedsBlock(r) /\ UNCHANGED pipes /\ Got(r)
       \/ /\ NeedsBlock(r) /\ pipes.out # <<>>
          /\ \E n \in DOMAIN pipes.out :
               /\ ~(Torn(n) /\ ~SplitCRLF)
               /\ pipes' = [pipes EXCEPT !.out = SubSeq(@, n + 1, Len(@))]
               /\ Got(Fill(r, SubSeq(pipes.out, 1, n)))
       \/ /\ NeedsBlock(r) /\ pipes.out = <<>> /\ UNCHANGED pipes /\ Got(Fill(r, <<>>))
       \/ /\ NeedsBlock(r) /\ pipes.out = <<>> /\ Dead
          /\ pipes' = [pipes EXCEPT !.watched = FALSE] /\ Leave(AtEOF(r))
  /\ UNCHANGED <<process, interrupted, result, before, count>>

-----------------------------------------------------------------------------
(* The exit of the process, and interruptions.                             *)

ChildWatchHasty ==
  /\ loop = "running" /\ ~spawn.quit /\ Dead /\ spawn.error = "none"
  /\ spawn' = [spawn EXCEPT !.quit = TRUE, !.error = ExitStatus.error, !.rc = ExitStatus.rc]
  /\ UNCHANGED <<doc, reg, loop, process, pipes, interrupted>> /\ unchangedCommand
ChildWatch ==
  /\ loop = "running" /\ ~spawn.quit /\ Dead /\ spawn.error = "none"
  /\ loop' = "reaping"
  /\ UNCHANGED <<doc, reg, spawn, process, pipes, interrupted>> /\ unchangedCommand

Interrupt ==
  /\ loop = "running" /\ interrupted' = TRUE
  /\ UNCHANGED <<doc, reg, spawn, loop, process, pipes>> /\ unchangedCommand

(* Idle is when nothing else is to be done.  The first interruption asks   *)
(* the process to end, the next one kills it.                              *)
Idle ==
  /\ loop = "running" /\ ~spawn.quit /\ ~StdinReady /\ ~StdoutReady /\ ~Dead
  /\ interrupted /\ interrupted' = FALSE
  /\ spawn' = [spawn EXCEPT !.interrupted = TRUE]
  /\ \/ process' = [process EXCEPT !.status = "killed"]
     \/ ~spawn.interrupted /\ UNCHANGED process
  /\ UNCHANGED <<doc, reg, loop, pipes>> /\ unchangedCommand

-----------------------------------------------------------------------------
(* The end of the command.                                                 *)

(* The range is deleted; what has been inserted and deleted is one action  *)
(* for SCI_UNDO, if it is anything.                                        *)
ChangedByOutput == spawn.added
Changed == spawn.from # spawn.to \/ spawn.added
Ended ==
  LET text == Replace(doc.text, spawn.from, spawn.to, <<>>)
      dot == doc.dot - (spawn.to - spawn.from)
      eol == spawn.reader.style IN
  IF spawn.argument = "none"
  THEN [Now EXCEPT !.doc = [text |-> text, dot |-> dot, ranges |-> <<spawn.from, dot>>,
                            undo |-> IF text = before.doc.text /\ ~Changed THEN @.undo
                                     ELSE Append(@.undo, before.doc.text),
                            dirty |-> @.dirty \/ Changed]]
  ELSE [Now EXCEPT !.reg.eol = IF eol = "none" THEN @ ELSE eol]
EndTokens ==
  IF spawn.argument = "none"
  THEN <<Token("ranges", doc.ranges)>> \o
       (IF Changed THEN <<Token("SCI_UNDO", 0), Token("dirty", doc.dirty)>> ELSE <<>>)
  ELSE IF spawn.reader.style = "none" THEN <<>> ELSE <<Token("eol mode", reg.eol)>>

Finish ==
  /\ loop = "running" /\ spawn.quit /\ ~pipes.open
  /\ loop' = "idle"
  /\ \E colon \in BOOLEAN :
       IF spawn.error = "none" THEN End(Ended, tokens \o EndTokens, Success)
       ELSE IF colon THEN End(Ended, tokens \o EndTokens, Failure(spawn.rc))
       ELSE Fail(Ended, tokens \o EndTokens)
  /\ UNCHANGED <<process, pipes, interrupted, before, count>>

(* The command is rubbed out.                                              *)
Rubout ==
  /\ ~Running /\ tokens # <<>>
  /\ Fail(Now, tokens)
  /\ UNCHANGED <<loop, process, pipes, interrupted, before, count>>

(* An interruption that no process has seen stops the next command.        *)
Notice ==
  /\ ~Running /\ interrupted /\ interrupted' = FALSE
  /\ UNCHANGED <<doc, reg, spawn, loop, process, pipes>> /\ unchangedCommand

-----------------------------------------------------------------------------

Init ==
  /\ doc \in {[text |-> Text, dot |-> d, undo |-> <<>>, dirty |-> FALSE, ranges |-> <<0, 0>>]
                : d \in 0..Len(Text)}
  /\ reg = [text |-> <<"r">>, eol |-> "LF"]
  /\ spawn = [from |-> 0, to |-> 0, start |-> 0, added |-> FALSE, interrupted |-> FALSE,
              error |-> "none", rc |-> 0, argument |-> "none",
              quit |-> FALSE, turn |-> {},
              writer |-> NewWriter(EolMode), reader |-> NewReader]
  /\ loop = "idle" /\ process = NoProcess /\ pipes = NoBytes /\ interrupted = FALSE
  /\ tokens = <<>> /\ result = [kind |-> "none", value |-> 0]
  /\ before = [doc |-> doc, reg |-> reg, target |-> "none"] /\ count = 0

Next == \/ Execute \/ ProcessReads \/ ProcessWrites \/ ProcessExits
        \/ StdinWatch \/ Flush \/ StdoutWatch \/ Read \/ ChildWatch \/ Interrupt \/ Idle
        \/ Finish \/ Rubout \/ Notice

(* Every turn of the event loop calls all callbacks of the same priority   *)
(* that have something to do, so that none is passed over for ever; a      *)
(* callback comes to its end.  The process may do as it likes.             *)
Spec == /\ Init /\ [][Next]_vars
        /\ SF_vars(StdinWatch) /\ SF_vars(StdoutWatch) /\ SF_vars(ChildWatch)
        /\ WF_vars(Read) /\ WF_vars(Flush) /\ WF_vars(Finish)

-----------------------------------------------------------------------------
(* Properties.                                                             *)

PipedText == SubSeq(before.doc.text, spawn.from + 1, spawn.to)

(* What arrives at the process is the range, with the line ends of the     *)
(* document's file if these are translated, however little of it the       *)
(* process and its pipe take at a time, and the process sees its end only  *)
(* behind all of it.                                                       *)
InputIsRange ==
  Running /\ spawn.error = "none" =>
    LET sent == process.read \o pipes.in \o pipes.buffer
        all == IF AutoEol THEN Encoded(PipedText, EolMode) ELSE PipedText IN
    /\ Alive => IsPrefix(sent, all)
    /\ process.eof => process.read = all

(* A command that succeeds has replaced the range by the output of a       *)
(* process that exited successfully, all of it, and dot is behind it (EC), *)
(* or has set the register and left the document alone (EG).               *)
FilterReplacesRange ==
  result.kind = "success" =>
    LET out == Normalised(process.written) IN
    /\ process.status = "exited"
    /\ IF before.target = "none"
       THEN /\ doc.text = Replace(before.doc.text, spawn.from, spawn.to, out)
            /\ doc.dot = spawn.from + Len(out)
            /\ reg = before.reg
       ELSE /\ doc = before.doc
            /\ out # <<>> => reg.text = out

(* A command that fails, and one that is rubbed out, leaves the document   *)
(* and the register as they were, wherever it failed.                      *)
RuboutRestores == result.kind = "error" => doc = before.doc /\ reg = before.reg

(* SciTECO never waits for the process to read on while the process cannot *)
(* write on, which it might have to do before it reads.                    *)
NeverWaitsInVain ==
  loop = "flushing" /\ Alive /\ pipes.buffer # <<>> /\ PipeRoom = 0 => Len(pipes.out) < OutputSize

(* When the process has exited, the command comes to its end.              *)
ExitEndsCommand == Dead ~> ~Running
=============================================================================
