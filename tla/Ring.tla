-------------------------------- MODULE Ring --------------------------------
(***************************************************************************)
(* The ring of buffers (ring.c) and their files (view.c): the commands     *)
(* that add, edit, close, change and save buffers, the hooks that run in   *)
(* the middle of them, and what their undo tokens restore: pointers of the *)
(* ring, file names, texts and the files themselves, which are put aside   *)
(* as save points.  The editor may crash at any time.                      *)
(*                                                                         *)
(* An editor is a record:                                                  *)
(*   links    the tail queue; live says which addresses are allocated      *)
(*   name, dirty, text   of each buffer; past is what SCI_UNDO goes back to *)
(*   current  teco_ring_current                                            *)
(*   register TRUE while teco_qreg_current is set                          *)
(*   view     the buffer whose view is shown, or "register"                *)
(*   disk     the contents of files, points those of save points           *)
(*   id       savepoint_id                                                 *)
(*   tokens   undo tokens, the latest one last                             *)
(*   undo     teco_undo_enabled                                            *)
(*   failed   an error is on its way                                       *)
(*   dangling memory has been used that had been freed                     *)
(***************************************************************************)
EXTENDS Tailq, SequencesExt, FiniteSets

CONSTANTS
  Names,         \* names of files
  NoName,        \* of unnamed buffers
  Texts,         \* contents of buffers and files, among them the empty text
  Torn,          \* the content of a file that has not been written completely
  Absent,        \* there is no such file
  MaxCommands,   \* bound on the commands
  MaxDepth,      \* bound on hooks that run in hooks
  MaxCrashes,    \* bound on crashes
  Cases,         \* which of the special cases below may happen
  InitStates     \* rings and disks in the beginning

(* Memory is finite, and what stands for something else is no address.     *)
ASSUME AddressesAssumption == IsFiniteSet(Entries) /\ {"register", "another"} \cap Entries = {}

VARIABLES
  ed,        \* the editor
  calls,     \* the functions that have not returned yet, the innermost one last
  history,   \* ghost: for each command that can be rubbed out, the number of
             \* tokens before it, and what the user saw then
  count,     \* the number of commands so far
  crashes,   \* the number of crashes
  original   \* ghost: the files when the last command line was accepted

vars == <<ed, calls, history, count, crashes, original>>

Order(e) ==
  LET N == Cardinality(Entries)
      walk[n \in 0..N] == IF n = 0 THEN Root
                          ELSE IF walk[n - 1] = Null THEN Null ELSE e.links.next[walk[n - 1]]
      reached == {n \in 1..N : walk[n] # Null} IN
  [n \in 1..Cardinality(reached) |-> walk[n]]
InRing(e) == ToSet(Order(e))

(* What a user can see.                                                    *)
SeenBuffer(e, b) == [name |-> e.name[b], dirty |-> e.dirty[b], text |-> e.text[b]]
Rest(e) == [buffers |-> [i \in DOMAIN Order(e) |-> SeenBuffer(e, Order(e)[i])],
            current |-> e.current, register |-> e.register, view |-> e.view, disk |-> e.disk]

-----------------------------------------------------------------------------
(* Undo tokens.                                                            *)

Push(e, t) == IF e.undo THEN [e EXCEPT !.tokens = Append(@, t)] ELSE e
FreeBuffer(e, b) == [e EXCEPT !.live[b] = FALSE, !.dangling = @ \/ ~e.live[b]]
ShowView(e, v) == [e EXCEPT !.view = v, !.dangling = @ \/ (v # "register" /\ ~e.live[v])]
RemoveBuffer(e, b) == [e EXCEPT !.links = RemoveEntry(@, b)]

UndoShow(e) ==
  Push(Push(Push(e, [kind |-> "register", old |-> e.register]),
            [kind |-> "current", old |-> e.current]), [kind |-> "show", buffer |-> e.current])
UndoEdit(e) ==
  IF e.register
  THEN Push(Push(e, [kind |-> "register", old |-> TRUE]), [kind |-> "show", buffer |-> "register"])
  ELSE UndoShow(e)
UndoReinsert(e, b) ==
  IF e.undo THEN Push(e, [kind |-> "reinsert", buffer |-> b]) ELSE FreeBuffer(e, b)

SciUndo(e) ==
  CASE e.view = "register" -> [e EXCEPT !.dangling = TRUE]
    [] e.view # "register" /\ e.past[e.view] # <<>> ->
         [e EXCEPT !.text[e.view] = Last(e.past[e.view]), !.past[e.view] = Front(@)]
    [] OTHER -> e

(* A save point is renamed to what it has been, unless it has gone.        *)
PointsOf(e, t) == {p \in e.points : p.id = t.id /\ p.name = t.name}
RestorePoint(e, t) ==
  [e EXCEPT !.disk[t.name] = IF PointsOf(e, t) = {} THEN @ ELSE (CHOOSE p \in PointsOf(e, t) : TRUE).text,
            !.points = @ \ PointsOf(e, t), !.id = @ - 1]
DropPoint(e, t) == [e EXCEPT !.points = @ \ PointsOf(e, t), !.id = @ - 1]

RunToken(e, t) ==
  CASE t.kind = "register" -> [e EXCEPT !.register = t.old]
    [] t.kind = "current" -> [e EXCEPT !.current = t.old]
    [] t.kind = "show" -> ShowView(e, t.buffer)
    [] t.kind = "free" -> FreeBuffer(e, t.buffer)
    [] t.kind = "remove" -> RemoveBuffer(e, t.buffer)
    [] t.kind = "reinsert" -> [e EXCEPT !.links = Reinsert(@, t.buffer)]
    [] t.kind = "dirty" -> [e EXCEPT !.dirty[t.buffer] = t.old]
    [] t.kind = "name" -> [e EXCEPT !.name[t.buffer] = t.old]
    [] t.kind = "undo" -> SciUndo(e)
    [] t.kind = "restore" -> RestorePoint(e, t)
    [] t.kind = "unlink" -> [e EXCEPT !.disk[t.name] = Absent]
DropToken(e, t) ==
  CASE t.kind = "reinsert" -> FreeBuffer(e, t.buffer)
    [] t.kind = "restore" -> DropPoint(e, t)
    [] OTHER -> e

(* The tokens from the n-th one on are run, the latest one first.          *)
RunTokens(e, n) ==
  FoldRight(LAMBDA t, f : RunToken([f EXCEPT !.tokens = Front(@)], t),
            SubSeq(e.tokens, n, Len(e.tokens)), e)
DropTokens(e) ==
  [FoldRight(LAMBDA t, f : DropToken(f, t), e.tokens, e) EXCEPT !.tokens = <<>>]

-----------------------------------------------------------------------------
(* Adding, changing, loading buffers.                                      *)

Mentioned(e) ==
  {t.buffer : t \in {u \in ToSet(e.tokens) : u.kind \in {"show", "free", "remove", "reinsert", "dirty", "name"}}}
Unused(e) == {b \in Entries : ~e.live[b]} \ Mentioned(e)
NewBuffer(e, b) ==
  [e EXCEPT !.links = InsertTail(@, b), !.live[b] = TRUE, !.name[b] = NoName,
            !.dirty[b] = FALSE, !.text[b] = "", !.past[b] = <<>>]

NamesakesOf(e, n) == {b \in InRing(e) : e.name[b] = n}
FirstOf(e, S) == Order(e)[Min({i \in DOMAIN Order(e) : Order(e)[i] \in S})]
EditBuffer(e, b) == ShowView([e EXCEPT !.current = b], b)
EditExisting(e, b) == EditBuffer([e EXCEPT !.register = FALSE], b)
AddBuffer(e, b) ==
  Push(Push(EditExisting(NewBuffer(e, b), b), [kind |-> "free", buffer |-> b]),
       [kind |-> "remove", buffer |-> b])

(* What could be read is in the buffer even if reading fails.              *)
Load(e, b, text) == [e EXCEPT !.text[b] = text, !.past[b] = IF text = "" THEN @ ELSE Append(@, "")]
LoadFile(e, b, n, how) ==
  CASE how = "ok" -> [Load(e, b, e.disk[n]) EXCEPT !.name[b] = n]
    [] how = "unreadable" -> [e EXCEPT !.failed = TRUE]
    [] how = "interrupted" -> [Load(e, b, Torn) EXCEPT !.failed = TRUE]

NewAddress(e) == CHOOSE b \in Unused(e) : TRUE
AddNamed(e, b, n, how) ==
  IF n # NoName /\ e.disk[n] # Absent THEN LoadFile(AddBuffer(e, b), b, n, how)
  ELSE [AddBuffer(e, b) EXCEPT !.name[b] = n]
EditByName(e, n, how) ==
  IF NamesakesOf(e, n) # {} THEN EditExisting(e, FirstOf(e, NamesakesOf(e, n)))
  ELSE AddNamed(e, NewAddress(e), n, how)

Dirtify(e) ==
  IF e.register \/ e.dirty[e.current] THEN e
  ELSE [Push(e, [kind |-> "dirty", buffer |-> e.current, old |-> FALSE]) EXCEPT !.dirty[e.current] = TRUE]
ChangeText(e, text) ==
  [e EXCEPT !.text[e.current] = text, !.past[e.current] = Append(@, e.text[e.current])]

-----------------------------------------------------------------------------
(* Commands, which may be part of hooks.                                   *)

(* What a function waits for, other than hooks.                            *)
Phases == {"files", "save", "open", "write", "saved", "all"}
Top == Last(calls)
Idle == ~ed.failed /\ ~ed.dangling
MayExecute ==
  /\ Idle /\ count < MaxCommands /\ Cardinality(Unused(ed)) > 0
  /\ calls # <<>> => Top.kind \notin Phases /\ Len(calls) <= MaxDepth
Waits(kind) == Idle /\ calls # <<>> /\ Top.kind = kind

(* A function returns, or the whole command fails; if it does while a      *)
(* buffer is being closed, nothing reinserts that.                         *)
Becomes(e, c) ==
  /\ e.failed /\ (\E i \in DOMAIN calls : calls[i].kind = "closing") => "failing hook" \in Cases
  /\ ed' = e /\ calls' = IF e.failed THEN <<>> ELSE c
Outer(e, c) ==
  /\ Becomes(e, c)
  /\ UNCHANGED <<history, count, crashes, original>>
Executed(e, c) ==
  /\ Becomes(e, c)
  /\ history' = IF calls = <<>>
                THEN Append(history, [tokens |-> Len(ed.tokens), seen |-> <<Order(ed), Rest(ed)>>])
                ELSE history
  /\ count' = count + 1 /\ UNCHANGED <<crashes, original>>
Fail(e) == [e EXCEPT !.failed = TRUE]
CallSave(c, b, n) == Append(c, [kind |-> "save", buffer |-> b, name |-> n])
Call(c, kind) == Append(c, [kind |-> kind])
CallWith(c, kind, b) == Append(c, [kind |-> kind, buffer |-> b])

(* EB with a file name, a pattern or an id.  While a register is edited,   *)
(* the undo tokens do not restore teco_ring_current.                       *)
MayLeave(b) == ed.register /\ ed.undo /\ b # ed.current => "leave register" \in Cases
Edit(e, n, how) == EditByName(UndoEdit(e), n, how)
EditFile == \E n \in Names \cup {NoName}, how \in {"ok", "unreadable", "interrupted"} :
  /\ MayExecute
  /\ \E e \in {Edit(ed, n, how)} : MayLeave(e.current) /\ Executed(e, Call(calls, "edit"))
EditFiles == \E m, n \in Names :
  /\ MayExecute /\ m # n /\ MayLeave("another") /\ ed.disk[m] # Absent /\ ed.disk[n] # Absent
  /\ Executed(ed, Append(calls, [kind |-> "files", rest |-> <<m, n>>]))
EditNextFile ==
  /\ Waits("files") /\ Top.rest # <<>> /\ Cardinality(Unused(ed)) > 0
  /\ Outer(Edit(ed, Head(Top.rest), "ok"), Call([calls EXCEPT ![Len(calls)].rest = Tail(@)], "edit"))
EditFilesDone == Waits("files") /\ Top.rest = <<>> /\ Outer(ed, Front(calls))
EditById == \E b \in InRing(ed) :
  /\ MayExecute /\ MayLeave(b)
  /\ Executed(EditExisting(UndoEdit(ed), b), Call(calls, "edit"))
EditRegister ==
  /\ MayExecute /\ (calls # <<>> => "register in hook" \in Cases)
  /\ Executed(ShowView([UndoEdit(ed) EXCEPT !.register = TRUE], "register"), calls)

(* Insertions and deletions; ER.                                           *)
ChangedClean(e, text) == Push(ChangeText(e, text), [kind |-> "undo"])
Changed(e, text) == Push(Dirtify(ChangeText(e, text)), [kind |-> "undo"])
Insert == \E text \in Texts :
  /\ MayExecute /\ ~ed.register /\ text # ed.text[ed.current]
  /\ Executed(Changed(ed, text), calls)
ReadFile == \E text \in Texts, interrupted \in BOOLEAN :
  /\ MayExecute /\ ~ed.register /\ text # ed.text[ed.current]
  /\ interrupted => "interrupted read" \in Cases
  /\ Executed(IF interrupted THEN Fail(ChangeText(ed, text)) ELSE Changed(ed, text), calls)

(* Wrong ids, EF of a register, EX with dirty buffers.                     *)
Refuse == MayExecute /\ Executed(Fail(ed), calls)

(* EF                                                                      *)
CloseBuffer(e, c, b) ==
  IF b = e.current THEN <<e, CallWith(c, "close", b)>>
  ELSE <<UndoReinsert(RemoveBuffer(e, b), b), c>>
CloseCommand == \E b \in InRing(ed), mode \in {"plain", "force", "save"} :
  /\ MayExecute
  /\ calls # <<>> => "close in hook" \in Cases
  /\ ed.register /\ b = ed.current => "close behind register" \in Cases
  /\ CASE mode = "plain" /\ ed.dirty[b] -> Executed(Fail(ed), calls)
       [] mode = "save" -> Executed(ed, CallSave(CallWith(calls, "saved", b), b, NoName))
       [] OTHER -> \E r \in {CloseBuffer(ed, calls, b)} : Executed(r[1], r[2])
CloseSaved ==
  /\ Waits("saved")
  /\ \E r \in {CloseBuffer(ed, Front(calls), Top.buffer)} : Outer(r[1], r[2])

(* The CLOSE hook has returned: the next buffer is edited, or the previous *)
(* one, or a new one.                                                      *)
Successor(l, b) == IF After(l, b) # Null THEN After(l, b) ELSE Before(l, b)
CloseCurrent(e, b) ==
  LET f == RemoveBuffer(UndoShow(e), b)
      next == Successor(f.links, b) IN
  IF next \notin Entries THEN EditByName(f, NoName, "ok") ELSE EditBuffer(f, next)

HookReturns ==
  \/ Waits("edit") /\ Outer(ed, Front(calls))
  \/ /\ Waits("close") /\ Cardinality(Unused(ed)) > 0
     /\ Outer(CloseCurrent(ed, Top.buffer), CallWith(Front(calls), "closing", Top.buffer))
  \/ Waits("closing") /\ Outer(UndoReinsert(ed, Top.buffer), Front(calls))
HookFails ==
  /\ (Waits("edit") \/ Waits("close") \/ Waits("closing"))
  /\ Outer(Fail(ed), <<>>)

-----------------------------------------------------------------------------
(* Saving files.                                                           *)

(* EW: a buffer without a name needs one.  A file that exists is put aside *)
(* as a save point; one that does not is to be removed again.              *)
SaveCommand == \E b \in InRing(ed) \cup {"register"}, n \in Names \cup {NoName} :
  /\ MayExecute /\ (b = "register" => ed.register /\ n # NoName)
  /\ n # NoName /\ NamesakesOf(ed, n) \ {b} # {} => "file of another buffer" \in Cases
  /\ Executed(ed, CallSave(calls, b, n))
SaveAllCommand == MayExecute /\ calls = <<>> /\ Executed(ed, Call(calls, "all"))
SaveNext ==
  /\ Waits("all")
  /\ LET dirty == {b \in InRing(ed) : ed.dirty[b]} IN
     Outer(ed, IF dirty = {} THEN Front(calls) ELSE CallSave(calls, FirstOf(ed, dirty), NoName))

PointAt(e, f) == [id |-> e.id, name |-> f, text |-> e.disk[f]]
Renamed(e, f) ==
  [e EXCEPT !.points = {p \in @ : p.id # e.id \/ p.name # f} \cup {PointAt(e, f)}, !.disk[f] = Absent]
UndoRename(e, f) == Push(e, [kind |-> "restore", id |-> e.id, name |-> f])
MakeSavepointAgain(e, f) == UndoRename(Renamed(e, f), f)
MakeSavepoint(e, f) == [UndoRename(Renamed(e, f), f) EXCEPT !.id = @ + 1]
PutAside(e, f, refused) ==
  CASE ~e.undo \/ (e.disk[f] # Absent /\ refused) -> e
    [] e.undo /\ e.disk[f] # Absent /\ ~refused -> MakeSavepoint(e, f)
    [] OTHER -> Push(e, [kind |-> "unlink", name |-> f])
NameFor(e, frame) == IF frame.name = NoName THEN e.name[frame.buffer] ELSE frame.name
StartSaving == \E refused \in BOOLEAN :
  /\ Waits("save") /\ (refused => "no save point" \in Cases)
  /\ (crashes > 0 => "save after crash" \in Cases)
  /\ \E f \in {NameFor(ed, Top)} :
       IF f = NoName THEN Outer(Fail(ed), <<>>)
       ELSE Outer(PutAside(ed, f, refused), Append(Front(calls), [Top EXCEPT !.kind = "open", !.name = f]))
OpenFile == \E refused \in BOOLEAN :
  /\ Waits("open")
  /\ IF refused THEN Outer(Fail(ed), <<>>)
     ELSE Outer([ed EXCEPT !.disk[Top.name] = Torn], Append(Front(calls), [Top EXCEPT !.kind = "write"]))

(* The buffer is clean then, and has the file's name.                      *)
UndoName(e, b) == Push(Push(e, [kind |-> "dirty", buffer |-> b, old |-> e.dirty[b]]),
                       [kind |-> "name", buffer |-> b, old |-> e.name[b]])
Written(e, b, f) ==
  IF b = "register" THEN e ELSE [UndoName(e, b) EXCEPT !.dirty[b] = FALSE, !.name[b] = f]
Content(e, b) == IF b = "register" THEN CHOOSE t \in Texts : t # "" ELSE e.text[b]
WriteFile == \E how \in {"ok", "failed", "lost"} :
  /\ Waits("write") /\ (how = "lost" => "lost write" \in Cases)
  /\ IF how = "failed" THEN Outer(Fail(ed), <<>>)
     ELSE Outer(Written([ed EXCEPT !.disk[Top.name] = IF how = "ok" THEN Content(ed, Top.buffer) ELSE Torn],
                        Top.buffer, Top.name), Front(calls))

-----------------------------------------------------------------------------
(* Rubout, the end of a command line, crashes.                             *)

Rubout ==
  /\ ed.undo /\ ~ed.dangling /\ calls = <<>> /\ history # <<>>
  /\ ed' = [RunTokens(ed, Last(history).tokens + 1) EXCEPT !.failed = FALSE]
  /\ history' = Front(history) /\ UNCHANGED <<calls, count, crashes, original>>
Terminate ==
  /\ Idle /\ calls = <<>> /\ history # <<>>
  /\ ed' = DropTokens(ed) /\ history' = <<>> /\ original' = ed.disk
  /\ UNCHANGED <<calls, count, crashes>>

NewEditor(undo, disk, points) ==
  LET b == CHOOSE x \in Entries : TRUE
      e == [links |-> EmptyTailq, live |-> [x \in Entries |-> FALSE], name |-> [x \in Entries |-> NoName],
            dirty |-> [x \in Entries |-> FALSE], text |-> [x \in Entries |-> ""],
            past |-> [x \in Entries |-> <<>>],
            current |-> b, register |-> FALSE, view |-> b, disk |-> disk, points |-> points, id |-> 0,
            tokens |-> <<>>, undo |-> undo, failed |-> FALSE, dangling |-> FALSE] IN
  NewBuffer(e, b)
Crash ==
  /\ crashes < MaxCrashes /\ crashes' = crashes + 1
  /\ ed' = NewEditor(ed.undo, ed.disk, ed.points) /\ calls' = <<>> /\ history' = <<>>
  /\ UNCHANGED <<count, original>>

(* The editor has been started, and some files may have been loaded.       *)
ASSUME InitStatesAssumption ==
  InitStates \subseteq
    [links : Links, live : [Entries -> BOOLEAN], name : [Entries -> Names \cup {NoName}],
     dirty : [Entries -> BOOLEAN], text : [Entries -> Texts], past : [Entries -> Seq(Texts)],
     current : Entries, register : {FALSE}, view : Entries, disk : [Names -> Texts \cup {Absent}],
     points : {{}}, id : {0}, tokens : {<<>>}, undo : BOOLEAN, failed : {FALSE}, dangling : {FALSE}]

ASSUME InitialRingsAssumption == \A e \in InitStates :
  /\ IsList(e.links, Order(e)) /\ {b \in Entries : e.live[b]} = InRing(e)
  /\ e.current \in InRing(e) /\ e.view = e.current

Init ==
  /\ ed \in InitStates /\ original = ed.disk
  /\ calls = <<>> /\ history = <<>> /\ count = 0 /\ crashes = 0

Next == \/ EditFile \/ EditFiles \/ EditNextFile \/ EditFilesDone \/ EditById \/ EditRegister
        \/ Insert \/ ReadFile \/ Refuse \/ CloseCommand \/ CloseSaved \/ HookReturns \/ HookFails
        \/ SaveCommand \/ SaveAllCommand \/ SaveNext \/ StartSaving \/ OpenFile \/ WriteFile
        \/ Rubout \/ Terminate \/ Crash

Spec == Init /\ [][Next]_vars

-----------------------------------------------------------------------------
(* Properties.                                                             *)

(* The buffers that are allocated are those in the ring, whose pointers    *)
(* fit together, those that an undo token will reinsert, and the one that  *)
(* is being closed; between commands, the one that is edited is one of the *)
(* ring, and the view shows it.                                            *)
Kept(e) == {t.buffer : t \in {u \in ToSet(e.tokens) : u.kind = "reinsert"}}
           \cup {c.buffer : c \in {d \in ToSet(calls) : d.kind = "closing"}}
Between == calls = <<>> /\ ~ed.failed
RingIsRing ==
  /\ ~ed.dangling
  /\ IsList(ed.links, Order(ed))
  /\ {b \in Entries : ed.live[b]} = InRing(ed) \cup Kept(ed)
  /\ Between => /\ ed.current \in InRing(ed)
                /\ ed.view = IF ed.register THEN "register" ELSE ed.current

(* A buffer that is not marked as changed is what its file contains.       *)
CleanMeansSaved ==
  Between => \A b \in InRing(ed) :
    ~ed.dirty[b] /\ ed.name[b] # NoName =>
      ed.text[b] = IF ed.disk[ed.name[b]] = Absent THEN "" ELSE ed.disk[ed.name[b]]

(* Until the command line has been accepted, the original contents of a    *)
(* file are in it or in one of its save points, wherever the editor stops. *)
OriginalSurvives ==
  ed.undo => \A f \in Names : original[f] \notin {Absent, ed.disk[f]} =>
    \E p \in ed.points : p.name = f /\ p.text = original[f]

(* Rubout restores the ring, which files are edited, texts and files.      *)
Abstract == INSTANCE RingSpec WITH order <- Order(ed), rest <- Rest(ed),
                                   saved <- [i \in DOMAIN history |-> history[i].seen]
RingIsRestored == Abstract!RingIsRestored
=============================================================================
