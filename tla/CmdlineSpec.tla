---------------------------- MODULE CmdlineSpec ----------------------------
(***************************************************************************)
(* What the interactive command line promises: an editable line of text    *)
(* with a cursor.  The text before the cursor has been executed, the text  *)
(* after it has been rubbed out.  Undo and redo look like moving the       *)
(* cursor back and forth; there are no undo tokens, no program counters    *)
(* and no backups here.                                                    *)
(***************************************************************************)
EXTENDS CmdChars

VARIABLES
  line,     \* the text, the rubbed-out part included
  cursor,   \* the length of the executed part
  editor,   \* what the user is editing, see CmdChars
  last      \* the last terminated command line

specVars == <<line, cursor, editor, last>>

Executed == SubSeq(line, 1, cursor)

SpecInit ==
  /\ line = <<>> /\ cursor = 0 /\ last = <<>>
  /\ editor = Blank

(* New text replaces the rubbed-out part.                                  *)
Type ==
  /\ Len(line') > cursor
  /\ SubSeq(line', 1, cursor) = Executed
  /\ UNCHANGED <<cursor, editor, last>>

(* The character after the cursor is executed; it must be one the parser   *)
(* accepts.                                                                *)
Forward ==
  /\ cursor < Len(line)
  /\ LET c == CharAt(line, cursor) IN
       /\ Accepts(editor, c)
       /\ editor' = Execute(editor, c)
       /\ cursor' = cursor + Len(c)
  /\ UNCHANGED <<line, last>>

(* Rubbing out, and errors: the cursor moves back and the editor is what   *)
(* it was there.                                                           *)
Back ==
  /\ \E n \in 0..(cursor - 1) :
       /\ cursor' = n
       /\ editor' = RunText(SubSeq(line, 1, n))
  /\ UNCHANGED <<line, last>>

(* The line is replaced by another one, of which it keeps a part in the    *)
(* state it has been executed in.                                          *)
Replace ==
  /\ \E n \in 0..cursor :
       /\ cursor' = n
       /\ n <= Len(line')
       /\ SubSeq(line', 1, n) = SubSeq(line, 1, n)
       /\ editor' = RunText(SubSeq(line, 1, n))
  /\ UNCHANGED last

(* The return command, at a place where it may be given.                   *)
Terminate ==
  /\ cursor < Len(line)
  /\ IsReturn(editor, CharAt(line, cursor)) /\ ~editor.editing
  /\ last' = line
  /\ line' = <<>> /\ cursor' = 0
  /\ editor' = Blank

SpecNext == Type \/ Forward \/ Back \/ Replace \/ Terminate

CmdSpec == SpecInit /\ [][SpecNext]_specVars

(* What follows for a user of the line: the editor shows what executing    *)
(* the text before the cursor does.                                        *)
EditorFollowsCursor == cursor <= Len(line) /\ editor = RunText(Executed)
=============================================================================
