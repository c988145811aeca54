----------------------------- MODULE Arguments ------------------------------
(***************************************************************************)
(* The argument of a command while it is typed: characters, completions    *)
(* (the Tab key and clicks on the popup) and rubouts, of characters, of    *)
(* file names and of words (cmdline.c).  The machine runs either as part   *)
(* of a command that is executed or of one that is skipped.                *)
(*                                                                         *)
(* The first part says what is inserted by a completion (cmdline.c,        *)
(* file-utils.c, rb3str.c, symbols.c, help.c), and which files a glob      *)
(* pattern names (glob.c).  Paths are sequences of characters; the path of *)
(* a directory ends with a separator.                                      *)
(***************************************************************************)
EXTENDS StringBuilding, FiniteSets

CONSTANTS
  Files,         \* the files and directories
  Home,          \* the string in Q-Register $HOME
  Symbols,       \* Scintilla messages
  LexerSymbols,  \* Lexilla styles
  Labels,        \* the labels already seen
  Topics         \* help topics

Rest(s, n) == SubSeq(s, n + 1, Len(s))

-----------------------------------------------------------------------------
(* A completion: the words that match, what is inserted, whether the word  *)
(* is complete, and what the popup shows.                                  *)

Upper(s) == Folded("upper", s)

Completion(words, typed, complete) ==
  LET common == IF words = {} THEN 0 ELSE Len(LongestCommonPrefix({Upper(w) : w \in words}))
      insert == IF words = {} THEN <<>> ELSE SubSeq(CHOOSE w \in words : TRUE, Len(typed) + 1, common)
  IN [insert |-> insert, unambiguous |-> complete /\ Cardinality(words) = 1, from |-> Len(typed),
      popup |-> IF insert = <<>> /\ Cardinality(words) > 1 THEN words ELSE {}]

(* Lists of words: labels exactly, topics and symbols whatever the case.   *)
Exactly(words, typed) == Completion({w \in words : IsPrefix(typed, w)}, typed, TRUE)
IgnoringCase(words, typed) ==
  Completion({w \in words : IsPrefix(Upper(typed), Upper(w))}, typed, TRUE)

-----------------------------------------------------------------------------
(* Files.                                                                  *)

IsDir(path) == path # <<>> /\ Last(path) = "/"
Separators(path) == {i \in DOMAIN path : path[i] = "/"}
DirnameLen(path) == IF Separators(path) = {} THEN 0 ELSE Max(Separators(path))

(* teco_file_expand_path()                                                 *)
ExpandPath(path) ==
  IF path = <<"~">> THEN Home
  ELSE IF IsPrefix(<<"~", "/">>, path) THEN Home \o Rest(path, 1)
  ELSE path

(* What the directory of a path contains.                                  *)
Entries(dirname) ==
  {f \in Files : IsStrictPrefix(dirname, f) /\ Separators(Front(Rest(f, Len(dirname)))) = {}}
Visible(path, dirname) == path[Len(dirname) + 1] # "."

FileCompletion(typed, onlyDirs) ==
  LET path == ExpandPath(typed)
      dirname == SubSeq(path, 1, DirnameLen(path))
      files == {f \in Entries(dirname) : /\ IsPrefix(path, f)
                                         /\ path # dirname \/ Visible(f, dirname)
                                         /\ IsDir(f) \/ ~onlyDirs}
  IN Completion(files, path, \A f \in files : ~IsDir(f))

(* The word behind the last break character.                               *)
LastWord(s, breaks) ==
  LET found == {i \in DOMAIN s : s[i] \in breaks} IN IF found = {} THEN s ELSE Rest(s, Max(found))
BreakChars == {" ", "<", ">", ",", ";", "@"}

-----------------------------------------------------------------------------
(* Glob patterns: the regular expression one is compiled to is a sequence  *)
(* of any strings, any characters and sets.                                *)

IsPattern(s) == \E i \in DOMAIN s : s[i] \in Wild

Anything == [kind |-> "any", chars |-> {}]
AnyOne == [kind |-> "not", chars |-> {}]
Literal(c) == [kind |-> "set", chars |-> {c}]

(* The end of the set that starts at the head of s: a bracket that is not  *)
(* its first character.                                                    *)
SetFrom(s) == IF Len(s) > 1 /\ s[2] \in {"!", "^"} THEN 3 ELSE 2
SetEnds(s) == {j \in (SetFrom(s) + 1)..Len(s) : s[j] = "]"}
SetOf(s) ==
  [kind |-> IF SetFrom(s) = 3 THEN "not" ELSE "set",
   chars |-> {s[j] : j \in SetFrom(s)..(Min(SetEnds(s)) - 1)}]

Compile(pattern) ==
  LET compile[i \in 1..(Len(pattern) + 1)] ==
        IF i > Len(pattern) THEN <<>>
        ELSE CASE pattern[i] = "*" -> <<Anything>> \o compile[i + 1]
               [] pattern[i] = "?" -> <<AnyOne>> \o compile[i + 1]
               [] pattern[i] = "[" /\ SetEnds(Rest(pattern, i - 1)) # {} ->
                    <<SetOf(Rest(pattern, i - 1))>>
                      \o compile[i + Min(SetEnds(Rest(pattern, i - 1)))]
               [] OTHER -> <<Literal(pattern[i])>> \o compile[i + 1]
  IN compile[1]

Accepts(item, c) == IF item.kind = "set" THEN c \in item.chars ELSE c \notin item.chars
GlobMatches(items, name) ==
  LET match[i \in 1..(Len(items) + 1), j \in 1..(Len(name) + 1)] ==
        IF i > Len(items) THEN j > Len(name)
        ELSE IF items[i].kind = "any" THEN match[i + 1, j] \/ (j <= Len(name) /\ match[i, j + 1])
        ELSE j <= Len(name) /\ Accepts(items[i], name[j]) /\ match[i + 1, j + 1]
  IN match[1, 1]

(* teco_globber_init() and teco_globber_next(): only the last component is *)
(* a pattern.                                                              *)
Globbed(pattern) ==
  LET path == ExpandPath(pattern)
      dirname == SubSeq(path, 1, DirnameLen(path))
      items == Compile(Rest(path, Len(dirname)))
      Name(f) == Rest(IF IsDir(f) THEN Front(f) ELSE f, Len(dirname))
  IN {f \in Entries(dirname) : GlobMatches(items, Name(f))}

-----------------------------------------------------------------------------
(* Q-Register names: of one and two letters, and long ones.                *)

Length(m, k) == CASE m.level[k].spec \in {"start", "global"} -> {1}
                  [] m.level[k].spec \in {"first", "second"} -> {2}
                  [] OTHER -> Nat

NameCompletion(m, k) ==
  LET name == m.level[k].name
      names == {w \in DOMAIN Names(m, k) : Len(w) \in Length(m, k)}
      found == IF m.level[k].spec = "string" THEN Exactly(names, name) ELSE IgnoringCase(names, name)
  IN [found EXCEPT !.unambiguous = @ /\ m.level[k].nesting = 1]

-----------------------------------------------------------------------------
(* The argument of a command: what is completed, how it is quoted and what *)
(* is added behind a complete word.                                        *)

Terminator(m) == IF m.escape = "{" THEN "}" ELSE m.escape
(* Mutant: the terminator although braces are still open.                  *)
FinalInBraces(m) == <<Terminator(m)>>
Final(m) == IF m.nesting = 1 THEN <<Terminator(m)>> ELSE <<>>

ArgumentCompletion(m, command) ==
  CASE command = "file" -> FileCompletion(m.string, FALSE)
    [] command = "glob" -> IF IsPattern(m.string) THEN Completion({}, <<>>, FALSE)
                           ELSE FileCompletion(m.string, FALSE)
    [] command = "dir" -> FileCompletion(m.string, TRUE)
    [] command \in {"execute", "insert"} -> FileCompletion(LastWord(m.string, BreakChars), FALSE)
    [] command = "symbols" -> LET symbol == LastWord(m.string, {","}) IN
         IgnoringCase(IF symbol = m.string THEN Symbols ELSE LexerSymbols, symbol)
    [] command = "goto" -> Exactly(Labels, LastWord(m.string, {","}))
    [] command = "help" -> IgnoringCase(Topics, m.string)

Separator(m, command) ==
  CASE command \in {"file", "glob", "help"} -> Final(m)
    [] command = "dir" -> <<>>
    [] command \in {"execute", "insert"} -> <<" ">>
    [] command \in {"symbols", "goto"} -> <<",">>

Quoted(m, command, s) == EscapedFor(m.escape, IF command = "glob" THEN EscapePattern(s) ELSE s)

Tabbed(m, command) ==
  LET found == ArgumentCompletion(m, command) IN
  Quoted(m, command, found.insert) \o (IF found.unambiguous THEN Separator(m, command) ELSE <<>>)

(* A click on a word of the popup.  A directory is not a complete word.    *)
UnlessDir(s, end) == IF IsDir(s) THEN <<>> ELSE end
ChosenFile(m, s) == EscapedFor(m.escape, s) \o UnlessDir(s, Final(m))
ChosenGlob(m, s) == EscapedFor(m.escape, EscapePattern(s)) \o UnlessDir(s, Final(m))
ChosenWord(m, s) == EscapedFor(m.escape, s) \o UnlessDir(s, <<" ">>)
ChosenDir(m, s) == EscapedFor(m.escape, s)
ChosenSymbol(m, s) == Append(EscapedFor(m.escape, s), ",")
ChosenLabel(m, s) == Append(EscapedFor(m.escape, s), ",")
ChosenTopic(m, s) == EscapedFor(m.escape, s) \o Final(m)
Chosen(m, command, s) ==
  CASE command = "file" -> ChosenFile(m, s)
    [] command = "glob" -> ChosenGlob(m, s)
    [] command \in {"execute", "insert"} -> ChosenWord(m, s)
    [] command = "dir" -> ChosenDir(m, s)
    [] command = "symbols" -> ChosenSymbol(m, s)
    [] command = "goto" -> ChosenLabel(m, s)
    [] command = "help" -> ChosenTopic(m, s)

TabbedName(m, k) ==
  LET found == NameCompletion(m, k) IN
  IF m.level[k].spec # "string" THEN found.insert
  ELSE EscapedFor("[", found.insert) \o (IF found.unambiguous THEN <<"]">> ELSE <<>>)

-----------------------------------------------------------------------------
(* The argument.                                                           *)

CONSTANTS
  Cases,    \* [command, executes, at, keys]: the command and what is typed
  Places,   \* where completion is asked for
  TabWidth, \* soft tabs reach to a multiple of this column
  MaxKeys   \* bound: characters of an argument

ASSUME ArgumentsAssumption == {TabWidth, MaxKeys} \subseteq Nat \ {0}

VARIABLES
  case,     \* the command
  typed,    \* the characters of the argument
  marks,    \* the undo tokens there were before each of them
  arg,      \* the machine
  popup     \* the completion the popup shows
vars == <<case, typed, marks, arg, popup>>

Nothing == [insert |-> <<>>, unambiguous |-> FALSE, from |-> 0, popup |-> {}]
Fresh == NewMachine(case.executes, case.at)

Init ==
  /\ case \in Cases
  /\ typed = <<>>
  /\ marks = <<>>
  /\ arg = NewMachine(case.executes, case.at)
  /\ popup = Nothing

Runs == arg.err = "none" /\ ~arg.ended

(* teco_cmdline_insert(): the characters run one by one; one that fails    *)
(* rubs out all of them.                                                   *)
Insert(s) ==
  LET m == [i \in 0..Len(s) |-> InputAll(arg, SubSeq(s, 1, i))] IN
  IF m[Len(s)].err \in {"none", "crash"}
  THEN /\ typed' = typed \o s
       /\ marks' = marks \o [i \in DOMAIN s |-> Len(m[i - 1].tokens)]
       /\ arg' = m[Len(s)]
  ELSE UNCHANGED <<typed, marks, arg>>

(* A character key.                                                        *)
Type(c) ==
  /\ Runs
  /\ Len(typed) < MaxKeys
  /\ Insert(<<c>>)
  /\ popup' = Nothing
  /\ UNCHANGED case

(* Behind ^Q, the keys that rub out words and strings are characters.      *)
TypeEscapedKey ==
  /\ Runs
  /\ Len(typed) < MaxKeys
  /\ arg.level[Active(arg)].state = "escaped"
  /\ \E c \in {"^W", "^U"} : Insert(<<c>>)
  /\ popup' = Nothing
  /\ UNCHANGED case

(* In insertions, the Tab key can stand for some spaces.                   *)
SoftTab ==
  /\ Runs
  /\ Len(typed) < MaxKeys
  /\ case.command = "insert"
  /\ arg.level[1].state = "start"
  /\ \E n \in 1..TabWidth : Insert([i \in 1..n |-> " "])
  /\ popup' = Nothing
  /\ UNCHANGED case

-----------------------------------------------------------------------------
(* Completion.                                                             *)

Level == Active(arg)
ShortName == arg.level[Level].state \in OfRegister
LongName == Level > 1 /\ arg.level[Level].state = "start"

Place ==
  IF arg.at THEN "before the terminator"
  ELSE IF ~arg.executes THEN "skipped"
  ELSE IF ShortName \/ LongName THEN "name"
  ELSE IF arg.level[1].mode # "normal" THEN "in a mode" ELSE "argument"
Completes ==
  /\ Runs
  /\ Place \in Places
  /\ CASE ShortName -> arg.level[Level].spec # "caret" [] OTHER -> arg.level[Level].state = "start"
  /\ ~(case.command = "insert" /\ Level = 1 /\ ~arg.executes)

Found ==
  IF ShortName THEN NameCompletion(arg, Level)
  ELSE IF LongName THEN NameCompletion(arg, Level - 1)
  ELSE ArgumentCompletion(arg, case.command)
TabInserts ==
  IF ShortName THEN TabbedName(arg, Level)
  ELSE IF LongName THEN TabbedName(arg, Level - 1)
  ELSE Tabbed(arg, case.command)

(* The Tab key: the popup is scrolled when it is shown.                    *)
Tab ==
  /\ Completes
  /\ Len(typed) < MaxKeys
  /\ popup = Nothing
  /\ Insert(TabInserts)
  /\ popup' = IF Found.popup = {} THEN Nothing ELSE Found
  /\ UNCHANGED case

(* A click on the popup: the callback is that of the command, which adds   *)
(* to a name what it would add to the argument; commands without one of    *)
(* their own call that of the string building machine, which has none      *)
(* within a construct.                                                     *)
ClickInserts(w) == Chosen(arg, case.command, Rest(w, popup.from))
Clicks == Runs /\ (Place = "name" => "name in the popup" \in Places)
Click ==
  /\ Clicks
  /\ \E w \in popup.popup :
       IF case.command \in {"insert", "execute"} /\ arg.level[1].state # "start"
       THEN arg' = Fail(arg, "crash") /\ UNCHANGED <<typed, marks>>
       ELSE Insert(ClickInserts(w))
  /\ popup' = Nothing
  /\ UNCHANGED case

-----------------------------------------------------------------------------
(* Rubout.                                                                 *)

(* The machine after only the first n characters were left.                *)
LeftOf(n) == IF n = Len(typed) THEN arg ELSE Undone(arg, marks[n + 1])
RubOutTo(n) ==
  /\ typed' = SubSeq(typed, 1, n)
  /\ marks' = SubSeq(marks, 1, n)
  /\ arg' = LeftOf(n)
  /\ popup' = Nothing
  /\ UNCHANGED case

Rubout == typed # <<>> /\ arg.err = "none" /\ RubOutTo(Len(typed) - 1)

(* Rub out characters while test() holds before each of them.              *)
While(n, test(_)) == Max({0} \cup {i \in 1..n : ~test(i)})

(* ^W in an argument that is a file name: a separator, then what is left   *)
(* of its component.                                                       *)
RuboutName ==
  /\ Runs /\ ~arg.at
  /\ case.command \in {"file", "glob", "dir"}
  /\ arg.level[1].state = "start"
  /\ arg.string # <<>>
  /\ LET n == IF Last(typed) = "/" THEN Len(typed) - 1 ELSE Len(typed)
         test(i) == LeftOf(i).string # <<>> /\ typed[i] # "/"
     IN RubOutTo(While(n, test))

(* ^W in other arguments: a construct, or a word.                          *)
WordChars == {"a", "b", "A", "B"}
RuboutWord ==
  /\ Runs /\ ~arg.at
  /\ case.command \notin {"file", "glob", "dir"}
  /\ arg.level[1].state = "start"
  /\ arg.executes /\ arg.string # <<>>
  /\ LET n == Len(typed) - 1
         inConstruct(i) == LeftOf(i).level[1].state # "start"
         noWord(i) == LeftOf(i).string # <<>> /\ typed[i] \notin WordChars
         aWord(i) == LeftOf(i).string # <<>> /\ typed[i] \in WordChars
         toWord == IF typed[n + 1] \in WordChars THEN n ELSE While(n, noWord)
     IN RubOutTo(IF inConstruct(n) THEN While(n - 1, inConstruct) ELSE While(toWord, aWord))

(* ^U: the whole argument.                                                 *)
RuboutString ==
  /\ Runs
  /\ arg.level[1].state = "start"
  /\ arg.executes /\ arg.string # <<>>
  /\ LET left(i) == LeftOf(i).string # <<>> IN RubOutTo(While(Len(typed), left))

Next ==
  \/ \E c \in case.keys : Type(c)
  \/ TypeEscapedKey
  \/ SoftTab
  \/ Tab
  \/ Click
  \/ Rubout
  \/ RuboutName
  \/ RuboutWord
  \/ RuboutString

Spec == Init /\ [][Next]_vars
-----------------------------------------------------------------------------
(* Properties.                                                             *)

(* An argument that is skipped (in a conditional that is not taken, before *)
(* a label) is parsed as one that is executed: it ends at the same         *)
(* character and constructs in it have the same extent, although none of   *)
(* their effects takes place (parser.c:1099-1206).                         *)
Control(m) ==
  [level |-> [k \in DOMAIN m.level |->
                <<m.level[k].state, m.level[k].spec, m.level[k].nesting, m.level[k].mode = "disabled">>],
   rest |-> <<m.escape, m.nesting, m.at, m.ended>>]
ParsesAlike ==
  arg.err = "none" => Control(InputAll(NewMachine(FALSE, case.at), typed)) = Control(arg)

(* After any rubouts the machines are in the state in which typing only    *)
(* what is left of the argument leaves them, in all fields of all machines *)
(* that contain each other: every assignment that matters later has pushed *)
(* its token (parser.c:395-1206, qreg.c:1375-1640).                        *)
KeepsWhatWasTyped ==
  arg.err = "none" => InputAll(Fresh, typed) = [arg EXCEPT !.tokens = InputAll(Fresh, typed).tokens]

(* What an argument (or its last word) stands for.                         *)
Word(m) ==
  CASE case.command \in {"execute", "insert"} -> LastWord(m.string, BreakChars)
    [] case.command \in {"symbols", "goto"} -> LastWord(m.string, {","})
    [] OTHER -> m.string
Finished(m) ==
  \/ m.ended
  \/ case.command \in {"execute", "insert", "symbols", "goto"} /\ m.string # <<>> /\ Word(m) = <<>>
LastFinished(m) == Word(IF m.ended THEN m ELSE [m EXCEPT !.string = Front(@)])

Words ==
  CASE case.command \in {"file", "glob", "execute", "insert"} -> {f \in Files : ~IsDir(f)}
    [] case.command = "dir" -> {f \in Files : IsDir(f)}
    [] case.command = "symbols" -> IF Word(arg) = arg.string THEN Symbols ELSE LexerSymbols
    [] case.command = "goto" -> Labels
    [] case.command = "help" -> Topics
BeginsWith(w, m) ==
  CASE case.command \in {"file", "dir", "execute", "insert"} -> IsPrefix(ExpandPath(Word(m)), w)
    [] case.command = "glob" -> \E f \in Globbed(m.string \o <<"*">>) : IsPrefix(f, w)
    [] OTHER -> IsPrefix(Upper(Word(m)), Upper(w))
Means(m) ==
  CASE case.command \in {"file", "execute", "insert"} -> {ExpandPath(LastFinished(m))}
    [] case.command = "glob" -> Globbed(m.string)
    [] OTHER -> {w \in Words : Upper(w) = Upper(LastFinished(m))}

(* A completion never fails, never loses one of the words it completes to, *)
(* and finishes the argument, or the word, only if it stands for the only  *)
(* word there is, or for the one that was clicked: the escaping of each    *)
(* kind of argument undoes what string building, globbing and the search   *)
(* for terminators do (cmdline.c:660-1370).                                *)
CompletesTo(s, words) ==
  LET m == InputAll(arg, s) IN
  /\ m.err = "none"
  /\ IF Place = "name"
     THEN s # <<>> /\ Active(m) = Level /\ LongName =>
            \E w \in DOMAIN Names(m, Level - 1) : IsPrefix(m.level[Level - 1].name, w)
     ELSE IF s # <<>> /\ Finished(m) THEN Means(m) = words ELSE \A w \in words : BeginsWith(w, m)
Remaining == {w \in Words : BeginsWith(w, arg) /\ (Word(arg) = <<>> => w[1] # ".")}
CompletesToAName ==
  /\ Completes /\ popup = Nothing /\ ~IsPattern(arg.string) => CompletesTo(TabInserts, Remaining)
  /\ Clicks => \A w \in popup.popup :
                CompletesTo(ClickInserts(w), {v \in Words : IF IsDir(w) THEN IsPrefix(w, v) ELSE v = w})

=============================================================================
