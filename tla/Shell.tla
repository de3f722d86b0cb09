--------------------------------- MODULE Shell ---------------------------------
(***************************************************************************)
(* The text boot's shell, shell/shell.c, on the console of Tty: the line   *)
(* being edited, the history of commands and its two keys, and the         *)
(* commands.  A function that prints takes one step for what it does, and  *)
(* one for each character it prints; no other call begins in between.  The *)
(* commands' own work is in the modules of the components they call.       *)
(***************************************************************************)
EXTENDS Tty

CONSTANTS
  HISTORY_MAX,  \* 5
  CMD_SIZE, ARG_SIZE,           \* 32 and 224: the arrays for a command's parts
  FILENAME_SIZE, CONTENT_SIZE,  \* 32 and 192: those for the parts of a write's
  Word,         \* command -> how it is spelt
  Lines,        \* bound: the lines that may be typed, and their beginnings
  Replies,      \* the texts that commands print
  Blocks        \* the addresses kmalloc may return

NULL == 0

\* The commands told by the word before the first blank; help is told by the
\* whole line.
OfOneWord == {"vesademo", "usermode", "taskdemo", "ls", "clear", "about",
              "shutdown", "uptime", "free", "alloc", "dealloc"}
OfAName == {"cat", "touch"}
Commands == OfOneWord \cup OfAName \cup {"write"}

\* Among the characters to print: clear_screen, and two calls that do not return,
\* shutdown_qemu and a copy that runs over the stack, after which the program may
\* do anything.
ClearScreen == "clear_screen"
PowerOff == "shutdown_qemu"
StackOverrun == "stack_overrun"
NoReturn == {PowerOff, StackOverrun}

\* The prompt's character is shown, and every text that a command prints ends
\* its line.
ASSUME ShellAssumption ==
  /\ HISTORY_MAX \in Nat \ {0}
  /\ {CMD_SIZE, ARG_SIZE, FILENAME_SIZE, CONTENT_SIZE} \subseteq Nat \ {0}
  /\ Word \in [Commands \cup {"help"} -> Seq(Chars)]
  /\ \A c, d \in Commands \cup {"help"} : Word[c] = Word[d] => c = d
  /\ ">" \in Chars
  /\ ({ClearScreen} \cup NoReturn) \cap Printable = {}
  /\ Lines \subseteq Seq(Printable)
  /\ Replies \subseteq Seq(Printable \cup {Newline, Tab})
  /\ \A t \in Replies : t # <<>> => t[Len(t)] = Newline
  /\ Blocks \subseteq Nat \ {NULL}

VARIABLES
  out,             \* what the call in progress has still to print
  command_buffer,  \* the line up to command_index
  history,         \* its first history_count lines
  history_index,   \* the line of it that was recalled last, -1 for none
  test_ptr,        \* the block of the command alloc, or NULL
  called           \* what the last command called, with what arguments

lineVars == <<command_buffer, history, history_index>>
vars == <<tty, out, lineVars, test_ptr, called>>

Prompt == <<">", Blank>>

Init ==
  /\ tty = clear_screen /\ out = Prompt
  /\ command_buffer = <<>> /\ history = <<>> /\ history_index = -1
  /\ test_ptr = NULL /\ called = <<>>

-----------------------------------------------------------------------------
(* kprint, a character at a time.                                          *)

kprint ==
  /\ out # <<>> /\ Head(out) \notin NoReturn
  /\ tty' = IF Head(out) = ClearScreen THEN clear_screen ELSE kprint_char(tty, Head(out))
  /\ out' = Tail(out)
  /\ UNCHANGED <<lineVars, test_ptr, called>>

-----------------------------------------------------------------------------
(* Typing: whoever calls the shell puts characters into command_buffer and *)
(* takes them out, and shows it on the screen.                             *)

Typed(line) == \E l \in Lines : Len(line) <= Len(l) /\ line = SubSeq(l, 1, Len(line))

Type(c) ==
  /\ out = <<>> /\ Typed(Append(command_buffer, c))
  /\ command_buffer' = Append(command_buffer, c)
  /\ out' = <<c>>
  /\ UNCHANGED <<tty, history, history_index, test_ptr, called>>

Rubout ==
  /\ out = <<>> /\ command_buffer # <<>>
  /\ command_buffer' = SubSeq(command_buffer, 1, Len(command_buffer) - 1)
  /\ out' = <<Backspace>>
  /\ UNCHANGED <<tty, history, history_index, test_ptr, called>>

-----------------------------------------------------------------------------
(* The history's keys.                                                     *)

Backspaces(n) == [i \in 1 .. n |-> Backspace]

\* Fault: the last character is left on the screen.
ReplaceShort(line) ==
  /\ command_buffer' = line
  /\ out' = Backspaces(Len(command_buffer) - 1) \o line
  /\ UNCHANGED <<tty, history, test_ptr, called>>

\* The line on the screen and in the buffer becomes another.
ReplaceLine(line) ==
  /\ command_buffer' = line
  /\ out' = Backspaces(Len(command_buffer)) \o line
  /\ UNCHANGED <<tty, history, test_ptr, called>>

handle_history_up ==
  /\ out = <<>> /\ history # <<>>
  /\ history_index' = IF history_index = -1 THEN Len(history) - 1
                      ELSE IF history_index > 0 THEN history_index - 1
                      ELSE history_index
  /\ ReplaceLine(history[history_index' + 1])

handle_history_down ==
  /\ out = <<>> /\ history_index # -1
  /\ IF history_index + 1 < Len(history)
     THEN history_index' = history_index + 1 /\ ReplaceLine(history[history_index' + 1])
     ELSE history_index' = -1 /\ ReplaceLine(<<>>)

-----------------------------------------------------------------------------
(* process_command.                                                        *)

\* Fault: the blank stays before the argument.
ParseWithBlank(s) ==
  LET n == CHOOSE i \in 1 .. Len(s) + 1 :
             /\ i <= Len(s) => s[i] = Blank
             /\ \A j \in 1 .. i - 1 : s[j] # Blank
  IN  [cmd |-> SubSeq(s, 1, n - 1), arg |-> SubSeq(s, n, Len(s))]

\* The part of s before its first blank, and the part behind it.  They are copied
\* without a limit: see Overrun.
parse_command(s) ==
  LET n == CHOOSE i \in 1 .. Len(s) + 1 :
             /\ i <= Len(s) => s[i] = Blank
             /\ \A j \in 1 .. i - 1 : s[j] # Blank
  IN  [cmd |-> SubSeq(s, 1, n - 1), arg |-> SubSeq(s, n + 1, Len(s))]

\* Fault: a full history loses its newest line, not its oldest.
SavedOver(line) ==
  IF Len(history) < HISTORY_MAX THEN Append(history, line)
  ELSE [history EXCEPT ![HISTORY_MAX] = line]

\* The history with a line more: a full one loses its oldest.
Saved(line) ==
  IF Len(history) < HISTORY_MAX THEN Append(history, line)
  ELSE [i \in 1 .. HISTORY_MAX |-> IF i < HISTORY_MAX THEN history[i + 1] ELSE line]

\* Nothing typed: a new prompt, and no more.
EmptyLine ==
  /\ out = <<>> /\ command_buffer = <<>>
  /\ out' = <<Newline>> \o Prompt
  /\ UNCHANGED <<tty, lineVars, test_ptr, called>>

\* What is done for every command; text is all it prints after the first newline.
Save(text) ==
  /\ out = <<>> /\ command_buffer # <<>>
  /\ history' = Saved(command_buffer) /\ history_index' = -1
  /\ command_buffer' = <<>>
  /\ out' = <<Newline>> \o text
  /\ UNCHANGED tty

Process(text) == Save(text \o Prompt)

\* Both parts have room in arrays of m and n characters, each with its '\0'.
Fits(parts, m, n) == Len(parts.cmd) < m /\ Len(parts.arg) < n

Command == parse_command(command_buffer)
CommandFits == Fits(Command, CMD_SIZE, ARG_SIZE)

\* The name and the text of a write.
File == parse_command(Command.arg)
FileFits == Fits(File, FILENAME_SIZE, CONTENT_SIZE)

Is(c) == CommandFits /\ command_buffer # Word["help"] /\ Command.cmd = Word[c]

\* A part that is too long is copied over what is behind its array.  Every line is
\* parsed, and behind write also its argument.
Overrun ==
  /\ ~CommandFits \/ (Is("write") /\ ~FileFits)
  /\ Save(<<StackOverrun>>)
  /\ called' = <<>> /\ UNCHANGED test_ptr

\* A command that prints, and changes nothing of the shell's own.
Answer(callee) ==
  /\ \E text \in Replies : Process(text)
  /\ called' = callee
  /\ UNCHANGED test_ptr

CmdHelp == CommandFits /\ command_buffer = Word["help"] /\ Answer(<<>>)

CmdPlain ==
  \E c \in OfOneWord \ {"clear", "shutdown", "alloc", "dealloc"} : Is(c) /\ Answer(<<c>>)

CmdClear ==
  /\ Is("clear") /\ Process(<<ClearScreen>>)
  /\ called' = <<"clear">> /\ UNCHANGED test_ptr

\* Without a name there is a hint how to use the command.
CmdName ==
  \E c \in OfAName :
    Is(c) /\ Answer(IF Command.arg = <<>> THEN <<>> ELSE <<c, Command.arg>>)

\* Without a name and a text behind it there is a hint, too.
CmdWrite ==
  /\ Is("write") /\ FileFits
  /\ Answer(IF File.arg = <<>> THEN <<>> ELSE <<"write", File.cmd, File.arg>>)

CmdShutdown ==
  /\ Is("shutdown") /\ \E text \in Replies : Save(text \o <<PowerOff>>)
  /\ called' = <<"shutdown">> /\ UNCHANGED test_ptr

CmdAlloc ==
  /\ Is("alloc")
  /\ IF test_ptr # NULL
     THEN test_ptr' = test_ptr /\ called' = <<>>
     ELSE test_ptr' \in Blocks \cup {NULL} /\ called' = <<"kmalloc">>
  /\ IF test_ptr = NULL /\ test_ptr' = NULL
     THEN Process(<<>>)
     ELSE \E text \in Replies : Process(text)

CmdDealloc ==
  /\ Is("dealloc")
  /\ \E text \in Replies : Process(text)
  /\ test_ptr' = NULL
  /\ called' = IF test_ptr = NULL THEN <<>> ELSE <<"kfree", test_ptr>>

CmdUnknown ==
  /\ CommandFits /\ command_buffer # Word["help"] /\ \A c \in Commands : ~Is(c)
  /\ Process(command_buffer \o <<Newline>>)
  /\ called' = <<>> /\ UNCHANGED test_ptr

process_command ==
  \/ EmptyLine \/ Overrun \/ CmdHelp \/ CmdPlain \/ CmdClear \/ CmdName
  \/ CmdWrite \/ CmdShutdown \/ CmdAlloc \/ CmdDealloc \/ CmdUnknown

User == Rubout \/ \E c \in Printable : Type(c)

Next == kprint \/ User \/ handle_history_up \/ handle_history_down \/ process_command

Spec == Init /\ [][Next]_vars

-----------------------------------------------------------------------------
(* Properties.                                                             *)

Letters == Printable \cup {Newline, Tab, Backspace, ClearScreen} \cup NoReturn

TypeOK ==
  /\ TtyTypeOK
  /\ out \in Seq(Letters)
  /\ command_buffer \in Seq(Printable)
  /\ history \in Seq(Seq(Printable)) /\ Len(history) <= HISTORY_MAX
  /\ \A i \in 1 .. Len(history) : history[i] # <<>>
  /\ history_index \in -1 .. Len(history) - 1
  /\ test_ptr \in Blocks \cup {NULL}

\* When a call has printed all it had to, the row of the cursor shows the prompt
\* and the line in the buffer, and the cursor is behind it: what is edited is
\* what is seen, after any commands, recalls and rubouts, and scrolling
\* (shell.c:82-111, tty.c:52-58).
LineShown ==
  out = <<>> =>
    LET shown == Prompt \o command_buffer
    IN  /\ tty.x = Len(shown)
        /\ \A i \in 1 .. Len(shown) : tty.video[tty.y][i - 1] = shown[i]

\* What makes LineShown hold: wherever a call is in its printing, what is still to
\* print brings the row back to the prompt and the line.

\* The lines that may be edited fit a row with the prompt; a backspace stops at
\* or in front of the prompt's end.
LinesFitRow == \A l \in Lines \cup {<<>>} : Len(Prompt) + Len(l) < VGA_WIDTH
PromptErasable == Margin <= Len(Prompt)

EditLine == Prompt \o command_buffer

\* n characters are to be erased; of those left, k are the first of the line.
BackToLine(n, k) ==
  /\ n > 0 => k >= Len(Prompt)
  /\ Len(LineOf(tty)) = k + n
  /\ \A i \in 1 .. k : LineOf(tty)[i] = EditLine[i]
  /\ out = [i \in 1 .. n + Len(EditLine) - k |->
             IF i <= n THEN Backspace ELSE EditLine[k + i - n]]

\* At the end of out there is a prompt, at the start of a row.
NewPromptAhead ==
  LET rest == Len(out) - 2
  IN  /\ command_buffer = <<>> /\ rest > 0
      /\ out[rest] \in {Newline, ClearScreen}
      /\ out[rest + 1] = Prompt[1] /\ out[rest + 2] = Prompt[2]

NoReturnAhead == out # <<>> /\ out[Len(out)] \in NoReturn

LineAhead ==
  \/ NoReturnAhead
  \/ NewPromptAhead
  \/ \E n \in 0 .. Len(out), k \in 0 .. Len(EditLine) : BackToLine(n, k)

FitRow ==
  /\ Len(EditLine) < VGA_WIDTH
  /\ \A i \in 1 .. Len(history) : Len(Prompt) + Len(history[i]) < VGA_WIDTH

LineInv == FitRow /\ LineAhead

\* The line that asks for a call on files, with what arguments.
Asking(call) ==
  LET name == Word[call[1]] \o <<Blank>> \o call[2]
  IN  IF call[1] = "write" THEN name \o <<Blank>> \o call[3] ELSE name

\* An argument fits the array that it was copied to.
ArgumentsFit(call) ==
  IF call[1] = "write"
  THEN Len(call[2]) < FILENAME_SIZE /\ Len(call[3]) < CONTENT_SIZE
  ELSE Len(call[2]) < ARG_SIZE

\* A command on files is called with its arguments as they were typed, which put
\* together again are the line, and only if they fit; and no copy runs over the
\* stack for a line that is shorter than each of the arrays (shell.c:62-71, 131
\* and 173-200).
CallsAsTyped ==
  [][process_command /\ command_buffer # <<>> =>
       /\ called' # <<>> /\ called'[1] \in OfAName \cup {"write"} =>
            command_buffer = Asking(called') /\ ArgumentsFit(called')
       /\ out'[Len(out')] = StackOverrun =>
            \E size \in {CMD_SIZE, ARG_SIZE, FILENAME_SIZE, CONTENT_SIZE} :
              Len(command_buffer) >= size]_vars

\* The keys recall the last commands, oldest and newest at the ends, whatever is
\* typed and entered in between (shell.c:82-129).
Log == INSTANCE CommandLog WITH
         Size <- HISTORY_MAX, Chars <- Printable,
         log <- history, line <- command_buffer,
         back <- IF history_index = -1 THEN 0 ELSE Len(history) - history_index

RefinesCommandLog == Log!Spec
=============================================================================
