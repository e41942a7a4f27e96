------------------------------ MODULE Console -------------------------------
(***************************************************************************)
(* The command line of the console (kernel/console.c, console_poll): a     *)
(* character array with a length, a cursor and a terminator, edited in     *)
(* place by shifting loops, and the history of earlier lines.              *)
(*                                                                         *)
(* Every action handles one key event with pressed set; the others change  *)
(* nothing.  What the line that is run does is left open, except that it   *)
(* may change the length of the prompt, which shows the working directory. *)
(***************************************************************************)
EXTENDS Integers, FiniteSetsExt, SequencesExt

CONSTANTS
  Char,            \* the printable characters that are typed
  Space,           \* the one Tab inserts
  NUL,             \* the terminator
  Lower,           \* lower case of each character, as in console_streq
  COMMAND_MAX,
  HISTORY_MAX,
  PromptColumns    \* the lengths of "MinOS:<cwd>> " that occur

ASSUME ConsoleAssumption ==
  /\ Space \in Char /\ NUL \notin Char /\ Lower \in [Char -> Char]
  /\ COMMAND_MAX \in Nat \ {0} /\ HISTORY_MAX \in Nat \ {0}
  /\ PromptColumns \subseteq Nat

Position == 0 .. COMMAND_MAX

VARIABLES
  command, command_length, command_cursor,
  history,         \* the entries in use, newest first; history_count is its length
  history_index,
  prompt_columns,  \* console_prompt_columns()
  last             \* the last line run that was not empty (for RecallsLast only)

edited == <<command, command_length, command_cursor>>
vars   == <<edited, history, history_index, prompt_columns, last>>

(* The C string an array holds: what is drawn, run and put into history.   *)
Text(buf) == LET n == Min({k \in Position : buf[k] = NUL})
             IN  [k \in 1 .. n |-> buf[k - 1]]

-----------------------------------------------------------------------------
(* Mutant of Inserted: the old tail is left in front of the terminator.    *)
InsertedUnterminated(c, n) ==
  [k \in Position |->
     IF k < command_cursor \/ k >= command_length + n THEN command[k]
     ELSE IF k < command_cursor + n THEN c ELSE command[k - n]]

(* The array after the tail has been shifted by n and n times c put at the *)
(* cursor.                                                                 *)
Inserted(c, n) ==
  [k \in Position |->
     IF k < command_cursor \/ k > command_length + n THEN command[k]
     ELSE IF k = command_length + n THEN NUL
     ELSE IF k < command_cursor + n THEN c ELSE command[k - n]]

(* Mutant of Insert: the cursor stays in front of what was inserted.       *)
InsertStays(c, n) ==
  /\ command' = Inserted(c, n)
  /\ command_length' = command_length + n
  /\ UNCHANGED <<command_cursor, history, history_index, prompt_columns, last>>

Insert(c, n) ==
  /\ command' = Inserted(c, n)
  /\ command_cursor' = command_cursor + n
  /\ command_length' = command_length + n
  /\ UNCHANGED <<history, history_index, prompt_columns, last>>

Type(c) == command_length < COMMAND_MAX /\ Insert(c, 1)

(* Up to the next multiple of four columns behind the prompt's seventh;    *)
(* cursor_column is prompt_columns + command_cursor when a key is handled. *)
Spaces == 4 - ((prompt_columns + command_cursor - 7) % 4)

(* Mutant of Tab: the spaces may run past COMMAND_MAX.                     *)
TabUncut == Insert(Space, Spaces)
Tab      == Insert(Space, Min({Spaces, COMMAND_MAX - command_length}))

Backspace ==
  /\ command_cursor > 0
  /\ command' = [k \in Position |->
                   IF k >= command_cursor - 1 /\ k < command_length
                   THEN command[k + 1] ELSE command[k]]
  /\ command_cursor' = command_cursor - 1
  /\ command_length' = command_length - 1
  /\ UNCHANGED <<history, history_index, prompt_columns, last>>

MoveTo(n) ==
  /\ command_cursor' = n
  /\ UNCHANGED <<command, command_length, history, history_index, prompt_columns, last>>

Left  == command_cursor > 0 /\ MoveTo(command_cursor - 1)
Right == command_cursor < command_length /\ MoveTo(command_cursor + 1)
CtrlA == MoveTo(0)
CtrlE == MoveTo(command_length)

(* The line ends at position n from now on, and the cursor is there.       *)
CutAt(n) ==
  /\ command' = [command EXCEPT ![n] = NUL]
  /\ command_length' = n /\ command_cursor' = n

CtrlU == CutAt(0) /\ UNCHANGED <<history, history_index, prompt_columns, last>>
CtrlK == CutAt(command_cursor) /\ UNCHANGED <<history, history_index, prompt_columns, last>>

-----------------------------------------------------------------------------
(* History.                                                                *)

console_set_command(text) ==
  /\ command' = [k \in Position |-> IF k < Len(text) THEN text[k + 1]
                                    ELSE IF k = Len(text) THEN NUL ELSE command[k]]
  /\ command_length' = Len(text) /\ command_cursor' = Len(text)

Up ==
  /\ history # << >>
  /\ history_index' = Min({history_index + 1, Len(history)})
  /\ console_set_command(history[history_index'])
  /\ UNCHANGED <<history, prompt_columns, last>>

Down ==
  /\ history_index > 0
  /\ history_index' = history_index - 1
  /\ console_set_command(IF history_index' > 0 THEN history[history_index'] ELSE << >>)
  /\ UNCHANGED <<history, prompt_columns, last>>

console_streq(s, t) == /\ Len(s) = Len(t)
                       /\ \A i \in 1 .. Len(s) : Lower[s[i]] = Lower[t[i]]

(* Mutant of console_add_history: the newest line goes to the end.         *)
console_add_historyLast(line) ==
  history' = IF line = << >> THEN history
             ELSE SubSeq(Append(history, line), 1, Min({Len(history) + 1, HISTORY_MAX}))

(* Empty lines are not kept, nor a line equal to the last array entry,     *)
(* which is the oldest one; otherwise the entries move up by one.          *)
console_add_history(line) ==
  history' = IF line = << >> \/ (history # << >> /\ console_streq(Last(history), line))
             THEN history
             ELSE SubSeq(<<line>> \o history, 1, Min({Len(history) + 1, HISTORY_MAX}))

(* console_command and the console_prompt that ends it.                    *)
Enter ==
  LET line == Text([command EXCEPT ![command_length] = NUL])
  IN  /\ console_add_history(line)
      /\ last' = IF line = << >> THEN last ELSE line
      /\ CutAt(0)
      /\ history_index' = 0
      /\ prompt_columns' \in PromptColumns

Init ==
  /\ command = [k \in Position |-> NUL] /\ command_length = 0 /\ command_cursor = 0
  /\ history = << >> /\ history_index = 0
  /\ prompt_columns \in PromptColumns /\ last = << >>

Next ==
  \/ \E c \in Char : Type(c)
  \/ Tab \/ Backspace \/ Left \/ Right \/ CtrlA \/ CtrlE \/ CtrlU \/ CtrlK
  \/ Up \/ Down \/ Enter

Spec == Init /\ [][Next]_vars

-----------------------------------------------------------------------------
Line == UNION {[1 .. n -> Char] : n \in 0 .. COMMAND_MAX}

(* The type invariant: no key moves an index past the arrays, and no       *)
(* history entry is longer than a command.                                 *)
TypeOK ==
  /\ command \in [Position -> Char \union {NUL}]
  /\ command_length \in Position /\ command_cursor \in 0 .. command_length
  /\ history \in Seq(Line) /\ Len(history) <= HISTORY_MAX
  /\ history_index \in 0 .. Len(history)
  /\ prompt_columns \in PromptColumns /\ last \in Line

(* command_length and the terminator agree: the array is the C string that *)
(* redrawing and running it take it for, with nothing cut off and nothing  *)
(* stale behind it.  Every editing loop must carry the terminator along.   *)
LineIsString ==
  /\ command[command_length] = NUL
  /\ \A k \in 0 .. command_length - 1 : command[k] # NUL

Editor == INSTANCE LineEditor WITH
            left  <- SubSeq(Text(command), 1, command_cursor),
            right <- SubSeq(Text(command), command_cursor + 1, Len(Text(command))),
            past  <- history, LineMax <- COMMAND_MAX, PastMax <- HISTORY_MAX

(* Whatever the order of keys, the array and its indices behave as a text  *)
(* with a cursor in it and a list of earlier lines: no key changes a       *)
(* character it is not meant to change.                                    *)
Implements == Editor!Spec

(* The first Up after a line was run brings that line back, though edits   *)
(* and moves may have come in between, unless the line is the oldest one   *)
(* in the history over again, case aside: the test against repeating the   *)
(* previous line looks at the wrong end of the array.                      *)
RecallsLast ==
  [][history_index = 0 /\ history_index' = 1 /\ last # << >>
       => Text(command') = last \/ console_streq(Last(history), last)]_vars
=============================================================================
