------------------------------- MODULE Shell -------------------------------
(***************************************************************************)
(* The shell's line editor and command history (terminal/shell.rs), driven *)
(* by the terminal task of kernel_main, which hands it one decoded key per *)
(* turn.  What the editor prints is left out.                              *)
(***************************************************************************)
EXTENDS Integers, Sequences, SequencesExt

CONSTANTS
  Chars,            \* the printable characters
  Blank,            \* the one of them that separates words
  UsageErrors,      \* lines whose command lacks an argument it needs
  MAX_LINE_LENGTH,
  MAX_HISTORY

ASSUME ShellAssumption ==
  /\ MAX_LINE_LENGTH \in Nat \ {0} /\ MAX_HISTORY \in Nat \ {0}
  /\ Blank \in Chars

VARIABLES
  terminal,  \* Terminal: input_buffer, cursor, history, history_index, saved_input
  command    \* what handle_key returned last: the line of a command, or <<>>

vars == <<terminal, command>>

None == -1

Init ==
  /\ terminal = [input_buffer |-> <<>>, cursor |-> 0, history |-> <<>>,
                 history_index |-> None, saved_input |-> <<>>]
  /\ command = <<>>

-----------------------------------------------------------------------------
(* Terminal's methods, as functions of the terminal t.                      *)

\* Show `line`, the cursor behind it.
Load(t, line) == [t EXCEPT !.input_buffer = line, !.cursor = Len(line)]

\* Mutant: the bound is a strict one.
AddToHistoryLate(t, line) ==
  LET kept == IF Len(t.history) > MAX_HISTORY THEN Tail(t.history) ELSE t.history
  IN  IF t.history # <<>> /\ Last(t.history) = line THEN t
      ELSE [t EXCEPT !.history = Append(kept, line)]

\* A repeated line is not added; the oldest makes room.
add_to_history(t, line) ==
  LET kept == IF Len(t.history) >= MAX_HISTORY THEN Tail(t.history) ELSE t.history
  IN  IF t.history # <<>> /\ Last(t.history) = line THEN t
      ELSE [t EXCEPT !.history = Append(kept, line)]

\* Command::parse: every word is a command, known or not, unless its arguments are wrong.
parse(line) == line \notin UsageErrors

\* Does the line make a command?
parse_command(line) == (\E i \in DOMAIN line : line[i] # Blank) /\ parse(line)

Enter(t) ==
  LET added == IF t.input_buffer = <<>> THEN t ELSE add_to_history(t, t.input_buffer)
  IN  [added EXCEPT !.input_buffer = <<>>, !.cursor = 0, !.history_index = None]

Backspace(t) ==
  IF t.cursor = 0 THEN t
  ELSE [t EXCEPT !.input_buffer = RemoveAt(@, t.cursor), !.cursor = @ - 1]

Insert(t, c) ==
  IF Len(t.input_buffer) >= MAX_LINE_LENGTH THEN t
  ELSE [t EXCEPT !.input_buffer = InsertAt(@, t.cursor + 1, c), !.cursor = @ + 1]

ArrowLeft(t) == IF t.cursor > 0 THEN [t EXCEPT !.cursor = @ - 1] ELSE t

ArrowRight(t) == IF t.cursor < Len(t.input_buffer) THEN [t EXCEPT !.cursor = @ + 1] ELSE t

Home(t) == [t EXCEPT !.cursor = 0]

End(t) == [t EXCEPT !.cursor = Len(t.input_buffer)]

\* Mutant: deleting moves the cursor, as backspace does.
DeleteMoving(t) ==
  IF t.cursor >= Len(t.input_buffer) THEN t
  ELSE [t EXCEPT !.input_buffer = RemoveAt(@, t.cursor + 1), !.cursor = @ - 1]

Delete(t) ==
  IF t.cursor >= Len(t.input_buffer) THEN t
  ELSE [t EXCEPT !.input_buffer = RemoveAt(@, t.cursor + 1)]

\* Mutant: the line is saved on every step up.
HistoryUpSaving(t) ==
  LET newest == Len(t.history) - 1
      idx == IF t.history_index = None THEN newest ELSE t.history_index - 1
  IN  IF t.history = <<>> \/ t.history_index = 0 THEN t
      ELSE [Load(t, t.history[idx + 1]) EXCEPT !.history_index = idx, !.saved_input = t.input_buffer]

\* The first step up saves the line; there is none beyond the oldest entry.
history_up(t) ==
  LET newest == Len(t.history) - 1
      idx == IF t.history_index = None THEN newest ELSE t.history_index - 1
      saved == IF t.history_index = None THEN t.input_buffer ELSE t.saved_input
  IN  IF t.history = <<>> \/ t.history_index = 0 THEN t
      ELSE [Load(t, t.history[idx + 1]) EXCEPT !.history_index = idx, !.saved_input = saved]

\* The step down from the newest entry brings the saved line back.
history_down(t) ==
  IF t.history_index = None THEN t
  ELSE IF t.history_index + 1 >= Len(t.history)
       THEN [Load(t, t.saved_input) EXCEPT !.history_index = None]
       ELSE [Load(t, t.history[t.history_index + 2]) EXCEPT !.history_index = @ + 1]

-----------------------------------------------------------------------------
(* A turn of the terminal task with a key: handle_key, by its cases.        *)

EnterKey ==
  /\ terminal' = Enter(terminal)
  /\ command' = IF parse_command(terminal.input_buffer) THEN terminal.input_buffer ELSE <<>>

CharKey(c) == terminal' = Insert(terminal, c) /\ command' = <<>>

\* Keys that do nothing, like Tab, are left out.
EditKey ==
  /\ \/ terminal' = Backspace(terminal)
     \/ terminal' = Delete(terminal)
     \/ terminal' = ArrowLeft(terminal)
     \/ terminal' = ArrowRight(terminal)
     \/ terminal' = Home(terminal)
     \/ terminal' = End(terminal)
  /\ command' = <<>>

HistoryKey ==
  /\ \/ terminal' = history_up(terminal)
     \/ terminal' = history_down(terminal)
  /\ command' = <<>>

Next ==
  \/ EnterKey
  \/ \E c \in Chars : CharKey(c)
  \/ EditKey
  \/ HistoryKey

Spec == Init /\ [][Next]_vars

-----------------------------------------------------------------------------
(* Properties.                                                              *)

\* String::insert, String::remove and the history's indexing never panic: the
\* cursor stays within the line, whichever line was loaded from the history, the
\* line within its limit, and the place in the history within the history.
NeverPanics ==
  /\ terminal.input_buffer \in Seq(Chars) /\ terminal.saved_input \in Seq(Chars)
  /\ Len(terminal.input_buffer) <= MAX_LINE_LENGTH
  /\ Len(terminal.saved_input) <= MAX_LINE_LENGTH
  /\ terminal.cursor \in 0..Len(terminal.input_buffer)
  /\ terminal.history_index \in {None} \cup 0..(Len(terminal.history) - 1)

\* The history keeps the latest lines, at most MAX_HISTORY of them, none twice in
\* a row and none empty.  Only Enter changes it: a line that is entered becomes its
\* newest entry, whether or not it is a command, at the cost of the oldest alone,
\* and a command that is handed on is the line that was typed and recorded.
HistoryIsARecord ==
  [][LET h == terminal.history
         new == terminal'.history
         line == terminal.input_buffer
     IN  /\ Len(new) <= MAX_HISTORY
         /\ \A i \in 1..Len(new) - 1 : new[i] # new[i + 1]
         /\ \A i \in DOMAIN new : new[i] # <<>>
         /\ new # h => EnterKey /\ line # <<>>
         /\ EnterKey /\ line # <<>> => Last(new) = line
         /\ command' # <<>> => command' = line /\ Last(new) = line
         /\ new # h => \/ Front(new) = h
                       \/ Len(h) = MAX_HISTORY /\ Front(new) = Tail(h)]_vars

\* The terminal after 0 to n steps up, and down, in the history.
Ups(t, n) ==
  LET up[k \in 0..n] == IF k = 0 THEN t ELSE history_up(up[k - 1]) IN up
Downs(t, n) ==
  LET down[k \in 0..n] == IF k = 0 THEN t ELSE history_down(down[k - 1]) IN down

\* Looking back never loses the line being typed: from it, any number of steps up
\* and as many down lead back to it.
LookingBackIsSafe ==
  terminal.history_index = None =>
    \A k \in 0..Len(terminal.history) :
      LET t == Downs(Ups(terminal, k)[k], k)[k]
      IN  t.input_buffer = terminal.input_buffer /\ t.history_index = None
============================================================================
