------------------------------ MODULE Terminal ------------------------------
(***************************************************************************)
(* The text screen and the line editor of kernel/kernel.c, as functions on *)
(* a record: where the next output goes, how long the command line is, and *)
(* what each row of the screen shows.  A text is known by the cells it     *)
(* takes; a row by whose text is on it.                                    *)
(***************************************************************************)
EXTENDS Integers, Sequences, SequencesExt

CONSTANTS
    ROWS, COLUMNS, MAX_COMMAND_LENGTH,
    ShellRow   (* the cursor's row when kernel_main starts the shell       *)

ASSUME TerminalAssumption ==
    /\ ROWS \in Nat \ {0} /\ COLUMNS \in Nat /\ COLUMNS > 6
    /\ MAX_COMMAND_LENGTH \in Nat \ {0}
    /\ ShellRow \in 0 .. ROWS - 1

Rows == 0 .. ROWS - 1

(* A screen lists its rows from the top: row r is screen[r + 1]. *)

(* blank; output: printed by the command run last; old: by one before it,  *)
(* or at boot; line: a prompt with its command line. *)
Shown == {"blank", "output", "old", "line"}

(* cursor_row, cursor_col, command_length, the screen, and as history: did *)
(* the last prompt cover output of the command just run, and how many rows *)
(* did that command's tallest text have. *)
BootScreen == [row |-> ShellRow, col |-> 0, len |-> 0,
               screen |-> [i \in 1 .. ROWS |-> IF i <= ShellRow THEN "old" ELSE "blank"],
               covered |-> FALSE, tallest |-> 0]

(* scroll_screen *)
Scrolled(t) == [t EXCEPT !.screen = Append(Tail(@), "blank"), !.row = ROWS - 1]

-----------------------------------------------------------------------------
(* k_print_string: a text of n rows from row r, each but the last, or the  *)
(* last too if "ended", followed by a newline or a wrap.  Only a scroll    *)
(* moves cursor_row; it does, and the text goes on in the last row.        *)
OnScreen(s) == IF s.r >= ROWS THEN [t |-> Scrolled(s.t), r |-> ROWS - 1] ELSE s

Marked(s, who) == LET u == OnScreen(s) IN [u EXCEPT !.t.screen[u.r + 1] = who]

NextRow(s) == OnScreen([s EXCEPT !.r = @ + 1])

Printed(t, r, n, ended, who) ==
    LET print[i \in 0 .. n] ==
            IF i = 0 THEN [t |-> t, r |-> r]
            ELSE IF i < n \/ ended THEN NextRow(Marked(print[i - 1], who))
            ELSE Marked(print[i - 1], who)
    IN  print[n].t

(* A part of the prompt: n cells from column c, which wrap at the last     *)
(* one.  The ">" may begin beyond the row: it is not shown, and wraps.     *)
PrintedCells(t, c, n) ==
    IF c >= COLUMNS THEN NextRow([t |-> t, r |-> t.row]).t
    ELSE Printed(t, t.row, 1 + (c + n - 1) \div COLUMNS, (c + n) % COLUMNS = 0, "line")

-----------------------------------------------------------------------------
(* What a command does to the screen: a sequence of cursor_row++ and texts *)
(* printed at the cursor's row. *)
Down          == [move |-> "down", rows |-> 0, ended |-> FALSE]
Line          == [move |-> "text", rows |-> 1, ended |-> FALSE]
Listing(rows) == [move |-> "text", rows |-> rows, ended |-> TRUE]
Cells(n)      == [move |-> "text", rows |-> 1 + n \div COLUMNS, ended |-> n % COLUMNS = 0]

(* One of them. *)
Put(t, s) ==
    IF s.move = "down" THEN [t EXCEPT !.row = @ + 1]
    ELSE [Printed(t, t.row, s.rows, s.ended, "output")
              EXCEPT !.tallest = IF s.rows > @ THEN s.rows ELSE @]

Output(t, steps) ==
    LET after[i \in 0 .. Len(steps)] == IF i = 0 THEN t ELSE Put(after[i - 1], steps[i])
    IN  after[Len(steps)]

(* The "clear" command: -2 "forces the prompt to be at the top". *)
Cleared(t) == [t EXCEPT !.screen = [i \in 1 .. ROWS |-> "blank"], !.row = -2, !.col = 0]

(* update_cursor *)
CursorUpdated(t) ==
    LET u == IF t.row >= ROWS THEN Scrolled(t) ELSE t
        v == [u EXCEPT !.col = 0, !.row = @ + 1]
    IN  IF u.col < COLUMNS THEN u
        ELSE IF v.row >= ROWS THEN Scrolled(v) ELSE v

(* mutant: the prompt's row is not brought onto the screen *)
PromptUnscrolled(t, dir_length) ==
    LET u == [t EXCEPT !.row = @ + 1]
    IN  [u EXCEPT !.col = 6 + dir_length]

(* print_shell_prompt: "aceOS", the current directory, ">".                *)
Prompt(t, dir_length) ==
    LET down == [t EXCEPT !.row = @ + 1]
        u    == IF down.row >= ROWS THEN Scrolled(down) ELSE down
        v    == PrintedCells(PrintedCells(u, 0, 5), 5, dir_length)
        w    == PrintedCells(v, 5 + dir_length, 1)
    IN  CursorUpdated([w EXCEPT !.col = 6 + dir_length, !.covered = (u.screen[u.row + 1] = "output")])

(* What was output becomes old when the next command line is entered.      *)
Aged(t) == [t EXCEPT !.screen = ReplaceAll(@, "output", "old"),
                     !.tallest = 0]

(* mutant: keeps the row on the screen where it should scroll *)
NextPromptClamped(t, dir_length) ==
    Prompt([t EXCEPT !.row = IF @ + 1 < ROWS THEN @ + 1 ELSE ROWS - 2, !.col = 0, !.len = 0], dir_length)

(* The end of process_command and of the newline: a line down, the prompt, *)
(* and an empty buffer.  dir_length is the current directory's by then.    *)
NextPrompt(t, dir_length) ==
    Prompt([t EXCEPT !.row = @ + 1, !.col = 0, !.len = 0], dir_length)

-----------------------------------------------------------------------------
(* terminal_putchar. *)

(* A regular character, if the buffer and the row have room; a tab, which  *)
(* is ignored, leaves what a character without room leaves.                *)
Typed(t) ==
    IF t.len < MAX_COMMAND_LENGTH - 1 /\ t.col < COLUMNS - 1
    THEN CursorUpdated([t EXCEPT !.len = @ + 1, !.col = @ + 1])
    ELSE CursorUpdated(t)

(* mutant: forgets the directory in the prompt *)
PromptLengthFixed(dir_length) == 6 + 2

(* "aceOS " + current_dir + "> ": two cells more than the prompt has.      *)
PromptLength(dir_length) == 6 + dir_length + 2

(* Backspace. *)
Erased(t, dir_length) ==
    IF t.col > PromptLength(dir_length) - 1
    THEN CursorUpdated([t EXCEPT !.len = @ - 1, !.col = @ - 1])
    ELSE CursorUpdated(t)
=============================================================================
