------------------------------- MODULE Shell -------------------------------
(***************************************************************************)
(* The shell (kernel/kernel.c): characters edit a command line on the      *)
(* screen, Enter runs the command on the filesystem and in the current     *)
(* directory, and prints its output and the next prompt.  The main loop    *)
(* hands it one character at a time and no handler touches its state, so   *)
(* each character is one step.                                             *)
(*                                                                         *)
(* A command line is its length and, when it is entered, any command: the  *)
(* names are short.  The history is written and never read.                *)
(***************************************************************************)
EXTENDS FileSystem, Terminal

CONSTANTS Inputs   (* the names a user types: parts, which an extra slash   *)
                   (* leaves empty, after a leading slash or not            *)

ASSUME ShellAssumption ==
    /\ Inputs \subseteq [abs : BOOLEAN, parts : Seq(Names \cup {NoName})]
    /\ \A p \in Inputs : IF p.parts = <<>> THEN p.abs ELSE \E i \in DOMAIN p.parts : p.parts[i] # NoName

VARIABLES
    cwd,   (* current_directory, as the parts between its slashes; "/" is <<>> *)
    term   (* the screen and the command line *)

shellVars == <<fs, reply, cwd, term>>

(* strlen(current_directory) when every name is one character long.        *)
DirLength(d) == IF d = <<>> THEN 1
                ELSE Len(d) + Cardinality({i \in DOMAIN d : d[i] # NoName})

(* What fs_parse_path makes of a path: it skips empty parts. *)
Clean(parts) ==
    LET kept[i \in 0 .. Len(parts)] ==
            IF i = 0 THEN <<>>
            ELSE IF parts[i] = NoName THEN kept[i - 1] ELSE Append(kept[i - 1], parts[i])
    IN  kept[Len(parts)]

(* The path string cd, touch, cat and write put together from a name.      *)
Joined(p) == IF p.abs THEN p.parts ELSE cwd \o p.parts

(* The path a command looks for: the others pass the name on as it is, and *)
(* fs.c begins every path at the root. *)
Joins == {"cd", "touch", "cat", "write"}
PathFor(command, p) == Clean(IF command \in Joins THEN Joined(p) ELSE p.parts)

-----------------------------------------------------------------------------
(* The commands: the filesystem and the current directory after, and what  *)
(* the command prints.  No answer of the filesystem outlives its command.  *)
Ran(f, d, out) == [fs |-> f, cwd |-> d, out |-> out]

Says(rows) == Ran(fs, cwd, rows)

OneLine == <<Down, Line>>

(* A call that changes the filesystem; success and failure print one line. *)
Did(res) == Ran(res.fs, cwd, OneLine)

MkdirCommand(p) == Did(Mkdir(fs, PathFor("mkdir", p)))
Rm(p)           == Did(Delete(fs, PathFor("rm", p)))
Touch(p)        == Did(Create(fs, PathFor("touch", p), 0, TRUE))

WriteCommand(p, data, ok) == Did(Write(fs, PathFor("write", p), data, Len(data), ok))

Cp(p, q, m) == Did(Copy(fs, PathFor("cp", p), PathFor("cp", q), m[1], m[2]))
Mv(p, q, m) == Did(Move(fs, PathFor("mv", p), PathFor("mv", q), m[1], m[2]))

Changes ==
    {MkdirCommand(p) : p \in Inputs} \cup {Rm(p) : p \in Inputs} \cup {Touch(p) : p \in Inputs} \cup
    {WriteCommand(p, d, ok) : p \in Inputs, d \in Data, ok \in BOOLEAN} \cup
    {Cp(p, q, m) : p, q \in Inputs, m \in Mallocs} \cup {Mv(p, q, m) : p, q \in Inputs, m \in Mallocs}

(* cat *)
Cat(p) == Says(IF Read(fs, PathFor("cat", p)).ok THEN OneLine \o OneLine ELSE OneLine)

(* The slot fs_list_dir and fs_tree find for a path, or NOT_FOUND.         *)
SlotAt(path) ==
    LET i == Find(fs, path)
        s == SlotsNamed(fs, fs.files[i].name, fs.files[i].parent)
    IN  IF path = <<>> THEN 0
        ELSE IF i < 0 \/ fs.files[i].type # DIR \/ s = {} THEN NOT_FOUND
        ELSE Smallest(s)

(* fs_list_dir: a row for each entry, or NOT_FOUND. *)
ListDir(path) == IF SlotAt(path) = NOT_FOUND THEN NOT_FOUND ELSE Len(fs.dirs[SlotAt(path)].files)

(* ls; of the current directory if no name is given. *)
Ls(path) == Says(IF ListDir(path) > 0 THEN <<Down, Listing(ListDir(path))>> ELSE OneLine)

(* The slots at and below slot k: a slot's parent is an earlier one.       *)
Below(k) ==
    {s \in Used(fs) :
        LET up[n \in 0 .. FS_MAX_DIRECTORIES] == IF n = 0 THEN s ELSE fs.dirs[up[n - 1]].parent
        IN  \E n \in DOMAIN up : up[n] = k}

(* fs_tree: "/" and a row for every entry below, ten levels deep at most;  *)
(* nothing for a path that is no directory. *)
TreeRows(path) ==
    IF SlotAt(path) = NOT_FOUND THEN 0
    ELSE 1 + Cardinality(UNION {ToSet(fs.dirs[s].files) : s \in Below(SlotAt(path))})

(* tree: a heading, and the rows. *)
TreeCommand(path) ==
    Says(OneLine \o IF TreeRows(path) = 0 THEN <<Down>> ELSE <<Down, Listing(TreeRows(path))>>)

(* fs_find_by_name: a row for each entry, or one to say there is none.     *)
FoundRows(name) ==
    LET found == {i \in 0 .. fs.file_count - 1 : fs.files[i].name = name}
    IN  IF found = {} THEN 1 ELSE Cardinality(found)

(* find *)
FindCommand(name) == Says(OneLine \o <<Down, Listing(FoundRows(name))>>)

(* stat *)
Stat(path) == Says(IF Find(fs, path) = NOT_FOUND THEN OneLine
                   ELSE OneLine \o OneLine \o OneLine \o OneLine)

(* mutant: a file will do *)
ChangeDirUnchecked(p) ==
    LET d == Joined(p)
    IN  IF d = <<>> \/ Find(fs, PathFor("cd", p)) >= 0
        THEN Ran(fs, d, OneLine)
        ELSE Says(OneLine)

(* cd: the path is kept as it was put together, extra slashes included.    *)
ChangeDir(p) ==
    LET d == Joined(p)
        i == Find(fs, PathFor("cd", p))
    IN  IF d = <<>> \/ (i >= 0 /\ fs.files[i].type = DIR)
        THEN Ran(fs, d, OneLine)
        ELSE Says(OneLine)

(* cd ..: the path is cut at its last slash, and not looked up.  What a    *)
(* slash at the front leaves is the root's name. *)
ChangeDirUp ==
    LET up == IF cwd = <<>> THEN <<>> ELSE Front(cwd)
    IN  Ran(fs, IF up = <<NoName>> THEN <<>> ELSE up, OneLine)

(* help, of 27 lines: those that fill the screen leave what they all leave.*)
Help ==
    LET lines == IF ROWS < 27 THEN ROWS + 1 ELSE 27
    IN  Says([i \in 1 .. 2 * lines |-> IF i % 2 = 1 THEN Down ELSE Line])

(* pwd: nineteen cells before the path, and no wrap but the path's.        *)
Pwd == Says(<<Down, Cells(19 + DirLength(cwd))>>)

(* version *)
Version == Says(OneLine \o OneLine \o OneLine)

(* echo of a text, which is shorter than the row it was typed in, or of    *)
(* none; debug. *)
EchoDebug == {Says(OneLine), Says(<<Down>>)}

(* meminfo, diskinfo, timer, ps and syscall-stats; test and syscalls.      *)
Reports == {Says(OneLine), Says(OneLine \o OneLine)}

(* Any other line: seventeen cells before it, and no wrap but the line's.  *)
Unknown == Says(<<Down, Cells(17 + term.len)>>)

(* execute_command, "clear" excepted. *)
Commands ==
    Changes \cup EchoDebug \cup Reports \cup
    {Version, Unknown, Help, Pwd, ChangeDirUp, Ls(Clean(cwd)), TreeCommand(<<>>)} \cup
    {FindCommand(n) : n \in Names} \cup
    UNION {{Cat(p), Ls(PathFor("ls", p)), TreeCommand(PathFor("tree", p)), Stat(PathFor("stat", p)), ChangeDir(p)} : p \in Inputs}

-----------------------------------------------------------------------------
(* shell_handle_input, by character. *)
Edited(t) == term' = t /\ UNCHANGED <<fs, reply, cwd>>

Type      == Edited(Typed(term))
Backspace == Edited(Erased(term, DirLength(cwd)))

EnterNothing ==
    /\ term.len = 0
    /\ Edited(NextPrompt(Aged(term), DirLength(cwd)))

EnterClear ==
    /\ term.len > 0
    /\ Edited(NextPrompt(Cleared(Aged(term)), DirLength(cwd)))

EnterCommand ==
    /\ term.len > 0
    /\ \E o \in Commands :
          /\ fs' = o.fs /\ cwd' = o.cwd /\ UNCHANGED reply
          /\ term' = NextPrompt(Output(Aged(term), o.out), DirLength(o.cwd))

ShellInit == /\ Init
             /\ cwd = <<>>
             /\ term = Prompt(BootScreen, DirLength(<<>>))

ShellNext == /\ fs.file_count <= FS_MAX_FILES
             /\ Type \/ Backspace \/ EnterNothing \/ EnterClear \/ EnterCommand

ShellSpec == ShellInit /\ [][ShellNext]_shellVars
-----------------------------------------------------------------------------
(* The editor's record, the path and the filesystem have their types. *)
ShellTypeOK ==
    /\ TypeOK
    /\ cwd \in Seq(Names \cup {NoName})
    /\ term.len \in 0 .. MAX_COMMAND_LENGTH - 1
    /\ term.screen \in [1 .. ROWS -> Shown]
    /\ term.covered \in BOOLEAN /\ term.tallest \in Nat

(* Whatever was printed, cleared, scrolled or wrapped, the next character  *)
(* is typed on the screen. *)
CursorOnScreen == term.row \in Rows /\ term.col \in 0 .. COLUMNS - 1

(* What stands after the prompt is what Enter will run: as long as the     *)
(* prompt leaves room in its row, the cursor is as far from the prompt's   *)
(* end as the buffer is long, through typing, erasing and changes of the   *)
(* directory the prompt shows.  So backspace never eats the prompt.        *)
LineIsBuffer ==
    /\ ShellTypeOK
    /\ 6 + DirLength(cwd) < COLUMNS => /\ term.col = 6 + DirLength(cwd) + term.len
                                       /\ term.screen[term.row + 1] = "line"

(* Output of at most two rows in one piece is still there when the next    *)
(* prompt is shown. *)
ShortOutputKept == term.covered => term.tallest > 2

IsDirectory(f, path) == path = <<>> \/ (Find(f, path) >= 0 /\ f.files[Find(f, path)].type = DIR)

Vanished(f, d) == Find(f, Clean(d)) = NOT_FOUND

(* The shell is in a directory, or where its directory has been removed:   *)
(* no command moves it anywhere else or makes a file of the directory it   *)
(* is in.  From where a directory was, it gets only to a directory or, by  *)
(* cd .., to where the one above is or was. *)
StaysInDirectory ==
    [][\/ IsDirectory(fs', Clean(cwd)')
       \/ cwd' = cwd /\ (Vanished(fs', cwd) \/ ~ IsDirectory(fs, Clean(cwd)))
       \/ /\ ~ IsDirectory(fs, Clean(cwd)) /\ fs' = fs
          /\ Clean(cwd)' \in {Clean(cwd), Front(Clean(cwd))}]_shellVars

(* "Check if target path is a directory", fs.c:759: cd changes the current *)
(* directory to a directory only. *)
CdEntersDirectory == [][cwd' # cwd => IsDirectory(fs', Clean(cwd)')]_shellVars

(* "Support for absolute and relative paths", test_filesystem.md: to every *)
(* command a relative name is one in the current directory. *)
RelativeToCurrentDirectory ==
    \A p \in Inputs, command \in {"mkdir", "rm", "cp", "mv", "ls", "tree", "stat"} \cup Joins :
        PathFor(command, p) = Clean(IF p.abs THEN p.parts ELSE cwd \o p.parts)
=============================================================================
