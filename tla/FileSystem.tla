----------------------------- MODULE FileSystem -----------------------------
(***************************************************************************)
(* The RAM filesystem of drivers/fs.c: a table of entries (files and       *)
(* directories), a second table of directories with the lists of their     *)
(* entries, tied together by name and parent index, and file contents in   *)
(* blocks of the C library's malloc.  The shell is its only caller and no  *)
(* handler calls it, so each call is one step.                             *)
(*                                                                         *)
(* A path is the sequence of its parts, "/" the empty one; names are short *)
(* enough not to be cut, and the dead stack frame fs_parse_path leaves its *)
(* parts in is still intact when they are read.                            *)
(***************************************************************************)
EXTENDS Integers, Sequences, FiniteSets, SequencesExt

CONSTANTS
    FS_MAX_FILES, FS_MAX_DIRECTORIES, FS_MAX_FILES_PER_DIR,
    Paths,       (* what the user may name, apart from "/"                 *)
    Data,        (* what the user may write; sequences of characters       *)
    Blocks,      (* blocks the C library's heap can give, numbers          *)
    Free,        (* the content of a block not allocated                   *)
    Uninit,      (* the content of an allocated block not yet written      *)
    Lost, Directory  (* nodes of the abstract tree, see FileTree         *)

NoName == ""
NULL   == 0
Names  == UNION {ToSet(p) : p \in Paths}

ASSUME FsAssumption ==
    /\ FS_MAX_FILES \in Nat \ {0}
    /\ FS_MAX_DIRECTORIES \in Nat \ {0}
    /\ FS_MAX_FILES_PER_DIR \in Nat \ {0}
    /\ \A p \in Paths : p # <<>> /\ p \in Seq(Names \ {NoName, "/"})
    /\ \A p \in Paths : Front(p) \in Paths \cup {<<>>}  (* and the directories of what is named *)
    /\ \A d \in Data : d \in Seq(ToSet(d))
    /\ Blocks \subseteq Nat \ {NULL}
    /\ Free \notin Data \cup {Uninit}
    /\ Lost \notin Data \cup {Uninit, <<>>}
    /\ Directory \notin Data \cup {Uninit, <<>>, Lost}

FILE == "FILE"
DIR  == "DIR"

(* fs_find's -2 and everybody's -1. *)
ROOT      == -2
NOT_FOUND == -1

VARIABLES fs, reply

(* The entry table has one place more than in C: mkdir may write there.    *)
Entries == 0 .. FS_MAX_FILES
Dirs    == 0 .. FS_MAX_DIRECTORIES - 1

UnusedEntry == [name |-> NoName, type |-> FILE, size |-> 0, data |-> NULL, parent |-> 0]
UnusedDir   == [name |-> NoName, parent |-> 0, files |-> <<>>]

Smallest(S) == CHOOSE i \in S : \A j \in S : i <= j

Done(d) == [ok |-> TRUE, data |-> d]
Refused == [ok |-> FALSE, data |-> <<>>]

(* What a call leaves and returns. *)
Result(f, r) == [fs |-> f, reply |-> r]

-----------------------------------------------------------------------------
(* Path lookup. *)

(* The directory slots an entry could mean: they are matched by name.      *)
SlotsNamed(f, name, parent) ==
    {k \in 0 .. f.dir_count - 1 : f.dirs[k].name = name /\ f.dirs[k].parent = parent}

(* One step of fs_find_parent_dir's walk. *)
SubDir(f, d, name) ==
    IF /\ \E i \in ToSet(f.dirs[d].files) : f.files[i].type = DIR /\ f.files[i].name = name
       /\ SlotsNamed(f, name, d) # {}
    THEN Smallest(SlotsNamed(f, name, d))
    ELSE NOT_FOUND

(* fs_find_parent_dir *)
FindParentDir(f, path) ==
    LET walk[i \in 0 .. Len(path)] ==
            IF i = 0 THEN 0
            ELSE IF walk[i - 1] = NOT_FOUND THEN NOT_FOUND
            ELSE SubDir(f, walk[i - 1], path[i])
    IN  IF path = <<>> THEN 0 ELSE walk[Len(path) - 1]

(* fs_get_filename *)
FileName(path) == IF path = <<>> THEN NoName ELSE Last(path)

(* The first entry of a directory's list with the name. *)
Lookup(f, d, name) ==
    LET at == {j \in DOMAIN f.dirs[d].files : f.files[f.dirs[d].files[j]].name = name}
    IN  IF at = {} THEN NOT_FOUND ELSE f.dirs[d].files[Smallest(at)]

(* fs_find *)
Find(f, path) ==
    IF path = <<>> THEN ROOT
    ELSE IF FindParentDir(f, path) = NOT_FOUND THEN NOT_FOUND
    ELSE Lookup(f, FindParentDir(f, path), FileName(path))

-----------------------------------------------------------------------------
(* malloc and free of the C library (Stdlib) as fs.c uses them: malloc     *)
(* gives a free block or, whatever is left, NULL; with one block in        *)
(* reserve a call's second malloc differs.                                 *)
FreeBlocks(f) == {b \in Blocks : f.mem[b] = Free}
CanMalloc(f)  == FreeBlocks(f) # {}
Malloced(f)   == Smallest(FreeBlocks(f))
Freed(f, b)   == IF b = NULL THEN f ELSE [f EXCEPT !.mem[b] = Free]

-----------------------------------------------------------------------------
(* The calls, on a state f; "ok" answers each call of malloc in turn.      *)

(* What both creators do last: a new entry, never an old one again, in the *)
(* parent's list. *)
AddEntry(f, d, e) ==
    [f EXCEPT !.files[f.file_count] = e,
              !.file_count          = @ + 1,
              !.dirs[d].files       = Append(@, f.file_count)]

(* mutant: does not look whether the name is taken *)
MkdirUnchecked(f, path) ==
    LET d == FindParentDir(f, path)
        e == [UnusedEntry EXCEPT !.name = FileName(path), !.type = DIR, !.parent = d]
    IN  IF \/ d = NOT_FOUND
           \/ f.dir_count >= FS_MAX_DIRECTORIES
           \/ Len(f.dirs[d].files) >= FS_MAX_FILES_PER_DIR
        THEN Result(f, Refused)
        ELSE Result([AddEntry(f, d, e) EXCEPT
                        !.dirs[f.dir_count] = [UnusedDir EXCEPT !.name = FileName(path), !.parent = d],
                        !.dir_count = @ + 1],
                    Done(<<>>))

(* fs_mkdir: it looks at the number of directories, not of entries. *)
Mkdir(f, path) ==
    LET d == FindParentDir(f, path)
        e == [UnusedEntry EXCEPT !.name = FileName(path), !.type = DIR, !.parent = d]
    IN  IF \/ Find(f, path) >= 0
           \/ d = NOT_FOUND
           \/ f.dir_count >= FS_MAX_DIRECTORIES
           \/ Len(f.dirs[d].files) >= FS_MAX_FILES_PER_DIR
        THEN Result(f, Refused)
        ELSE Result([AddEntry(f, d, e) EXCEPT
                        !.dirs[f.dir_count] = [UnusedDir EXCEPT !.name = FileName(path), !.parent = d],
                        !.dir_count = @ + 1],
                    Done(<<>>))

(* fs_create *)
Create(f, path, size, ok) ==
    LET d     == FindParentDir(f, path)
        block == IF size > 0 THEN Malloced(f) ELSE NULL
        e     == [UnusedEntry EXCEPT !.name = FileName(path), !.parent = d,
                                     !.size = size, !.data = block]
    IN  IF \/ Find(f, path) >= 0
           \/ d = NOT_FOUND
           \/ f.file_count >= FS_MAX_FILES
           \/ Len(f.dirs[d].files) >= FS_MAX_FILES_PER_DIR
           \/ size > 0 /\ ~ (ok /\ CanMalloc(f))
        THEN Result(f, Refused)
        ELSE Result(AddEntry([f EXCEPT !.mem = [b \in Blocks |-> IF b = block THEN Uninit ELSE @[b]]],
                             d, e),
                    Done(<<>>))

(* An entry off its parent's list: those after it move up. *)
Unlisted(list, i) ==
    IF i \in ToSet(list) THEN RemoveAt(list, Smallest({j \in DOMAIN list : list[j] = i})) ELSE list

(* Entry i taken away: a directory with its slot, found by its name, a     *)
(* file with its block.  Entry and slot lose their names and are not used  *)
(* again; what else a nameless entry holds is never read, and here reset.  *)
Deleted(f, i) ==
    LET e == f.files[i]
        g == IF e.type = DIR
             THEN [f EXCEPT !.dirs[Smallest(SlotsNamed(f, e.name, e.parent))].name = NoName]
             ELSE Freed(f, e.data)
    IN  [g EXCEPT !.dirs[e.parent].files = Unlisted(@, i), !.files[i] = UnusedEntry]

(* fs_delete: a file or an empty directory. *)
Delete(f, path) ==
    LET i     == Find(f, path)
        e     == f.files[i]
        slots == SlotsNamed(f, e.name, e.parent)
    IN  IF i < 0 THEN Result(f, Refused)
        ELSE IF e.type = DIR /\ (slots = {} \/ f.dirs[Smallest(slots)].files # <<>>)
        THEN Result(f, Refused)
        ELSE Result(Deleted(f, i), Done(<<>>))

(* mutant: the old block is not given back *)
WriteLeaks(f, path, data, size, ok) ==
    LET i == Find(f, path)
        g == IF f.files[i].data # NULL /\ f.files[i].size # size
             THEN [f EXCEPT !.files[i].data = NULL]
             ELSE f
        b == IF g.files[i].data = NULL THEN Malloced(g) ELSE g.files[i].data
    IN  IF i < 0 \/ f.files[i].type # FILE THEN Result(f, Refused)
        ELSE IF g.files[i].data = NULL /\ ~ (ok /\ CanMalloc(g)) THEN Result(g, Refused)
        ELSE Result([g EXCEPT !.files[i].data = b, !.files[i].size = size, !.mem[b] = data],
                    Done(<<>>))

(* fs_write: content of another size goes into another block, and the old  *)
(* one is given back before the new one is asked for.                      *)
Write(f, path, data, size, ok) ==
    LET i == Find(f, path)
        g == IF f.files[i].data # NULL /\ f.files[i].size # size
             THEN [Freed(f, f.files[i].data) EXCEPT !.files[i].data = NULL]
             ELSE f
        b == IF g.files[i].data = NULL THEN Malloced(g) ELSE g.files[i].data
    IN  IF i < 0 \/ f.files[i].type # FILE THEN Result(f, Refused)
        ELSE IF g.files[i].data = NULL /\ ~ (ok /\ CanMalloc(g)) THEN Result(g, Refused)
        ELSE Result([g EXCEPT !.files[i].data = b, !.files[i].size = size, !.mem[b] = data],
                    Done(<<>>))

(* fs_read, into a buffer large enough. *)
Read(f, path) ==
    LET i == Find(f, path)
    IN  IF i < 0 \/ f.files[i].type # FILE THEN Refused
        ELSE IF f.files[i].data = NULL THEN Done(<<>>)
        ELSE Done(f.mem[f.files[i].data])

(* mutant: leaves a destination it could not fill *)
CopyNoCleanup(f, src, dest, ok, okTemp) ==
    LET i       == Find(f, src)
        created == Create(f, dest, f.files[i].size, ok)
        written == Write(created.fs, dest, f.mem[f.files[i].data], f.files[i].size, TRUE)
        undone  == created.fs
    IN  IF i < 0 \/ f.files[i].type # FILE \/ Find(f, dest) >= 0 THEN Result(f, Refused)
        ELSE IF ~ created.reply.ok THEN created
        ELSE IF f.files[i].data = NULL \/ f.files[i].size = 0 THEN created
        ELSE IF ~ (okTemp /\ CanMalloc(created.fs)) THEN Result(undone, Refused)
        ELSE IF ~ written.reply.ok THEN Result(undone, Refused)
        ELSE written

(* fs_copy: creates the destination, then reads through a block of its own *)
(* and writes; what it cannot fill it deletes again.                       *)
Copy(f, src, dest, ok, okTemp) ==
    LET i       == Find(f, src)
        created == Create(f, dest, f.files[i].size, ok)
        written == Write(created.fs, dest, f.mem[f.files[i].data], f.files[i].size, TRUE)
        undone  == Delete(created.fs, dest).fs
    IN  IF i < 0 \/ f.files[i].type # FILE \/ Find(f, dest) >= 0 THEN Result(f, Refused)
        ELSE IF ~ created.reply.ok THEN created
        ELSE IF f.files[i].data = NULL \/ f.files[i].size = 0 THEN created
        ELSE IF ~ (okTemp /\ CanMalloc(created.fs)) THEN Result(undone, Refused)
        ELSE IF ~ written.reply.ok THEN Result(undone, Refused)
        ELSE written

(* fs_move *)
Move(f, src, dest, ok, okTemp) ==
    LET copied  == Copy(f, src, dest, ok, okTemp)
        deleted == Delete(copied.fs, src)
    IN  IF ~ copied.reply.ok THEN copied
        ELSE IF ~ deleted.reply.ok THEN Result(Delete(deleted.fs, dest).fs, Refused)
        ELSE deleted

-----------------------------------------------------------------------------
(* fs_init: only the root directory, in slot 0, its own parent. *)
Init ==
    /\ fs = [files      |-> [i \in Entries |-> UnusedEntry],
             file_count |-> 0,
             dirs       |-> [k \in Dirs |-> IF k = 0 THEN [UnusedDir EXCEPT !.name = "/"] ELSE UnusedDir],
             dir_count  |-> 1,
             mem        |-> [b \in Blocks |-> Free]]
    /\ reply = Refused

(* One of the outcomes; different arguments often have the same.           *)
Returns(results) == \E r \in results : fs' = r.fs /\ reply' = r.reply

Named == Paths \cup {<<>>}

(* How the two mallocs of a copy may end: the second is not made if the    *)
(* first fails. *)
Mallocs == {<<TRUE, TRUE>>, <<TRUE, FALSE>>, <<FALSE, FALSE>>}

fs_mkdir  == Returns({Mkdir(fs, p) : p \in Named})
fs_create == Returns({Create(fs, p, 0, TRUE) : p \in Named})
fs_delete == Returns({Delete(fs, p) : p \in Named})
fs_write  == Returns({Write(fs, p, d, Len(d), ok) : p \in Named, d \in Data, ok \in BOOLEAN})
fs_read   == Returns({Result(fs, Read(fs, p)) : p \in Named})
fs_copy   == Returns({Copy(fs, p, q, m[1], m[2]) : p, q \in Named, m \in Mallocs})
fs_move   == Returns({Move(fs, p, q, m[1], m[2]) : p, q \in Named, m \in Mallocs})

(* Nothing is modelled after an entry was written past the entry table.    *)
Next == /\ fs.file_count <= FS_MAX_FILES
        /\ fs_mkdir \/ fs_create \/ fs_delete \/ fs_write \/ fs_read \/ fs_copy \/ fs_move

vars == <<fs, reply>>
Spec == Init /\ [][Next]_vars
-----------------------------------------------------------------------------
Entry     == [name : Names \cup {NoName}, type : {FILE, DIR}, size : {Len(d) : d \in Data} \cup {0},
              data : Blocks \cup {NULL}, parent : Dirs]
Used(f)   == {k \in Dirs : k < f.dir_count}
Listed(f) == UNION {ToSet(f.dirs[k].files) : k \in Used(f)}

(* The tables, the counts and the answer have their types. *)
TypeOK ==
    /\ fs.files \in [Entries -> Entry]
    /\ fs.file_count \in 0 .. FS_MAX_FILES + 1
    /\ \A k \in Dirs : /\ fs.dirs[k].name \in Names \cup {NoName, "/"}
                       /\ fs.dirs[k].parent \in Dirs
                       /\ fs.dirs[k].files \in Seq(Entries)
                       /\ Len(fs.dirs[k].files) <= FS_MAX_FILES_PER_DIR
    /\ fs.dir_count \in 1 .. FS_MAX_DIRECTORIES
    /\ fs.mem \in [Blocks -> Data \cup {Free, Uninit}]
    /\ reply.ok \in BOOLEAN /\ reply.data \in Data \cup {<<>>, Uninit}

(* The two tables tell one story: every entry with a name is listed once,  *)
(* in the directory it names as its parent, under a name no sibling has;   *)
(* every directory entry has one slot, every slot one entry, in a slot     *)
(* made earlier (so the tree has no cycle); a deleted slot is empty.       *)
EntriesListed(f) ==
    /\ \A k \in Used(f) : /\ ToSet(f.dirs[k].files) \subseteq 0 .. f.file_count - 1
                          /\ IsInjective(f.dirs[k].files)
                          /\ \A i \in ToSet(f.dirs[k].files) : f.files[i].parent = k
    /\ \A i \in 0 .. f.file_count - 1 :
          f.files[i].name # NoName => i \in ToSet(f.dirs[f.files[i].parent].files)
    /\ \A i, j \in Listed(f) : /\ f.files[i].parent = f.files[j].parent
                               /\ f.files[i].name = f.files[j].name /\ f.files[i].name # NoName
                               => i = j

SlotsPaired(f) ==
    /\ \A i \in Listed(f) : f.files[i].type = DIR /\ f.files[i].name # NoName
          => Cardinality(SlotsNamed(f, f.files[i].name, f.files[i].parent)) = 1
    /\ \A k \in Used(f) \ {0} :
          IF f.dirs[k].name = NoName THEN f.dirs[k].files = <<>>
          ELSE /\ f.dirs[k].parent < k
               /\ \E i \in ToSet(f.dirs[f.dirs[k].parent].files) :
                     f.files[i].type = DIR /\ f.files[i].name = f.dirs[k].name

TablesAgree == TypeOK /\ EntriesListed(fs) /\ SlotsPaired(fs)

(* Through deletions, rewrites and copies that fail half way, every block  *)
(* malloc gave is the content of exactly one listed file: none is lost and *)
(* none is used after it was freed or by two files.                        *)
Owners(f, b) == {i \in Listed(f) : f.files[i].type = FILE /\ f.files[i].data = b}

BlocksOwned ==
    \A b \in Blocks : Cardinality(Owners(fs, b)) = IF fs.mem[b] = Free THEN 0 ELSE 1

(* The node a path leads to; a file without a block reads as empty.        *)
Node(f, e) == IF e.type = DIR THEN Directory
              ELSE IF e.data # NULL THEN f.mem[e.data]
              ELSE IF e.size = 0 THEN <<>> ELSE Lost

TreeOf(f) ==
    LET found == [p \in Paths |-> Find(f, p)]
    IN  [p \in {q \in Paths : found[q] >= 0} |-> Node(f, f.files[found[p]])]

Tree == INSTANCE FileTree WITH tree <- TreeOf(fs)

(* With lookup by name in two tables, entries and slots never used again   *)
(* and copies made of creations, writes and deletions, the calls behave as *)
(* operations on a tree of paths, each changing the path it names.         *)
ImplementsFileTree == Tree!Spec

(* "Maximum number of files in the filesystem", fs.h:20, is the size of    *)
(* the entry table: no entry is written past its end.                      *)
EntriesFit == fs.file_count <= FS_MAX_FILES
=============================================================================
