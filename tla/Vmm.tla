-------------------------------- MODULE Vmm --------------------------------
(***************************************************************************)
(* The virtual memory manager of kernel/vmm.c over the frame allocator: a  *)
(* page directory is a frame, or the kernel's static one, whose entries    *)
(* name page tables, which are frames too.  Every function makes at most   *)
(* one call of pmm.c, so a step of this module is a step of Pmm or leaves  *)
(* the allocator alone.  Callers map present pages; the writable and user  *)
(* bits, which nothing in vmm.c reads, are left out, so that an entry is   *)
(* the address it holds, or NoEntry.                                       *)
(***************************************************************************)
EXTENDS Pmm

CONSTANTS
    PdSize, PtSize,     (* PAGE_DIRECTORY_SIZE, PAGE_TABLE_SIZE            *)
    KernelBase,         (* GET_PD_INDEX(KERNEL_VIRTUAL_BASE)               *)
    KernelDirectory,    (* &kernel_page_directory, below MEMORY_START      *)
    CallerPages         (* the pages callers map and unmap                 *)

(* The static directory is no frame; boot leaves both page tables a frame. *)
ASSUME VmmAssumption ==
    /\ PdSize \in Nat /\ PtSize \in Nat \ {0}
    /\ KernelBase \in 1 .. PdSize - 1
    /\ KernelDirectory \in 1 .. MemoryStart - 1
    /\ MemoryStart % PageSize = 0
    /\ TotalFrames >= Cardinality(BitmapFrames) + 2

PdIndices == 0 .. PdSize - 1
PtIndices == 0 .. PtSize - 1
Pages     == PdIndices \X PtIndices     (* a page by its two indices *)

ASSUME CallerAssumption == CallerPages \subseteq Pages

VARIABLES
    vm,      (* contents of the frames that are directories and tables     *)
    placed   (* history: the table entries that are as a caller mapped them *)

vmmVars == <<vars, vm, placed>>

NoEntry == -1   (* an entry with every bit clear *)

PageAlign(addr) == (addr \div PageSize) * PageSize

(* f, and x mapped to y. *)
Extended(f, x, y) == [a \in DOMAIN f \cup {x} |-> IF a = x THEN y ELSE f[a]]

(* vmm_init: the first pages of memory, one table of them, mapped at 0 and *)
(* at KERNEL_VIRTUAL_BASE, by tables from the allocator.                   *)
BootPmm   == AfterAlloc(AfterAlloc(PmmInit))
LowTable  == AddrOf(AllocFrame(PmmInit))
HighTable == AddrOf(AllocFrame(AfterAlloc(PmmInit)))

BootDirectory == [i \in PdIndices |-> IF i = 0 THEN LowTable
                                      ELSE IF i = KernelBase THEN HighTable ELSE NoEntry]

BootTable == [i \in PtIndices |-> i * PageSize]

VmmInit ==
    /\ pmm = BootPmm /\ ret = 0
    /\ lent = {FrameOf(LowTable), FrameOf(HighTable)}
    /\ vm = [dir   |-> [d \in {KernelDirectory} |-> BootDirectory],
             table |-> [t \in {LowTable, HighTable} |-> BootTable]]
    /\ placed = {}

-----------------------------------------------------------------------------
(* mutant: the first kernel entry is not copied *)
CopiedShort ==
    [i \in PdIndices |-> IF i > KernelBase THEN vm.dir[KernelDirectory][i] ELSE NoEntry]

(* The entries of a new directory: the kernel's upper ones, as they are.   *)
CopiedEntries ==
    [i \in PdIndices |-> IF i >= KernelBase THEN vm.dir[KernelDirectory][i] ELSE NoEntry]

vmm_create_page_directory ==
    /\ pmm_alloc_frame
    /\ vm' = IF AllocFails(pmm) THEN vm
             ELSE [vm EXCEPT !.dir = Extended(@, AddrOf(AllocFrame(pmm)), CopiedEntries)]
    /\ UNCHANGED placed

HasTable(d, page) == vm.dir[d][page[1]] # NoEntry

(* The page's entry: its table, and its place there. *)
Entry(d, page) == <<vm.dir[d][page[1]], page[2]>>

(* The page's table exists: its entry is overwritten. *)
MapInTable(d, page, addr) ==
    /\ HasTable(d, page)
    /\ vm' = [vm EXCEPT !.table[vm.dir[d][page[1]]][page[2]] = PageAlign(addr)]
    /\ placed' = placed \cup {Entry(d, page)}
    /\ UNCHANGED vars

(* A cleared table is made first; with no frame for it the call returns    *)
(* and tells nobody.                                                       *)
MapWithNewTable(d, page, addr) ==
    LET t == AddrOf(AllocFrame(pmm))
    IN  /\ ~ HasTable(d, page)
        /\ pmm_alloc_frame
        /\ vm' = IF AllocFails(pmm) THEN vm
                 ELSE [dir   |-> [vm.dir EXCEPT ![d][page[1]] = t],
                       table |-> Extended(vm.table, t,
                                    [i \in PtIndices |-> IF i = page[2] THEN PageAlign(addr)
                                                         ELSE NoEntry])]
        /\ placed' = IF AllocFails(pmm) THEN placed ELSE placed \cup {<<t, page[2]>>}

vmm_map_page(d, page, addr) == MapInTable(d, page, addr) \/ MapWithNewTable(d, page, addr)

(* mutant: gives back the frame of the page table *)
vmm_unmap_page_table(d, page) ==
    LET t == vm.dir[d][page[1]]
    IN  IF ~ HasTable(d, page) THEN UNCHANGED vmmVars
        ELSE /\ vm' = [vm EXCEPT !.table[t][page[2]] = NoEntry]
             /\ placed' = placed \ {Entry(d, page)}
             /\ pmm_free_frame(t)

(* The entry is cleared, and the frame it named, if any, goes back. *)
vmm_unmap_page(d, page) ==
    LET t     == vm.dir[d][page[1]]
        frame == vm.table[t][page[2]]
    IN  IF ~ HasTable(d, page) THEN UNCHANGED vmmVars
        ELSE /\ vm' = [vm EXCEPT !.table[t][page[2]] = NoEntry]
             /\ placed' = placed \ {Entry(d, page)}
             /\ IF frame \notin {NoEntry, 0} THEN pmm_free_frame(frame) ELSE UNCHANGED vars

(* The entry the processor, and vmm_get_physical_address, reach by walking *)
(* directory and table; no entry without a table.                          *)
vmm_get_physical_address(d, page) ==
    IF HasTable(d, page) THEN vm.table[vm.dir[d][page[1]]][page[2]] ELSE NoEntry

-----------------------------------------------------------------------------
(* Who uses which frame. *)
Directories == DOMAIN vm.dir
FramesAt(addrs) == {FrameOf(a) : a \in {b \in addrs : Managed(b)}}
StructureFrames == FramesAt(Directories \cup DOMAIN vm.table)
MappedFrames    == FramesAt({vm.table[e[1]][e[2]] : e \in placed})
UsedFrames      == StructureFrames \cup MappedFrames

(* Callers map frames pmm_alloc_frame gave them, each at one place, by any *)
(* of their bytes, and unmap such pages only: a page still as boot mapped  *)
(* it may be anyone's frame.  Others call pmm.c as they like, but leave    *)
(* alone the frames somebody uses.                                         *)
CallerMaps == \E d \in Directories, page \in CallerPages, i \in lent \ UsedFrames :
                 vmm_map_page(d, page, AddrOf(i) + PageSize - 1)

CallerUnmaps == \E d \in Directories, page \in CallerPages :
                   /\ vmm_get_physical_address(d, page) # NoEntry => Entry(d, page) \in placed
                   /\ vmm_unmap_page(d, page)

OtherCalls ==
    /\ \/ pmm_alloc_frame
       \/ \E addr \in Addresses : FramesAt({addr}) \cap UsedFrames = {} /\ pmm_free_frame(addr)
       \/ \E i \in Indices : pmm_mark_frame_used(i)
       \/ pmm_get_free_frames
    /\ UNCHANGED <<vm, placed>>

VmmNext == vmm_create_page_directory \/ CallerMaps \/ CallerUnmaps \/ OtherCalls

VmmSpec == VmmInit /\ [][VmmNext]_vmmVars

-----------------------------------------------------------------------------
(* No frame in use can be lent again: directories, page tables and the     *)
(* frames callers mapped are allocated and distinct, one entry maps each   *)
(* of those, and two directories have a table in common only where both    *)
(* have the kernel's.                                                      *)
FramesInUse ==
    /\ UsedFrames \subseteq pmm.bitmap
    /\ Directories \cap DOMAIN vm.table = {}
    /\ MappedFrames \cap StructureFrames = {}
    /\ \A e, f \in placed : vm.table[e[1]][e[2]] = vm.table[f[1]][f[2]] => e = f
    /\ \A d, e \in Directories, i, j \in PdIndices :
          vm.dir[d][i] # NoEntry /\ vm.dir[d][i] = vm.dir[e][j] =>
             /\ vm.dir[d][i] \in DOMAIN vm.table
             /\ i = j
             /\ d = e \/ (i >= KernelBase /\ vm.dir[d][i] = vm.dir[KernelDirectory][i])

SharedIndices(d) ==
    {i \in KernelBase .. PdSize - 1 :
        vm.dir[d][i] # NoEntry /\ vm.dir[d][i] = vm.dir[KernelDirectory][i]}

Abs == INSTANCE AddressSpaces
    WITH RegionOf     <- LAMBDA page : page[1],
         UpperRegions <- KernelBase .. PdSize - 1,
         FirstSpace   <- KernelDirectory,
         FirstView    <- [page \in Pages |-> IF page[1] \in {0, KernelBase}
                                             THEN page[2] * PageSize ELSE NoEntry],
         FirstShared  <- {KernelBase},
         Spaces       <- {AddrOf(i) : i \in Frames},
         Places       <- {AddrOf(i) : i \in Frames},
         Nowhere      <- NoEntry,
         view   <- [d \in Directories |-> [page \in Pages |-> vmm_get_physical_address(d, page)]],
         common <- [d \in Directories |-> SharedIndices(d)]

(* Through page tables in frames that come and go, directories copied when *)
(* made and tables some of them share, each address space is a map of its  *)
(* own: a call changes the page it names, in the spaces that have it in    *)
(* common, and nothing else anywhere.                                      *)
ImplementsAddressSpaces == Abs!Spec
=============================================================================
