SPECIFICATION Spec
CONSTANTS
    FS_MAX_FILES = 4
    FS_MAX_DIRECTORIES = 3
    FS_MAX_FILES_PER_DIR = 2
    Paths <- MCPaths
    Data <- MCData
    Blocks <- MCBlocks
    Free = Free
    Uninit = Uninit
    Lost = Lost
    Directory = Directory
INVARIANTS TablesAgree BlocksOwned
PROPERTY ImplementsFileTree
CHECK_DEADLOCK FALSE
