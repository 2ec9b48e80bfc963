SPECIFICATION ShellSpec
CONSTANTS
    FS_MAX_FILES = 3
    FS_MAX_DIRECTORIES = 3
    FS_MAX_FILES_PER_DIR = 3
    Paths <- MCPaths
    Data <- MCData
    Blocks <- MCBlocks
    Free = Free
    Uninit = Uninit
    Lost = Lost
    Directory = Directory
    Inputs <- MCInputs
    ROWS = 4
    COLUMNS = 12
    MAX_COMMAND_LENGTH = 3
    ShellRow = 1
INVARIANTS CursorOnScreen LineIsBuffer ShortOutputKept
PROPERTY StaysInDirectory
CHECK_DEADLOCK FALSE
