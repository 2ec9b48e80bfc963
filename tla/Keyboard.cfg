SPECIFICATION FairSpec
CONSTANTS
    KEYBOARD_BUFFER_SIZE = 3
    LetterKeys = {"a"}
    SymbolKeys = {"1"}
    DeadKeys = {"F1"}
    NoChar = NoChar
INVARIANTS TypeOK FetchedIsOldest
PROPERTIES ImplementsCharQueue InputConsumed
