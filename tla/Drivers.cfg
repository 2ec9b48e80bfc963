SPECIFICATION DriversSpec
CONSTANTS
    Drives <- MCDrives
    Called <- MCCalled
    Counts <- MCCounts
    Lbas = {0}
    Sectors = 2
    Data = {"a"}
    MaxPolls = 2
    CountRange = 2
    LbaRange = 2
    TxDepth = 2
    Trigger = 2
    Window = 2
    Lengths = {1, 2}
INVARIANTS CallDelivers TransmitterNotOverrun InterruptHasCharacter
PROPERTIES CallsReturnInSilence ReceiverServed
