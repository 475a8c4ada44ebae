SPECIFICATION MCSpec
CONSTANTS
    HEADER_LEN = 3
    HEADER_NAME_LEN = 4
    HEADER_MAX_FILE_LEN = 10
    HEADER_SIZE_LEN = 3
    ENTRY_FILE_BUFSIZE = 6
    ENTRY_MAX_FILE_SIZE = 16
    Packages = {"a.hap", "b.hsp", "c.hap"}
    NamedTar = {"b.hsp"}
    MaxCounts = {0, 2}
    Vanishing = {"a.hap"}
    Group = 3
    Word = 8
    Long = 12
    Narrow = 4
    TLV_VALUE_MAX_LEN = 2
    Bundles = {"pkg"}
    Options = {"-x"}
    Alphabet = {"q", "_", "t", "w", "x", "y"}
    MaxLine = 6
INVARIANTS
    InstallIsWhole
    DataArrives
CHECK_DEADLOCK FALSE
