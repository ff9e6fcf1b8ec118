SPECIFICATION FairSpec
CONSTANTS
    WINSZ = 4
    JumpThreshold = 5
    TableSize = 2
    Keys <- MCKeys
    Root <- MCRoot
    IndexKeys = {"ix", "iy"}
    TooLong = {"lg"}
    Listed <- MCListed
    BadRoots = {"", "longer"}
    BlankKeys = {"no"}
    Scripts <- MCScripts
    TapPkts = 2
    MaxFaults = 2
INVARIANTS DecodedOnce LineTold OptionsCurrent SubscribersAgree
PROPERTY Exits
CHECK_DEADLOCK FALSE
