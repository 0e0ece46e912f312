SPECIFICATION Spec
CONSTANTS
    c1 = c1
    nested = nested
    hand = hand
    Absent = Absent
    Runs = {nested, hand}
    Operator = {hand}
    Killable = {hand}
    Campaigns = {c1}
    Base <- MCBase
    DataBase <- MCBase
    ArgsOf <- MCArgsOf
    NestedRun <- MCNestedRun
    CommandLines <- MCCommandLines
    NestedSizes <- MCSizes
    Repeats = {1}
    Beside = {"three", "disk"}
    PortStride = 1
    PortLimit = 2
    Connections = 1
    MaxChunks = 1
    MaxFaults = 1
CHECK_DEADLOCK FALSE
INVARIANTS
    PassMeansDelivered
    ExitZeroMeansAll
    NoServerForgotten
    DiskProofIsBacked
    CleanedUp
    NobodyStuck
