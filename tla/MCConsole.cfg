SPECIFICATION ConsoleSpec
CONSTANTS
    Slots = {1, 2}
    Account = {"password"}
    MaxSessions = 2
    MaxReloads = 1
    Sockets = {1, 2}
    Names = {"d"}
    MaxDepth = 2
    None = None
    Tasks = {1, 2}
    MaxRev = 2
INVARIANTS
    ConsoleTypeOK
    SignedInCanWrite
    OneSession
    ClosedIsQuiet
    FilesAreOfPath
    RestIsTrue
    DialogsOwnAnswers
PROPERTIES
    ReconnectEnds
    ConsoleSettles
CHECK_DEADLOCK FALSE
