SPECIFICATION Spec
CONSTANTS
    a = a
    b = b
    aConnect = aConnect
    aService = aService
    aFile = aFile
    aAgain = aAgain
    aLogout = aLogout
    bConnect = bConnect
    bService = bService
    bDestroy = bDestroy
    None = None
    Clients = {a, b}
    Calls = {aConnect, aService, aLogout, bConnect, bDestroy}
    Owner <- CallOwner
    Kind <- CallKind
    SeqMod = 2
    ConnMod = 4
    MaxDup = 1
    MaxRestart = 0
    QuietReuse = TRUE
    FileService = FALSE
CHECK_DEADLOCK FALSE
INVARIANTS
    TypeOK
    WaitingIsPending
    SessionIsolation
    NumbersNotReused
PROPERTIES
    RpcSpec
