SPECIFICATION Spec
CONSTANTS
    a = a
    b = b
    aConnect = aConnect
    aService = aService
    aFile = aFile
    aAgain = aAgain
    aLogout = aLogout
    bConnect = bConnect
    bService = bService
    bDestroy = bDestroy
    None = None
    Clients = {a, b}
    Calls = {aConnect, aService, aFile, aAgain}
    Owner <- CallOwner
    Kind <- CallKindBusy
    SeqMod = 2
    ConnMod = 4
    MaxDup = 0
    MaxRestart = 1
    QuietReuse = FALSE
    FileService = TRUE
CHECK_DEADLOCK FALSE
INVARIANTS
    WaitingHasTimer
    ReplyMatch
PROPERTIES
    EverySentCallSettles
