SPECIFICATION Spec
CONSTANTS
    Types = {"user", "server"}
    Names = {"NODEJS-SERVER","SUPERVISOR"}
    Wild <- AnyType
    Slots = 2
    Writes <- Bytes
    Patterns <- AllOrOne
    Scanners = {w}
    Ops = {"create","delete","rename","set","write","scan","lock"}
    UseWild = FALSE
    MaxObjects = 3
    Owners = {2}
INVARIANTS
    TypeOK
    MembershipExact
    NamesIndexed
    ScanExact
CHECK_DEADLOCK FALSE
