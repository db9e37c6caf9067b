\* As MC_ModbusBackend.cfg; the destructor after a failed close.
CONSTANTS
    Types = {"rtu", "tcp", "sock"}
    Handles = {1, 2}
    Fd = 3
    AppCalls = {"close", "destroy"}
    CloseMayFail = TRUE
    MaxFaults = 2
SPECIFICATION Spec
INVARIANTS DestroyReleases
