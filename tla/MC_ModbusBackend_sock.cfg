\* A sock backend handed descriptor 0, a valid descriptor, which the
\* application may close or destroy.
CONSTANTS
    Types = {"sock"}
    Handles = {}
    Fd = 0
    AppCalls = {"close", "destroy"}
    CloseMayFail = FALSE
    MaxFaults = 0
SPECIFICATION Spec
INVARIANTS SockOpenSucceeds
