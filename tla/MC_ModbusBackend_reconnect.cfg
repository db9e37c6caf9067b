\* A slave loop that runs for ever over a TCP or sock link that may
\* break once; the application never closes it.
CONSTANTS
    Types = {"tcp", "sock"}
    Handles = {1, 2}
    Fd = 3
    AppCalls = {}
    CloseMayFail = FALSE
    MaxFaults = 1
SPECIFICATION Spec
PROPERTIES SlaveRecovers
