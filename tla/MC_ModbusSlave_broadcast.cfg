CONSTANTS
    SendFails = FALSE
    Prot = "RTU"
    SlaveSaddr = 1
    ADDR_CHK = TRUE
    MBAP_CHK = TRUE
    AddrSpace = 4
    RegMax = 3
    ValidAddrs <- MC_ValidAddrs
    CbPresent <- MC_CbPresent
    DiscIn <- MC_DiscIn
    InputReg <- MC_InputReg
    Requests <- MC_Requests
    EnvParts = {"whole", "head"}
    MaxReqs = 1
SPECIFICATION Spec
INVARIANTS
    BroadcastAppliedSilently
