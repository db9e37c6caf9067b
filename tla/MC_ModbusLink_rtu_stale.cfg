\* RTU master and slave, a fast slave, and one reply cut in two by a pause
\* longer than byte_tmo_ms; three operations.
CONSTANTS
    Prot = "RTU"
    ADDR_CHK = TRUE
    MBAP_CHK = FALSE
    MasterSaddr = 1
    SlaveSaddr = 1
    TidMod = 65536
    InstTid = 0
    WriteFails = FALSE
    MaxTx = 3
    AddrSpace = 4
    RegMax = 3
    Faults = {"split"}
    MaxFaults = 1
    SlowSlave = FALSE
    Ops <- MC_SplitOps
    ValidAddrs <- MC_ValidAddrs
    CbPresent <- MC_CbPresent
    DiscIn <- MC_DiscIn
    InputReg <- MC_InputReg
SPECIFICATION Spec
INVARIANTS
    ReadCopyFits
