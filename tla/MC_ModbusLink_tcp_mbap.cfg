\* TCP master and slave with MB_USING_MBAP_CHK: a perfect line, a fast slave.
CONSTANTS
    Prot = "TCP"
    ADDR_CHK = TRUE
    MBAP_CHK = TRUE
    MasterSaddr = 1
    SlaveSaddr = 1
    TidMod = 65536
    InstTid = 0
    WriteFails = TRUE
    MaxTx = 2
    AddrSpace = 4
    RegMax = 3
    Faults = {}
    MaxFaults = 1
    SlowSlave = FALSE
    Ops <- MC_Ops
    ValidAddrs <- MC_ValidAddrs
    CbPresent <- MC_CbPresent
    DiscIn <- MC_DiscIn
    InputReg <- MC_InputReg
SPECIFICATION Spec
INVARIANTS
    OwnReplyAccepted
