\* RTU master and slave at address 1, address check on, a slave that may
\* answer after the master's timeout, and one lost, corrupted or cut frame
\* on either direction.
CONSTANTS
    Prot = "RTU"
    ADDR_CHK = TRUE
    MBAP_CHK = FALSE
    MasterSaddr = 1
    SlaveSaddr = 1
    TidMod = 65536
    InstTid = 0
    WriteFails = TRUE
    MaxTx = 2
    AddrSpace = 4
    RegMax = 3
    Faults = {"lose", "corrupt", "split"}
    MaxFaults = 1
    SlowSlave = TRUE
    Ops <- MC_Ops
    ValidAddrs <- MC_ValidAddrs
    CbPresent <- MC_CbPresent
    DiscIn <- MC_DiscIn
    InputReg <- MC_InputReg
SPECIFICATION Spec
INVARIANTS
    TypeOK
    OwnReplyAccepted
