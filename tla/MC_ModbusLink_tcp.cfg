\* TCP master and slave, unit id 1, address check on, MBAP check off, a fast
\* slave, and one lost frame on either direction.
CONSTANTS
    Prot = "TCP"
    ADDR_CHK = TRUE
    MBAP_CHK = FALSE
    MasterSaddr = 1
    SlaveSaddr = 1
    TidMod = 2
    InstTid = 0
    WriteFails = TRUE
    MaxTx = 2
    AddrSpace = 4
    RegMax = 3
    Faults = {"lose"}
    MaxFaults = 1
    SlowSlave = FALSE
    Ops <- MC_Ops
    ValidAddrs <- MC_ValidAddrs
    CbPresent <- MC_CbPresent
    DiscIn <- MC_DiscIn
    InputReg <- MC_InputReg
SPECIFICATION Spec
INVARIANTS
    OwnReplyAccepted

    
