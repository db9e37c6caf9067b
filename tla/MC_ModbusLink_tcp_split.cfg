\* TCP master and slave, MBAP check off, a fast slave: one reply is cut in
\* two by a pause longer than byte_tmo_ms. modbus_write_reg only.
CONSTANTS
    Prot = "TCP"
    ADDR_CHK = TRUE
    MBAP_CHK = FALSE
    MasterSaddr = 1
    SlaveSaddr = 1
    TidMod = 65536
    InstTid = 0
    WriteFails = TRUE
    MaxTx = 2
    AddrSpace = 4
    RegMax = 3
    Faults = {"split"}
    MaxFaults = 1
    SlowSlave = FALSE
    Ops <- MC_WriteRegOps
    ValidAddrs <- MC_ValidAddrs
    CbPresent <- MC_CbPresent
    DiscIn <- MC_DiscIn
    InputReg <- MC_InputReg
SPECIFICATION Spec
INVARIANTS
    ResultSound
