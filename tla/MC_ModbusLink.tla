---------------------------- MODULE MC_ModbusLink ----------------------------
(***************************************************************************)
(* Model values for ModbusLink: two-register, two-coil slave data over an  *)
(* address space of 4 (addresses wrap as the uint16_t sums of the handlers *)
(* do at 2^16), register values 0..3, and one operation per master        *)
(* routine family.                                                         *)
(***************************************************************************)
EXTENDS ModbusLink, ModbusApi, TLC

MC_ValidAddrs == {0, 1}
\* Every callback but read_input (CbNames of ModbusSlave less one).
MC_CbPresent  == {"read_disc", "read_coil", "write_coil", "read_hold", "write_hold"}
MC_DiscIn     == (0 :> 1) @@ (1 :> 0)
MC_InputReg   == (0 :> 2) @@ (1 :> 3)

\* One operation of each shape: a register read, a coil read, a read of the
\* input registers (no callback installed: exception 4), single writes of
\* a coil and of a register (one at an address without a register:
\* exception 2), multiple and mask writes, and a write-and-read.
MC_Ops ==
    { ReadRegs(0, 2),
      ReadBits(0, 2),
      ReadInputRegs(0, 1),
      WriteBit(0, 1),
      WriteReg(1, 2),
      WriteReg(2, 1),
      WriteBits(0, <<1, 1>>),
      MaskWriteReg(0, 1, 2),
      WriteAndReadRegs(1, <<3>>, 0, 2) }
\* modbus_write_reg alone: its TCP routine returns 1 without reading any
\* reply field, so its result does not depend on aliased union contents.
MC_WriteRegOps ==
    { WriteReg(1, 2) }
\* A coil read and a register read: a register reply taken by the coil
\* read carries 4 bytes for a 1-byte bitmap.
MC_SplitOps ==
    { ReadBits(0, 2),
      ReadRegs(0, 2) }
=============================================================================
