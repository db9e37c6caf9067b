----------------------------- MODULE ModbusApi -----------------------------
EXTENDS ModbusPdu

(***************************************************************************)
(* The public API: the operation each function starts, from its arguments. *)
(* Payloads are sequences of values; the byte packing into hinst->datas   *)
(* (modbus_cvt_u16_put) and the MB_ASSERTs on pointers and nb > 0 are     *)
(* left out (callers pass nb >= 1).                                        *)
(***************************************************************************)
ReadBits(addr, nb)       == [op |-> "read_bits", pdu |-> ReadReq(FC_READ_COILS, addr, nb)]
ReadInputBits(addr, nb)  == [op |-> "read_input_bits",
                             pdu |-> ReadReq(FC_READ_DISCRETE_INPUTS, addr, nb)]
ReadRegs(addr, nb)       == [op |-> "read_regs",
                             pdu |-> ReadReq(FC_READ_HOLDING_REGISTERS, addr, nb)]
ReadInputRegs(addr, nb)  == [op |-> "read_input_regs",
                             pdu |-> ReadReq(FC_READ_INPUT_REGISTERS, addr, nb)]

\* modbus_write_bit: any non-zero bit is sent as 0xFF00, zero as 0x0000.
WriteBit(addr, bit) ==
    [op |-> "write_bit",
     pdu |-> WriteSingleReq(FC_WRITE_SINGLE_COIL, addr, IF bit # 0 THEN COIL_ON ELSE COIL_OFF)]
WriteReg(addr, val) ==
    [op |-> "write_reg", pdu |-> WriteSingleReq(FC_WRITE_SINGLE_REGISTER, addr, val)]

\* modbus_write_bits / modbus_write_regs: dlen = (nb + 7) / 8 or nb * 2.
WriteBits(addr, bits) ==
    [op |-> "write_bits", pdu |-> WriteMultiReq(FC_WRITE_MULTIPLE_COILS, addr, bits)]
WriteRegs(addr, regs) ==
    [op |-> "write_regs", pdu |-> WriteMultiReq(FC_WRITE_MULTIPLE_REGISTERS, addr, regs)]

MaskWriteReg(addr, andm, orm) ==
    [op |-> "mask_write_reg", pdu |-> MaskWriteReq(addr, andm, orm)]
WriteAndReadRegs(waddr, wregs, raddr, rnb) ==
    [op |-> "write_and_read_regs", pdu |-> WriteReadReq(waddr, wregs, raddr, rnb)]
=============================================================================
