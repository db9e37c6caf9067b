----------------------------- MODULE ModbusPdu -----------------------------
(***************************************************************************)
(* Function codes, exception codes and the PDU record shared by master and *)
(* slave.  The C code keeps a PDU in a union (mb_pdu_t) whose variants     *)
(* alias one another; the handlers of modbus_slave.c mutate a request      *)
(* variant in place into a response or exception variant.  Here a PDU is  *)
(* one record with every field of every variant, so that the in-place      *)
(* updates of the handlers translate to EXCEPT.  Payloads are kept as      *)
(* sequences of register or bit values, not as bytes: the byte codec       *)
(* of modbus_cvt_xxx and modbus_bitmap_xxx is a bijection the properties *)
(* do not need to see.  pdu_make and pdu_parse live outside src/ and are *)
(* modelled from the spec (sections 4.3, 4.4).                            *)
(***************************************************************************)
EXTENDS Integers, Sequences

\* Function codes (spec section 3).
FC_READ_COILS                == 1
FC_READ_DISCRETE_INPUTS      == 2
FC_READ_HOLDING_REGISTERS    == 3
FC_READ_INPUT_REGISTERS      == 4
FC_WRITE_SINGLE_COIL         == 5
FC_WRITE_SINGLE_REGISTER     == 6
FC_READ_EXCEPTION_STATUS     == 7
FC_WRITE_MULTIPLE_COILS      == 15
FC_WRITE_MULTIPLE_REGISTERS  == 16
FC_REPORT_SLAVE_ID           == 17
FC_MASK_WRITE_REGISTER       == 22
FC_WRITE_AND_READ_REGISTERS  == 23

\* Exception codes.
EC_ILLEGAL_FUNCTION          == 1
EC_ILLEGAL_DATA_ADDRESS      == 2
EC_ILLEGAL_DATA_VALUE        == 3
EC_SLAVE_OR_SERVER_FAILURE   == 4

\* The function codes pdu_parse decodes; any other code parses to -1.
SupportedFC == {1, 2, 3, 4, 5, 6, 15, 16, 22, 23}

\* The only legal values of a single-coil write.
COIL_ON  == 65280   \* 0xFF00
COIL_OFF == 0

\* MODBUS_FC_EXCEPT_MAKE / MODBUS_FC_EXCEPT_CHK: set / test bit 0x80.
FcExceptMake(fc) == IF fc >= 128 THEN fc ELSE fc + 128
FcExceptChk(fc)  == fc >= 128

(***************************************************************************)
(* The PDU record.  addr/nb serve rd_req, wr_req, wr_rsp and wr_single     *)
(* (val); andm/orm serve mask_wr; raddr/rnb/addr/nb serve wr_rd_req (addr/ *)
(* nb being the write part); dlen/data serve rd_rsp and the write payload; *)
(* ec serves exc.                                                          *)
(***************************************************************************)
Pdu(fc, addr, nb, val, andm, orm, raddr, rnb, dlen, data) ==
    [addr |-> addr, andm |-> andm, data |-> data, dlen |-> dlen, ec |-> 0,
     fc |-> fc, nb |-> nb, orm |-> orm, raddr |-> raddr, rnb |-> rnb,
     val |-> val]

\* The request PDU as a routine writes it into its own stack frame from the
\* caller's arguments: a fresh record with the fields of p (no exception).
RequestPdu(p) ==
    Pdu(p.fc, p.addr, p.nb, p.val, p.andm, p.orm, p.raddr, p.rnb, p.dlen, p.data)

\* Request constructors, one per request shape of section 4.3.
ReadReq(fc, a, n)        == Pdu(fc, a, n, 0, 0, 0, 0, 0, 0, <<>>)
WriteSingleReq(fc, a, v) == Pdu(fc, a, 0, v, 0, 0, 0, 0, 0, <<>>)
WriteMultiReq(fc, a, vs) ==
    Pdu(fc, a, Len(vs), 0, 0, 0, 0, 0,
        IF fc = FC_WRITE_MULTIPLE_COILS THEN (Len(vs) + 7) \div 8
                                        ELSE 2 * Len(vs), vs)
MaskWriteReq(a, am, om)  == Pdu(FC_MASK_WRITE_REGISTER, a, 0, 0, am, om, 0, 0, 0, <<>>)
WriteReadReq(wa, vs, ra, rn) ==
    Pdu(FC_WRITE_AND_READ_REGISTERS, wa, Len(vs), 0, 0, 0, ra, rn, 2 * Len(vs), vs)

\* The exception variant written over a PDU in place (slave handlers).
MakeException(pdu, ec) == [pdu EXCEPT !.fc = FcExceptMake(@), !.ec = ec]

\* The read-response variant written over a PDU in place.
MakeReadRsp(pdu, dlen, data) == [pdu EXCEPT !.dlen = dlen, !.data = data]

(***************************************************************************)
(* Frames and pieces.  A frame is what rtu_make/tcp_make serialise: addr   *)
(* is the RTU slave address or the MBAP unit id, tid/pid the MBAP fields   *)
(* (0 on RTU).  rid is a ghost: the index of the master transaction the    *)
(* frame belongs to (copied by the slave into its reply), used only by     *)
(* properties.  A piece is what one backend read returns: a whole frame,   *)
(* its head or tail (the frame was cut by a silence longer than            *)
(* byte_tmo_ms), or a frame with corrupted bytes (RTU line noise).         *)
(***************************************************************************)
Frame(addr, tid, pid, rid, pdu) ==
    [addr |-> addr, pdu |-> pdu, pid |-> pid, rid |-> rid, tid |-> tid]

\* The frame a master serialises for the request frame f.
RequestFrameOf(f) == Frame(f.addr, f.tid, f.pid, f.rid, RequestPdu(f.pdu))

Parts == {"whole", "head", "tail", "corrupt"}

\* The shapes of the PDU and frame records (every field a uint of the wire).
PduType ==
    [addr : Nat, andm : Nat, data : Seq(Nat), dlen : Nat, ec : Nat, fc : Nat,
     nb : Nat, orm : Nat, raddr : Nat, rnb : Nat, val : Nat]
FrameType == [addr : Nat, pdu : PduType, pid : Nat, rid : Nat, tid : Nat]

Piece(frm, part) == [frm |-> frm, part |-> part]
=============================================================================
