--------------------------- MODULE ModbusMaster ---------------------------
(***************************************************************************)
(* The master transaction core of modbus_master.c.  Every public operation *)
(* (modbus_read_bits ... mb_write_and_read_regs) runs the same skeleton,   *)
(* once for RTU and once for TCP: build the request frame (TCP: take a new *)
(* transaction id with hinst->tsid++), modbus_send it, modbus_recv the     *)
(* reply, parse it, check address and (TCP) MBAP header, map an exception  *)
(* reply to -ec, and compute the operation's return value.  The send and   *)
(* the receive are two steps because the slave and the line act between   *)
(* them.  A master operation is a record [op, pdu] naming the public       *)
(* function and the request PDU it builds.                                 *)
(***************************************************************************)
EXTENDS ModbusFrame, ModbusApi

CONSTANTS
    Prot,         \* hinst->prototype: "RTU" or "TCP"
    MasterSaddr,  \* hinst->saddr
    ADDR_CHK,     \* MB_USING_ADDR_CHK is defined
    MBAP_CHK,     \* MB_USING_MBAP_CHK is defined
    TidMod,       \* 2^16: hinst->tsid is a uint16_t
    InstTid,      \* hinst->tid, which no code under src/ ever assigns
    Ops,          \* the operations the application may call
    WriteFails,   \* whether modbus_send may fail (transport error)
    MaxTx         \* bound on the number of transactions

ASSUME /\ Prot \in {"RTU", "TCP"}
       /\ ADDR_CHK \in BOOLEAN /\ MBAP_CHK \in BOOLEAN /\ WriteFails \in BOOLEAN
       /\ InstTid \in 0..(TidMod - 1)
       /\ MaxTx \in Nat

OpNames == {"read_bits", "read_input_bits", "read_regs", "read_input_regs",
            "read_req", "write_bit", "write_reg", "write_bits", "write_regs",
            "mask_write_reg", "write_and_read_regs"}

NoPiece == [part |-> "none"]

\* Every operation names a public function and carries a well-formed PDU.
ASSUME \A o \in Ops : o.op \in OpNames /\ o.pdu \in PduType /\ o.pdu.ec = 0

\* The call as the routine holds it: the operation and the request PDU it
\* builds on its stack from the arguments.
Call(o) == [op |-> o.op, pdu |-> RequestPdu(o.pdu)]

VARIABLES
    mstate,   \* "idle" between operations, "wait" inside modbus_recv
    mop,      \* the operation in progress, with its ghost id rid
    tsid,     \* hinst->tsid
    results,  \* ghost: per transaction [rid, op, ret, piece parsed]
    reqChan,  \* pieces on their way to the slave
    rspChan   \* pieces on their way from the slave

masterVars == <<mstate, mop, tsid, results>>

-----------------------------------------------------------------------------
(***************************************************************************)
(* Return values.                                                          *)
(***************************************************************************)
\* The byte count a correct reply to a read carries.
ReadDlen(o) == IF o.pdu.fc \in {FC_READ_COILS, FC_READ_DISCRETE_INPUTS}
               THEN (o.pdu.nb + 7) \div 8 ELSE 2 * o.pdu.nb

\* The public function's return value, given the value r the shared
\* request routine returns (modbus_read_req for reads) or the reply PDU.
\* modbus_read_bits: r unless r is the expected byte count, then nb.
\* modbus_read_regs: r if r <= 0, 0 unless r = 2 nb, then nb.
OpReturn(o, r) ==
    CASE o.op \in {"read_bits", "read_input_bits"} ->
           IF r # (o.pdu.nb + 7) \div 8 THEN r ELSE o.pdu.nb
      [] o.op \in {"read_regs", "read_input_regs"} ->
           IF r <= 0 THEN r ELSE IF r # 2 * o.pdu.nb THEN 0 ELSE o.pdu.nb
      [] OTHER -> r

\* Mutation of AcceptedReturn: write_and_read compares dlen with rd_nb,
\* a register count, instead of a byte count.
AcceptedReturnWrRdCount(o, pdu) ==
    CASE o.op \in {"read_bits", "read_input_bits", "read_regs",
                   "read_input_regs", "read_req"} -> OpReturn(o, pdu.dlen)
      [] o.op \in {"write_bits", "write_regs"} -> pdu.nb
      [] o.op = "write_and_read_regs" ->
           IF pdu.dlen # o.pdu.rnb THEN 0 ELSE o.pdu.rnb
      [] OTHER -> 1

\* The tail of each *_rtu / *_tcp routine once the reply is accepted and is
\* not an exception: reads copy rd_rsp.dlen bytes and return dlen;
\* write_req returns wr_rsp.nb; write_single and mask_write return 1;
\* write_and_read returns rd_nb when dlen = 2 rd_nb, else 0.
AcceptedReturn(o, pdu) ==
    CASE o.op \in {"read_bits", "read_input_bits", "read_regs",
                   "read_input_regs", "read_req"} -> OpReturn(o, pdu.dlen)
      [] o.op \in {"write_bits", "write_regs"} -> pdu.nb
      [] o.op = "write_and_read_regs" ->
           IF pdu.dlen # 2 * o.pdu.rnb THEN 0 ELSE o.pdu.rnb
      [] OTHER -> 1

\* After the address/MBAP checks: an exception reply gives -ec.
ReplyReturn(o, pdu) ==
    IF FcExceptChk(pdu.fc) THEN OpReturn(o, -pdu.ec) ELSE AcceptedReturn(o, pdu)

\* MB_USING_ADDR_CHK: a reply from another slave address or unit id.
AddrReject(addr) == ADDR_CHK /\ addr # MasterSaddr

\* MB_USING_MBAP_CHK: the reply's tid against hinst->tid, its pid, and
\* (bad) its dlen against pdu_len + 1.
MbapReject(frm, bad) == MBAP_CHK /\ (frm.tid # InstTid \/ frm.pid # MB_TCP_MBAP_PID \/ bad)

\* modbus_read_req_rtu/_tcp reach memcpy(pdata, rd_rsp.pdata, dlen) with a
\* whole reply that parses, passes the checks and is no exception; the
\* number of bytes copied is the reply's dlen, whatever was requested.
ReachesCopy(piece) ==
    /\ piece.part = "whole"
    /\ PduParse(piece.frm.pdu, RSP) > 0
    /\ ~AddrReject(piece.frm.addr)
    /\ ~MbapReject(piece.frm, FALSE)
    /\ ~FcExceptChk(piece.frm.pdu.fc)

\* modbus_*_rtu after modbus_recv returned the piece: a parse result
\* <= 0 gives 0, then the address check.
RtuReturns(o, piece) ==
    LET len == RtuFrameParse(piece, RSP)
        frm == piece.frm
    IN { CASE len <= 0            -> OpReturn(o, 0)
           [] AddrReject(frm.addr) -> OpReturn(o, 0)
           [] OTHER               -> ReplyReturn(o, frm.pdu) }

(***************************************************************************)
(* modbus_*_tcp after modbus_recv returned the piece.  Only a parse result *)
(* < 0 gives 0: on 0 the routine goes on with frm as the parser left it.   *)
(* frm still holds the request frame built on the stack, with the MBAP     *)
(* header overwritten if the piece reached MB_TCP_FRM_MIN bytes; its       *)
(* mbap.dlen was never written by modbus_tcp_frm_make (an uninitialized    *)
(* read), and the response fields the tail reads alias request fields of   *)
(* the mb_pdu_t union: wr_rsp.nb is wr_req.nb, rd_rsp.dlen is an unknown   *)
(* value, taken here as either the expected count or 0.                    *)
(***************************************************************************)
TcpReturns(o, piece, reqFrm) ==
    LET len == TcpFrmParse(piece, RSP)
    IN IF len < 0 THEN {OpReturn(o, 0)}
       ELSE UNION {
         LET frm == IF len > 0 \/ hdr THEN [reqFrm EXCEPT !.addr = piece.frm.addr,
                                  !.tid = piece.frm.tid, !.pid = piece.frm.pid,
                                  !.pdu = IF len > 0 THEN piece.frm.pdu ELSE @]
                    ELSE reqFrm
             dlenBad == IF len > 0 THEN {FALSE}
                        ELSE IF hdr THEN {TRUE} ELSE BOOLEAN
             pdus == IF len > 0 \/ o.op \notin {"read_bits", "read_input_bits",
                        "read_regs", "read_input_regs", "read_req", "write_and_read_regs"}
                     THEN {frm.pdu}
                     ELSE {[frm.pdu EXCEPT !.dlen = d] :
                               d \in {0, IF o.op = "write_and_read_regs"
                                         THEN 2 * o.pdu.rnb ELSE ReadDlen(o)}}
         IN { (CASE AddrReject(frm.addr) -> OpReturn(o, 0)
                 [] MbapReject(frm, bad)  -> OpReturn(o, 0)
                 [] OTHER                 -> ReplyReturn(o, p)) : bad \in dlenBad, p \in pdus }
         : hdr \in TcpHeaderRead(piece) }

\* The public functions switch on hinst->prototype to the _rtu or _tcp
\* routine; the request frame built on the stack is reqFrm.
RoutineReturns(o, piece, reqFrm) ==
    IF Prot = "RTU" THEN RtuReturns(o, piece) ELSE TcpReturns(o, piece, reqFrm)

-----------------------------------------------------------------------------
(***************************************************************************)
(* Actions.                                                                *)
(***************************************************************************)
MasterInit ==
    /\ mstate = "idle"
    /\ mop = [op |-> "none", pdu |-> ReadReq(0, 0, 0), rid |-> 0, tid |-> 0]
    /\ tsid = 0
    /\ results = <<>>

\* The request frame of the operation: RTU address + PDU, or MBAP header
\* with the new tsid, pid 0 and unit id hinst->saddr.
RequestFrame(o, rid, tid) ==
    IF Prot = "RTU" THEN RtuFrameMake(MasterSaddr, rid, o.pdu)
                    ELSE TcpFrmMake(tid, MB_TCP_MBAP_PID, MasterSaddr, rid, o.pdu)

\* modbus_send: flush the input (modbus_backend_flush discards what has
\* arrived: a prefix of rspChan), then write the frame.
Flush == \E k \in 0..Len(rspChan) : rspChan' = SubSeq(rspChan, k + 1, Len(rspChan))

\* Start of an operation up to a successful modbus_send.  TCP takes the
\* next transaction id first (hinst->tsid++).
MasterSend(o) ==
    /\ mstate = "idle"
    /\ Len(results) < MaxTx
    /\ LET rid == Len(results) + 1
           tid == IF Prot = "TCP" THEN (tsid + 1) % TidMod ELSE tsid
       IN /\ tsid' = tid
          /\ Flush
          /\ reqChan' = Append(reqChan, Piece(RequestFrame(Call(o), rid, tid), "whole"))
          /\ mop' = [op |-> o.op, pdu |-> RequestPdu(o.pdu), rid |-> rid, tid |-> tid]
    /\ mstate' = "wait"
    /\ UNCHANGED results

\* An operation whose modbus_send fails (slen != flen): it returns 0; the
\* TCP transaction id is consumed all the same.
MasterSendFail(o) ==
    /\ WriteFails
    /\ mstate = "idle"
    /\ Len(results) < MaxTx
    /\ tsid' = IF Prot = "TCP" THEN (tsid + 1) % TidMod ELSE tsid
    /\ Flush
    /\ results' = Append(results, [op |-> Call(o), piece |-> NoPiece,
                                   ret |-> OpReturn(o, 0), rid |-> Len(results) + 1])
    /\ UNCHANGED <<mstate, mop, reqChan>>

\* modbus_recv returned a piece; the routine parses, checks and returns.
MasterRecv ==
    /\ mstate = "wait"
    /\ rspChan # <<>>
    /\ LET piece == Head(rspChan)
           o     == [op |-> mop.op, pdu |-> mop.pdu]
           rets  == RoutineReturns(o, piece,
                        TcpFrmMake(mop.tid, MB_TCP_MBAP_PID, MasterSaddr, mop.rid, mop.pdu))
       IN \E ret \in rets :
            /\ rspChan' = Tail(rspChan)
            /\ results' = Append(results, [op |-> o, piece |-> piece,
                                           ret |-> ret, rid |-> mop.rid])
    /\ mstate' = "idle"
    /\ UNCHANGED <<mop, tsid, reqChan>>

\* modbus_recv returned 0: nothing arrived within ack_tmo_ms.
MasterTimeout ==
    /\ mstate = "wait"
    /\ rspChan = <<>>
    /\ results' = Append(results, [op |-> [op |-> mop.op, pdu |-> mop.pdu],
                                   piece |-> NoPiece, ret |-> OpReturn(mop, 0),
                                   rid |-> mop.rid])
    /\ mstate' = "idle"
    /\ UNCHANGED <<mop, tsid, reqChan, rspChan>>
=============================================================================
