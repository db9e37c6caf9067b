---------------------------- MODULE ModbusFrame ----------------------------
(***************************************************************************)
(* Frame codecs over pieces.  A parse result is the sign of the C return  *)
(* value: 1 for a decoded PDU (pdu_len > 0), 0 for a malformed frame, -1   *)
(* for an unsupported function code.  Byte lengths are abstracted to the   *)
(* piece kinds of ModbusPdu: a head or tail piece is too short or fails    *)
(* pdu_parse's length checks, a corrupted RTU piece fails the CRC.         *)
(***************************************************************************)
EXTENDS ModbusPdu

REQ == "req"
RSP == "rsp"

\* MB_TCP_MBAP_PID: the protocol identifier of Modbus.
MB_TCP_MBAP_PID == 0

\* pdu_parse (spec 4.3): unknown codes give -1; a request quantity out of
\* range is malformed; every exception response is decodable.
PduParse(pdu, dir) ==
    CASE dir = RSP /\ FcExceptChk(pdu.fc) -> 1
      [] pdu.fc \notin SupportedFC        -> -1
      [] dir = REQ /\ pdu.fc \in {1, 2, 3, 4} /\ pdu.nb < 1 -> 0
      [] OTHER                            -> 1

\* modbus_rtu_frame_parse (spec 4.4): fewer than 4 bytes or a CRC mismatch
\* give 0; otherwise the address is read and pdu_parse decides.
RtuFrameParse(piece, dir) ==
    IF piece.part = "whole" THEN PduParse(piece.frm.pdu, dir) ELSE 0

\* modbus_tcp_frm_parse: a piece shorter than MB_TCP_FRM_MIN returns 0
\* before the header is read; a longer but incomplete piece has its header
\* read and pdu_parse rejects the truncated PDU.  TCP never corrupts bytes.
TcpFrmParse(piece, dir) ==
    IF piece.part = "whole" THEN PduParse(piece.frm.pdu, dir) ELSE 0

\* Whether modbus_tcp_frm_parse has written the MBAP header into frm when
\* it returns 0: never for a whole frame (pdu_parse decides after the
\* header, so it is written), and either way for a cut piece, depending on
\* whether the piece reached MB_TCP_FRM_MIN bytes.
TcpHeaderRead(piece) ==
    IF piece.part = "whole" THEN {TRUE} ELSE {TRUE, FALSE}

\* modbus_tcp_frm_make: the MBAP header with dlen back-patched to
\* pdu_len + 1, followed by the PDU; the frame record carries it whole.
TcpFrmMake(tid, pid, did, rid, pdu) == Frame(did, tid, pid, rid, pdu)

\* modbus_rtu_frame_make (spec 4.4): address, PDU, CRC.
RtuFrameMake(saddr, rid, pdu) == Frame(saddr, 0, 0, rid, pdu)
=============================================================================
