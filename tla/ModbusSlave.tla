---------------------------- MODULE ModbusSlave ----------------------------
(***************************************************************************)
(* The slave dispatch core of modbus_slave.c: modbus_slave_fsm receives    *)
(* one piece, modbus_slave_recv_deal_{rtu,tcp} parses and filters it,      *)
(* modbus_slave_pdu_deal dispatches it to a handler that calls the user    *)
(* callbacks and rewrites the PDU in place into a response or exception,   *)
(* and the reply is framed and sent.  The user state behind the callbacks  *)
(* (holding registers and coils) is the variable store; a callback         *)
(* accepts exactly the addresses of ValidAddrs and returns -2 (illegal     *)
(* data address) for the others, which is the contract of the weak         *)
(* modbus_port_* defaults (ValidAddrs = {}) and of the application         *)
(* callbacks of the repository's README.                                   *)
(***************************************************************************)
EXTENDS ModbusFrame, Bitwise

CONSTANTS
    Prot,        \* hinst->prototype: "RTU" or "TCP"
    SlaveSaddr,  \* hinst->saddr
    ADDR_CHK,    \* MB_USING_ADDR_CHK is defined
    MBAP_CHK,    \* MB_USING_MBAP_CHK is defined
    AddrSpace,   \* 2^16: a uint16_t register address wraps at AddrSpace
    RegMax,      \* largest register value (0xFFFF, narrowed in models)
    ValidAddrs,  \* addresses the callbacks accept
    CbPresent,   \* names of the callbacks registered in hinst->cb
    DiscIn,      \* discrete inputs seen by read_disc, ValidAddrs -> {0,1}
    InputReg,    \* input registers seen by read_input, ValidAddrs -> Vals
    Requests,    \* frames a master may send (standalone specification)
    EnvParts,    \* how those frames may arrive: subset of Parts
    MaxReqs,     \* bound on the pieces the environment sends
    SendFails    \* whether the slave's modbus_send may fail to write

CbNames == {"read_disc", "read_coil", "write_coil",
            "read_input", "read_hold", "write_hold"}
Vals == 0..RegMax

ASSUME /\ Prot \in {"RTU", "TCP"}
       /\ ADDR_CHK \in BOOLEAN /\ MBAP_CHK \in BOOLEAN
       /\ ValidAddrs \subseteq 0..(AddrSpace - 1)
       /\ CbPresent \subseteq CbNames
       /\ DiscIn \in [ValidAddrs -> {0, 1}]
       /\ InputReg \in [ValidAddrs -> Vals]
       /\ SendFails \in BOOLEAN
       /\ \A f \in Requests : f \in FrameType

Store == [hold : [ValidAddrs -> Vals], coil : [ValidAddrs -> {0, 1}]]

(***************************************************************************)
(* The callbacks of mb_cb_table_t, as results [rst, val] or [rst, st].     *)
(***************************************************************************)
ReadDisc(st, a)  == IF a \in ValidAddrs THEN [rst |-> 0, val |-> DiscIn[a]]
                                        ELSE [rst |-> -2, val |-> 0]
ReadCoil(st, a)  == IF a \in ValidAddrs THEN [rst |-> 0, val |-> st.coil[a]]
                                        ELSE [rst |-> -2, val |-> 0]
ReadInput(st, a) == IF a \in ValidAddrs THEN [rst |-> 0, val |-> InputReg[a]]
                                        ELSE [rst |-> -2, val |-> 0]
ReadHold(st, a)  == IF a \in ValidAddrs THEN [rst |-> 0, val |-> st.hold[a]]
                                        ELSE [rst |-> -2, val |-> 0]
WriteCoil(st, a, b) ==
    IF a \in ValidAddrs THEN [rst |-> 0, st |-> [st EXCEPT !.coil[a] = b]]
                        ELSE [rst |-> -2, st |-> st]
WriteHold(st, a, v) ==
    IF a \in ValidAddrs THEN [rst |-> 0, st |-> [st EXCEPT !.hold[a] = v]]
                        ELSE [rst |-> -2, st |-> st]

\* addr + i passed as a uint16_t callback argument.
AddrAt(a, i) == (a + i) % AddrSpace

(***************************************************************************)
(* The handler loops: one callback per address in order, returning at the  *)
(* first negative result with ec = -rst.  A write loop keeps the writes    *)
(* made before the failing one: they are side effects of the callbacks.    *)
(***************************************************************************)
\* hinst->cb->read_xxx / write_xxx: the callback registered under a name.
ReadCb(cb, st, a) ==
    CASE cb = "read_disc"  -> ReadDisc(st, a)
      [] cb = "read_coil"  -> ReadCoil(st, a)
      [] cb = "read_input" -> ReadInput(st, a)
      [] cb = "read_hold"  -> ReadHold(st, a)
WriteCb(cb, st, a, v) ==
    IF cb = "write_coil" THEN WriteCoil(st, a, v) ELSE WriteHold(st, a, v)

RECURSIVE ReadRun(_, _, _, _, _)
ReadRun(cb, st, a, n, i) ==
    IF i = n THEN [data |-> <<>>, ec |-> 0]
    ELSE LET r == ReadCb(cb, st, AddrAt(a, i))
         IN IF r.rst < 0 THEN [data |-> <<>>, ec |-> -r.rst]
            ELSE LET rest == ReadRun(cb, st, a, n, i + 1)
                 IN [data |-> <<r.val>> \o rest.data, ec |-> rest.ec]

RECURSIVE WriteRun(_, _, _, _, _)
WriteRun(cb, st, a, vs, i) ==
    IF i = Len(vs) THEN [ec |-> 0, st |-> st]
    ELSE LET r == WriteCb(cb, st, AddrAt(a, i), vs[i + 1])
         IN IF r.rst < 0 THEN [ec |-> -r.rst, st |-> st]
            ELSE WriteRun(cb, r.st, a, vs, i + 1)

Missing(names) == ~(names \subseteq CbPresent)

(***************************************************************************)
(* The handlers, each [pdu, st]: the rewritten PDU and the callback state. *)
(***************************************************************************)
\* modbus_slave_pdu_deal_read_coils/_read_discs/_read_holds/_read_inputs.
DealRead(cb, bits, pdu, st) ==
    LET r == ReadRun(cb, st, pdu.addr, pdu.nb, 0)
    IN [st |-> st,
        pdu |-> CASE Missing({cb}) -> MakeException(pdu, EC_SLAVE_OR_SERVER_FAILURE)
                  [] r.ec # 0      -> MakeException(pdu, r.ec)
                  [] OTHER -> MakeReadRsp(pdu, IF bits THEN (pdu.nb + 7) \div 8
                                                       ELSE 2 * pdu.nb, r.data)]

\* Mutation of DealWriteCoil: the raw 16-bit value is passed to the
\* callback instead of the 0/1 state.
DealWriteCoilRawVal(pdu, st) ==
    LET r == WriteCoil(st, pdu.addr, pdu.val)
    IN CASE Missing({"write_coil"}) ->
              [pdu |-> MakeException(pdu, EC_SLAVE_OR_SERVER_FAILURE), st |-> st]
         [] pdu.val \notin {COIL_ON, COIL_OFF} ->
              [pdu |-> MakeException(pdu, EC_ILLEGAL_DATA_VALUE), st |-> st]
         [] r.rst < 0 -> [pdu |-> MakeException(pdu, -r.rst), st |-> st]
         [] OTHER     -> [pdu |-> pdu, st |-> r.st]

\* modbus_slave_pdu_deal_write_coil: value check after the callback check.
DealWriteCoil(pdu, st) ==
    LET r == WriteCoil(st, pdu.addr, IF pdu.val # 0 THEN 1 ELSE 0)
    IN CASE Missing({"write_coil"}) ->
              [pdu |-> MakeException(pdu, EC_SLAVE_OR_SERVER_FAILURE), st |-> st]
         [] pdu.val \notin {COIL_ON, COIL_OFF} ->
              [pdu |-> MakeException(pdu, EC_ILLEGAL_DATA_VALUE), st |-> st]
         [] r.rst < 0 -> [pdu |-> MakeException(pdu, -r.rst), st |-> st]
         [] OTHER     -> [pdu |-> pdu, st |-> r.st]

\* modbus_slave_pdu_deal_write_reg: the reply echoes the request.
DealWriteReg(pdu, st) ==
    LET r == WriteHold(st, pdu.addr, pdu.val)
    IN CASE Missing({"write_hold"}) ->
              [pdu |-> MakeException(pdu, EC_SLAVE_OR_SERVER_FAILURE), st |-> st]
         [] r.rst < 0 -> [pdu |-> MakeException(pdu, -r.rst), st |-> st]
         [] OTHER     -> [pdu |-> pdu, st |-> r.st]

\* modbus_slave_pdu_deal_write_coils/_write_regs: the reply is wr_rsp,
\* i.e. the addr and nb fields the request already holds.
DealWriteMulti(cb, pdu, st) ==
    LET r == WriteRun(cb, st, pdu.addr, pdu.data, 0)
    IN CASE Missing({cb}) ->
              [pdu |-> MakeException(pdu, EC_SLAVE_OR_SERVER_FAILURE), st |-> st]
         [] r.ec # 0 -> [pdu |-> MakeException(pdu, r.ec), st |-> r.st]
         [] OTHER    -> [pdu |-> pdu, st |-> r.st]

\* ~val_and of a uint16_t, narrowed to the register width.
Compl(x) == RegMax - x

\* modbus_slave_pdu_deal_mask_write_reg: read, combine, write back.
DealMaskWrite(pdu, st) ==
    LET rd  == ReadHold(st, pdu.addr)
        new == (rd.val & pdu.andm) | (pdu.orm & Compl(pdu.andm))
        wr  == WriteHold(st, pdu.addr, new)
    IN CASE Missing({"read_hold", "write_hold"}) ->
              [pdu |-> MakeException(pdu, EC_SLAVE_OR_SERVER_FAILURE), st |-> st]
         [] rd.rst < 0 -> [pdu |-> MakeException(pdu, -rd.rst), st |-> st]
         [] wr.rst < 0 -> [pdu |-> MakeException(pdu, -wr.rst), st |-> st]
         [] OTHER      -> [pdu |-> pdu, st |-> wr.st]

\* Mutation of DealWriteRead: the reads run before the writes.
DealWriteReadReadFirst(pdu, st) ==
    LET w == WriteRun("write_hold", st, pdu.addr, pdu.data, 0)
        r == ReadRun("read_hold", st, pdu.raddr, pdu.rnb, 0)
    IN CASE Missing({"read_hold", "write_hold"}) ->
              [pdu |-> MakeException(pdu, EC_SLAVE_OR_SERVER_FAILURE), st |-> st]
         [] w.ec # 0 -> [pdu |-> MakeException(pdu, w.ec), st |-> w.st]
         [] r.ec # 0 -> [pdu |-> MakeException(pdu, r.ec), st |-> w.st]
         [] OTHER    -> [pdu |-> MakeReadRsp(pdu, 2 * pdu.rnb, r.data), st |-> w.st]

\* modbus_slave_pdu_deal_write_and_read_regs: the writes, then the reads
\* over the state the writes left.
DealWriteRead(pdu, st) ==
    LET w == WriteRun("write_hold", st, pdu.addr, pdu.data, 0)
        r == ReadRun("read_hold", w.st, pdu.raddr, pdu.rnb, 0)
    IN CASE Missing({"read_hold", "write_hold"}) ->
              [pdu |-> MakeException(pdu, EC_SLAVE_OR_SERVER_FAILURE), st |-> st]
         [] w.ec # 0 -> [pdu |-> MakeException(pdu, w.ec), st |-> w.st]
         [] r.ec # 0 -> [pdu |-> MakeException(pdu, r.ec), st |-> w.st]
         [] OTHER    -> [pdu |-> MakeReadRsp(pdu, 2 * pdu.rnb, r.data), st |-> w.st]

\* modbus_slave_pdu_deal: dispatch on the function code; 0x07, 0x11 and
\* unknown codes leave the PDU as it is.
PduDeal(pdu, st) ==
    CASE pdu.fc = FC_READ_COILS ->
           DealRead("read_coil", TRUE, pdu, st)
      [] pdu.fc = FC_READ_DISCRETE_INPUTS ->
           DealRead("read_disc", TRUE, pdu, st)
      [] pdu.fc = FC_READ_HOLDING_REGISTERS ->
           DealRead("read_hold", FALSE, pdu, st)
      [] pdu.fc = FC_READ_INPUT_REGISTERS ->
           DealRead("read_input", FALSE, pdu, st)
      [] pdu.fc = FC_WRITE_SINGLE_COIL       -> DealWriteCoil(pdu, st)
      [] pdu.fc = FC_WRITE_SINGLE_REGISTER   -> DealWriteReg(pdu, st)
      [] pdu.fc = FC_WRITE_MULTIPLE_COILS    ->
           DealWriteMulti("write_coil", pdu, st)
      [] pdu.fc = FC_WRITE_MULTIPLE_REGISTERS ->
           DealWriteMulti("write_hold", pdu, st)
      [] pdu.fc = FC_MASK_WRITE_REGISTER     -> DealMaskWrite(pdu, st)
      [] pdu.fc = FC_WRITE_AND_READ_REGISTERS -> DealWriteRead(pdu, st)
      [] OTHER -> [pdu |-> pdu, st |-> st]

(***************************************************************************)
(* modbus_slave_recv_deal_rtu / _tcp: the reply frame to send, or         *)
(* <<>> for a dropped frame, and the callback state afterwards.            *)
(***************************************************************************)

RecvDealRtu(piece, st) ==
    LET len == RtuFrameParse(piece, REQ)
        frm == piece.frm
        d   == PduDeal(frm.pdu, st)
    IN CASE len = 0                                -> [out |-> <<>>, st |-> st]
         [] ADDR_CHK /\ frm.addr # SlaveSaddr      -> [out |-> <<>>, st |-> st]
         [] len < 0 ->
              [out |-> <<[frm EXCEPT !.pdu = MakeException(@, EC_ILLEGAL_FUNCTION)]>>,
               st |-> st]
         [] OTHER -> [out |-> <<[frm EXCEPT !.pdu = d.pdu]>>, st |-> d.st]

RecvDealTcp(piece, st) ==
    LET len == TcpFrmParse(piece, REQ)
        frm == piece.frm
        d   == PduDeal(frm.pdu, st)
    IN CASE len = 0                                -> [out |-> <<>>, st |-> st]
         [] ADDR_CHK /\ frm.addr # 255 /\ frm.addr # SlaveSaddr
                                                   -> [out |-> <<>>, st |-> st]
         [] MBAP_CHK /\ frm.pid # 0                -> [out |-> <<>>, st |-> st]
         [] len < 0 ->
              [out |-> <<[frm EXCEPT !.pdu = MakeException(@, EC_ILLEGAL_FUNCTION)]>>,
               st |-> st]
         [] OTHER -> [out |-> <<[frm EXCEPT !.pdu = d.pdu]>>, st |-> d.st]

RecvDeal(piece, st) ==
    IF Prot = "RTU" THEN RecvDealRtu(piece, st) ELSE RecvDealTcp(piece, st)

-----------------------------------------------------------------------------
VARIABLES
    store,    \* the state behind the callbacks
    reqChan,  \* pieces on their way to the slave
    rspChan,  \* pieces on their way from the slave
    sLast     \* ghost: the last piece handled, the state before and after
              \* it and the frames sent for it

VARIABLE sent  \* pieces the environment has sent (standalone specification)

slaveVars == <<store, sLast>>
vars == <<store, reqChan, rspChan, sLast, sent>>

NoStep == [piece |-> "none"]

\* modbus_send of the reply, whose result recv_deal ignores: flush the
\* input (a prefix of what is still on its way, rest, is discarded), then
\* write the frames; the write may fail, and the reply is then lost.
SlaveSend(rest, out) ==
    /\ \E k \in 0..Len(rest) : reqChan' = SubSeq(rest, k + 1, Len(rest))
    /\ \/ rspChan' = rspChan \o [i \in DOMAIN out |-> Piece(out[i], "whole")]
       \/ SendFails /\ rspChan' = rspChan

\* modbus_slave_fsm, one iteration that received a piece: modbus_recv
\* returns it, modbus_slave_recv_deal handles it and, when there is a
\* reply, sends it.
SlaveFsm ==
    /\ reqChan # <<>>
    /\ LET piece == Head(reqChan)
           r     == RecvDeal(piece, store)
       IN /\ IF r.out = <<>> THEN reqChan' = Tail(reqChan) /\ UNCHANGED rspChan
                             ELSE SlaveSend(Tail(reqChan), r.out)
          /\ store' = r.st
          /\ sLast' = [out |-> r.out, piece |-> piece, post |-> r.st, pre |-> store]

-----------------------------------------------------------------------------
(***************************************************************************)
(* The slave on its own: any master sends frames of Requests, whole or cut *)
(* or corrupted on the way; the callback state starts arbitrary.           *)
(***************************************************************************)
SlaveInit ==
    /\ store \in Store
    /\ sLast = NoStep

Init ==
    /\ SlaveInit
    /\ reqChan = <<>>
    /\ rspChan = <<>>
    /\ sent = 0

EnvSend ==
    /\ sent < MaxReqs
    /\ \E f \in Requests, part \in EnvParts :
          reqChan' = Append(reqChan, Piece(RequestFrameOf(f), part))
    /\ sent' = sent + 1
    /\ UNCHANGED <<store, rspChan, sLast>>

\* The last request has been answered: nothing more happens.
Done ==
    /\ sent = MaxReqs /\ reqChan = <<>>
    /\ UNCHANGED vars

Next == EnvSend \/ (SlaveFsm /\ UNCHANGED sent) \/ Done

Spec == Init /\ [][Next]_vars

-----------------------------------------------------------------------------
TypeOK ==
    /\ store \in Store
    /\ sent \in 0..MaxReqs
    /\ \A i \in DOMAIN reqChan : reqChan[i].part \in Parts
    /\ sLast = NoStep \/ (sLast.pre \in Store /\ sLast.post \in Store)

(***************************************************************************)
(* Reference semantics of one request, written from spec 4.8-4.9 rather    *)
(* than from the loops: the writes a request asks for, in order, and the   *)
(* addresses it reads; the first write at an address no callback accepts   *)
(* stops the writes after it.                                              *)
(***************************************************************************)
\* The writes as a sequence of [sp ("hold" or "coil"), a, v].
RefWrites(q, pre) ==
    LET W(sp, a, v) == [sp |-> sp, a |-> a, v |-> v]
        maskv == IF q.addr \in ValidAddrs
                 THEN (pre.hold[q.addr] & q.andm) | (q.orm & Compl(q.andm)) ELSE 0
    IN CASE q.fc = FC_WRITE_SINGLE_COIL -> <<W("coil", q.addr, IF q.val = COIL_ON THEN 1 ELSE 0)>>
         [] q.fc = FC_WRITE_SINGLE_REGISTER -> <<W("hold", q.addr, q.val)>>
         [] q.fc = FC_WRITE_MULTIPLE_COILS ->
              [i \in 1..Len(q.data) |-> W("coil", AddrAt(q.addr, i - 1), q.data[i])]
         [] q.fc \in {FC_WRITE_MULTIPLE_REGISTERS, FC_WRITE_AND_READ_REGISTERS} ->
              [i \in 1..Len(q.data) |-> W("hold", AddrAt(q.addr, i - 1), q.data[i])]
         [] q.fc = FC_MASK_WRITE_REGISTER -> <<W("hold", q.addr, maskv)>>
         [] OTHER -> <<>>

\* The addresses read, and the register space they are read from.
RefReads(q) ==
    CASE q.fc \in {1, 2, 3, 4}                -> [i \in 1..q.nb |-> AddrAt(q.addr, i - 1)]
      [] q.fc = FC_WRITE_AND_READ_REGISTERS -> [i \in 1..q.rnb |-> AddrAt(q.raddr, i - 1)]
      [] OTHER                              -> <<>>

RefSpace(q) == CASE q.fc = 1 -> "coil" [] q.fc = 2 -> "disc"
                 [] q.fc = 4 -> "input" [] OTHER -> "hold"

RefCallbacks(q) ==
    CASE q.fc = 1 -> {"read_coil"} [] q.fc = 2 -> {"read_disc"}
      [] q.fc = 3 -> {"read_hold"} [] q.fc = 4 -> {"read_input"}
      [] q.fc \in {5, 15} -> {"write_coil"} [] q.fc \in {6, 16} -> {"write_hold"}
      [] OTHER -> {"read_hold", "write_hold"}

\* The state after the first n writes of ws.
RefApply(pre, ws, n) ==
    [hold |-> [x \in ValidAddrs |->
                 LET js == {j \in 1..n : ws[j].sp = "hold" /\ ws[j].a = x}
                 IN IF js = {} THEN pre.hold[x]
                    ELSE ws[CHOOSE j \in js : \A k \in js : k <= j].v],
     coil |-> [x \in ValidAddrs |->
                 LET js == {j \in 1..n : ws[j].sp = "coil" /\ ws[j].a = x}
                 IN IF js = {} THEN pre.coil[x]
                    ELSE ws[CHOOSE j \in js : \A k \in js : k <= j].v]]

RefValue(st, sp, a) ==
    CASE sp = "coil" -> st.coil[a] [] sp = "disc" -> DiscIn[a]
      [] sp = "input" -> InputReg[a] [] OTHER -> st.hold[a]

\* The reply PDU and final state the spec asks for.
RefReply(q, pre) ==
    LET ws   == RefWrites(q, pre)
        rs   == RefReads(q)
        bad  == {j \in 1..Len(ws) : ws[j].a \notin ValidAddrs}
        nw   == IF bad = {} THEN Len(ws) ELSE CHOOSE j \in bad : \A k \in bad : j <= k
        post == RefApply(pre, ws, IF bad = {} THEN nw ELSE nw - 1)
        rbad == \E i \in DOMAIN rs : rs[i] \notin ValidAddrs
        rdlen == IF q.fc \in {1, 2} THEN (q.nb + 7) \div 8 ELSE 2 * Len(rs)
    IN CASE PduParse(q, REQ) = -1 ->
              [pdu |-> MakeException(q, EC_ILLEGAL_FUNCTION), st |-> pre]
         [] ~(RefCallbacks(q) \subseteq CbPresent) ->
              [pdu |-> MakeException(q, EC_SLAVE_OR_SERVER_FAILURE), st |-> pre]
         [] q.fc = FC_WRITE_SINGLE_COIL /\ q.val \notin {COIL_ON, COIL_OFF} ->
              [pdu |-> MakeException(q, EC_ILLEGAL_DATA_VALUE), st |-> pre]
         [] bad # {} \/ (q.fc = FC_MASK_WRITE_REGISTER /\ q.addr \notin ValidAddrs) ->
              [pdu |-> MakeException(q, EC_ILLEGAL_DATA_ADDRESS), st |-> post]
         [] rbad -> [pdu |-> MakeException(q, EC_ILLEGAL_DATA_ADDRESS), st |-> post]
         [] rs # <<>> ->
              [pdu |-> MakeReadRsp(q, rdlen, [i \in DOMAIN rs |-> RefValue(post, RefSpace(q), rs[i])]),
               st |-> post]
         [] OTHER -> [pdu |-> q, st |-> post]

\* Every request the slave answers is answered, and applied to the
\* callback state, as the spec's reference semantics says: a normal reply
\* only when every callback succeeded, with the values read after the
\* writes (0x17); an exception with the code of the first failure; and
\* exactly the writes before the first rejected address left applied.
\* This is about the loops, early returns and in-place PDU rewriting of
\* the modbus_slave_pdu_deal_* handlers; and a whole frame for the slave's
\* own address always gets a reply.
ReplyMatchesReference ==
    sLast # NoStep =>
        /\ sLast.piece.part = "whole" /\ sLast.piece.frm.addr = SlaveSaddr
               => sLast.out # <<>>
        /\ sLast.out # <<>> =>
               LET ref == RefReply(sLast.piece.frm.pdu, sLast.pre)
               IN /\ sLast.out[1].pdu = ref.pdu
                  /\ sLast.post = ref.st

\* An RTU broadcast (address 0) is carried out but not answered (spec 4.8
\* and P8).  This is about modbus_slave_recv_deal_rtu, which has no case
\* for address 0.
BroadcastAppliedSilently ==
    sLast # NoStep /\ Prot = "RTU" /\ sLast.piece.part = "whole"
        /\ sLast.piece.frm.addr = 0 =>
            /\ sLast.out = <<>>
            /\ sLast.post = RefReply(sLast.piece.frm.pdu, sLast.pre).st
=============================================================================
