----------------------------- MODULE ModbusLink -----------------------------
(***************************************************************************)
(* One master instance and one slave instance on a shared line: the master *)
(* of modbus_master.c issues operations, the slave's modbus_slave_fsm      *)
(* loop answers them, and the line (serial bus or TCP stream) may lose a   *)
(* frame, corrupt its bytes (RTU noise caught by the CRC) or cut it in two *)
(* with a silence longer than byte_tmo_ms, so that one backend read        *)
(* returns a head and the next one the tail.                               *)
(***************************************************************************)
EXTENDS ModbusFrame

CONSTANTS
    Prot, ADDR_CHK, MBAP_CHK,
    MasterSaddr, TidMod, InstTid, Ops, WriteFails, MaxTx,
    SlaveSaddr, AddrSpace, RegMax, ValidAddrs, CbPresent, DiscIn, InputReg,
    Faults,      \* the kinds of line fault: subset of {"lose", "corrupt", "split"}
    MaxFaults,   \* bound on the number of line faults in a behaviour
    SlowSlave    \* whether the slave may answer after the master's ack_tmo_ms

ASSUME /\ Faults \subseteq {"lose", "corrupt", "split"}
       /\ MaxFaults \in Nat /\ SlowSlave \in BOOLEAN

VARIABLES mstate, mop, tsid, results, reqChan, rspChan, store, sLast, faults,
          lastExec  \* ghost: the rid of the last request the slave executed, and its reply

vars == <<mstate, mop, tsid, results, reqChan, rspChan, store, sLast, faults, lastExec>>

M == INSTANCE ModbusMaster
S == INSTANCE ModbusSlave WITH Requests <- {}, EnvParts <- {}, MaxReqs <- 0,
                               sent <- 0, SendFails <- WriteFails

\* The assumption of ModbusMaster on the operations (TLC checks the ASSUMEs
\* of the root module and of the modules it extends, not of instances).
ASSUME \A o \in Ops : o.op \in M!OpNames /\ o.pdu \in PduType /\ o.pdu.ec = 0

-----------------------------------------------------------------------------
\* The channels one fault can turn ch into: a whole piece is dropped,
\* corrupted (RTU only: TCP delivers the bytes it accepted) or cut in two.
Damaged(ch, kind) ==
    LET wholes == {i \in DOMAIN ch : ch[i].part = "whole"}
        pre(i) == SubSeq(ch, 1, i - 1)
        post(i) == SubSeq(ch, i + 1, Len(ch))
    IN CASE kind = "lose"    -> {pre(i) \o post(i) : i \in DOMAIN ch}
         [] kind = "corrupt" -> IF Prot = "RTU"
                                THEN {[ch EXCEPT ![i].part = "corrupt"] : i \in wholes}
                                ELSE {}
         [] kind = "split"   ->
              {pre(i) \o <<Piece(ch[i].frm, "head"), Piece(ch[i].frm, "tail")>>
                      \o post(i) : i \in wholes}

LineFault ==
    /\ faults < MaxFaults
    /\ \E kind \in Faults :
          \/ /\ \E c \in Damaged(reqChan, kind) : reqChan' = c
             /\ UNCHANGED rspChan
          \/ /\ \E c \in Damaged(rspChan, kind) : rspChan' = c
             /\ UNCHANGED reqChan
    /\ faults' = faults + 1
    /\ UNCHANGED <<mstate, mop, tsid, results, store, sLast, lastExec>>

\* The master's modbus_recv gives up after ack_tmo_ms.  Unless the slave is
\* slow, it answers within that time, so the master times out only when its
\* request is no longer on its way to the slave (lost, or dropped by it).
TimeoutAllowed ==
    SlowSlave \/ \A i \in DOMAIN reqChan : reqChan[i].frm.rid # mop.rid

Init ==
    /\ M!MasterInit
    /\ S!SlaveInit
    /\ reqChan = <<>> /\ rspChan = <<>>
    /\ faults = 0
    /\ lastExec = [rid |-> 0, rsp |-> ReadReq(0, 0, 0)]

\* Every operation has returned and the slave has drained its input.
Done ==
    /\ Len(results) = MaxTx /\ mstate = "idle" /\ reqChan = <<>>
    /\ UNCHANGED vars

\* One iteration of the slave loop; a request it executes is one it
\* answers (its unit id is the master's, so no broadcast is executed).
SlaveLoop ==
    /\ S!SlaveFsm
    /\ lastExec' = IF sLast'.out = <<>> THEN lastExec
                   ELSE [rid |-> sLast'.piece.frm.rid, rsp |-> sLast'.out[1].pdu]
    /\ UNCHANGED <<mstate, mop, tsid, results, faults>>

Next ==
    \/ \E o \in Ops : M!MasterSend(o) /\ UNCHANGED <<store, sLast, faults, lastExec>>
    \/ \E o \in Ops : M!MasterSendFail(o) /\ UNCHANGED <<store, sLast, faults, lastExec>>
    \/ M!MasterRecv /\ UNCHANGED <<store, sLast, faults, lastExec>>
    \/ M!MasterTimeout /\ TimeoutAllowed /\ UNCHANGED <<store, sLast, faults, lastExec>>
    \/ SlaveLoop
    \/ LineFault
    \/ Done

Spec == Init /\ [][Next]_vars

-----------------------------------------------------------------------------
TypeOK ==
    /\ mstate \in {"idle", "wait"}
    /\ tsid \in 0..(TidMod - 1)
    /\ store \in S!Store
    /\ faults \in 0..MaxFaults
    /\ Len(results) \in 0..MaxTx
    /\ \A i \in DOMAIN results : results[i].rid = i /\ results[i].ret \in Int
    /\ \A i \in DOMAIN reqChan : reqChan[i].part \in Parts
    /\ \A i \in DOMAIN rspChan : rspChan[i].part \in Parts

\* What the public function returns when the slave executed the request:
\* the quantity for reads and multiple writes, the byte count for the raw
\* modbus_read_req, 1 for the single and mask writes.
Expected(o) ==
    CASE o.op \in {"read_bits", "read_input_bits", "read_regs",
                   "read_input_regs", "write_bits", "write_regs"} -> o.pdu.nb
      [] o.op = "read_req" -> M!ReadDlen(o)
      [] o.op = "write_and_read_regs" -> o.pdu.rnb
      [] OTHER -> 1

\* The result r was computed from the slave's whole reply to this very
\* transaction.
FromOwnReply(r) ==
    r.piece # M!NoPiece /\ r.piece.part = "whole" /\ r.piece.frm.rid = r.rid

(***************************************************************************)
(* A master operation reports success (a positive count) only when it      *)
(* parsed the slave's intact, normal reply to this very request, and the   *)
(* count is the one that request asked for; it reports an exception -ec    *)
(* only for the slave's exception reply to it.  This is what the caller of *)
(* modbus_write_reg, modbus_read_regs and the others relies on.  It can    *)
(* fail through a stale reply to an earlier request, a cut reply, or a    *)
(* reply field aliased from the request.                                   *)
(***************************************************************************)
ResultSound ==
    \A i \in DOMAIN results :
        LET r == results[i] IN
        /\ r.ret > 0 => /\ FromOwnReply(r)
                        /\ ~FcExceptChk(r.piece.frm.pdu.fc)
                        /\ r.ret = Expected(r.op)
        /\ r.ret < 0 => /\ FromOwnReply(r)
                        /\ FcExceptChk(r.piece.frm.pdu.fc)
                        /\ r.ret = -r.piece.frm.pdu.ec

(***************************************************************************)
(* Conversely, when the master parsed the slave's whole reply to its own   *)
(* request, it accepts it: the operation returns the requested count for   *)
(* a normal reply and -ec for an exception reply.  The address and MBAP    *)
(* checks of the *_rtu / *_tcp routines must not reject a correct reply.   *)
(***************************************************************************)
OwnReplyAccepted ==
    \A i \in DOMAIN results :
        LET r == results[i] IN
        FromOwnReply(r) =>
            r.ret = IF FcExceptChk(r.piece.frm.pdu.fc) THEN -r.piece.frm.pdu.ec
                    ELSE Expected(r.op)

(***************************************************************************)
(* modbus_read_req_rtu and _tcp copy rd_rsp.dlen bytes into pdata before  *)
(* any length check (modbus_master.c:78-79, 137-138); modbus_read_bits and *)
(* modbus_read_input_bits pass the caller's pbits, a bitmap of nb bits,    *)
(* that is (nb + 7) / 8 bytes (the API's contract).  The copy must fit:    *)
(* no accepted reply to a bit read carries more bytes than were asked for. *)
(***************************************************************************)
ReadCopyFits ==
    \A i \in DOMAIN results :
        LET r == results[i] IN
        /\ r.op.op \in {"read_bits", "read_input_bits"}
        /\ M!ReachesCopy(r.piece)
        => r.piece.frm.pdu.dlen <= M!ReadDlen(r.op)

-----------------------------------------------------------------------------
(***************************************************************************)
(* Refinement of the transaction specification.  The slave's data is the  *)
(* callback state; the operation in progress is the master's while it     *)
(* waits in modbus_recv; it has been executed when the slave's last        *)
(* executed request belongs to it, with the outcome its reply carries.    *)
(***************************************************************************)
\* What an operation returns for the reply r.
TxOutcome(c, r) == IF FcExceptChk(r.fc) THEN -r.ec ELSE Expected(c)

\* The reference semantics of spec.md 4.8-4.9 (RefReply of ModbusSlave).
TxExec(q, st) == S!RefReply(q, st)

TxCur == IF mstate = "wait" THEN [op |-> mop.op, pdu |-> mop.pdu, rid |-> mop.rid]
          ELSE [op |-> "none"]

\* Requests still on their way whole whose operation has returned.
TxLate == {[op |-> results[p.frm.rid].op.op, pdu |-> p.frm.pdu, rid |-> p.frm.rid] :
             p \in {q \in {reqChan[i] : i \in DOMAIN reqChan} : q.part = "whole" /\ q.frm.rid \in DOMAIN results}}

Tx == INSTANCE ModbusTransaction
        WITH Calls <- {[op |-> o.op, pdu |-> M!Call(o).pdu, rid |-> 0] : o \in Ops}, States <- S!Store,
             Exec <- TxExec, Outcome <- TxOutcome,
             data <- store, cur <- TxCur,
             outcome <- IF mstate = "wait" /\ lastExec.rid = mop.rid
                        THEN {TxOutcome(TxCur, lastExec.rsp)} ELSE {},
             late <- TxLate,
             rets <- [i \in DOMAIN results |-> results[i].ret]

=============================================================================
