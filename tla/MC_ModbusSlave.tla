-------------------------- MODULE MC_ModbusSlave --------------------------
(***************************************************************************)
(* The slave alone on an RTU line.  Two addresses are backed by callbacks  *)
(* and the address space is narrowed to 4, so that a range can run off the *)
(* valid addresses (partial writes) and wrap past the top address.  The    *)
(* read_input callback is not registered.  The frames cover every handler, *)
(* every exception path, an unsupported function code, another unit's      *)
(* address and the broadcast address.                                      *)
(***************************************************************************)
EXTENDS ModbusSlave, TLC

MC_ValidAddrs == {0, 1}
MC_CbPresent  == CbNames \ {"read_input"}
MC_DiscIn     == (0 :> 1) @@ (1 :> 0)
MC_InputReg   == (0 :> 2) @@ (1 :> 3)

\* Requests for the slave's own address 1.
OwnPdus ==
    { ReadReq(FC_READ_COILS, 0, 2),
      ReadReq(FC_READ_DISCRETE_INPUTS, 1, 2),
      ReadReq(FC_READ_HOLDING_REGISTERS, 3, 2),
      ReadReq(FC_READ_INPUT_REGISTERS, 0, 1),
      WriteSingleReq(FC_WRITE_SINGLE_COIL, 0, COIL_ON),
      WriteSingleReq(FC_WRITE_SINGLE_COIL, 1, 256),
      WriteSingleReq(FC_WRITE_SINGLE_REGISTER, 1, 2),
      WriteMultiReq(FC_WRITE_MULTIPLE_COILS, 1, <<1, 0>>),
      WriteMultiReq(FC_WRITE_MULTIPLE_REGISTERS, 0, <<3, 1>>),
      MaskWriteReq(0, 1, 2),
      WriteReadReq(1, <<2>>, 0, 2),
      ReadReq(101, 0, 1) }

MC_Requests ==
    { Frame(1, 0, 0, 0, q) : q \in OwnPdus }
    \cup { Frame(2, 0, 0, 0, WriteSingleReq(FC_WRITE_SINGLE_REGISTER, 0, 1)),
           Frame(0, 0, 0, 0, WriteSingleReq(FC_WRITE_SINGLE_REGISTER, 0, 1)) }
=============================================================================
