-------------------------- MODULE ModbusTransaction --------------------------
(***************************************************************************)
(* What a master operation promises its caller (spec.md 4.5 and 7): one    *)
(* operation at a time; an issued request is executed by the slave at most *)
(* once, with the reference semantics of its function code; the operation  *)
(* returns 0 (no usable reply: send failure, timeout, frame error), or the  *)
(* outcome of the execution of its own request: the requested count, or    *)
(* -ec for an exception.  A request whose operation returned 0 before it   *)
(* ran may still be on its way and run later.  The slave's data changes    *)
(* only by executions.                                                     *)
(***************************************************************************)
EXTENDS Naturals, Sequences

CONSTANTS
    Calls,          \* the calls [op, pdu] the application may make
    States,         \* the slave's possible data
    MaxTx,          \* bound on the number of operations
    Exec(_, _),     \* Exec(pdu, data): the reply PDU and the data after it
    Outcome(_, _)   \* Outcome(call, reply PDU): what the operation returns

NoCall == [op |-> "none"]

VARIABLES
    data,     \* the slave's data
    cur,      \* the operation in progress, or NoCall
    outcome,  \* {what executing cur gave}, or {} before it ran
    late,     \* requests of operations that returned 0 and may still run
    rets      \* what every finished operation returned, in order

Init ==
    /\ data \in States
    /\ cur = NoCall
    /\ outcome = {}
    /\ late = {}
    /\ rets = <<>>

\* The application calls an operation; its request goes out.
Begin(c) ==
    /\ cur = NoCall /\ Len(rets) < MaxTx
    /\ cur' = [c EXCEPT !.rid = Len(rets) + 1]
    /\ UNCHANGED <<data, outcome, late, rets>>

\* The request cannot be sent: the operation returns 0 at once.
FailSend ==
    /\ cur = NoCall /\ Len(rets) < MaxTx
    /\ rets' = Append(rets, 0)
    /\ UNCHANGED <<data, cur, outcome, late>>

\* The slave executes the request of the operation in progress, once.
Execute ==
    /\ cur # NoCall /\ outcome = {}
    /\ LET r == Exec(cur.pdu, data)
       IN  /\ data' = r.st
           /\ outcome' = {Outcome(cur, r.pdu)}
    /\ UNCHANGED <<cur, late, rets>>

\* The slave executes a request whose operation has returned; requests
\* behind it may be discarded at the same time.
ExecuteLate ==
    /\ \E x \in late :
          /\ data' = Exec(x.pdu, data).st
          /\ late' \subseteq late \ {x}
    /\ UNCHANGED <<cur, outcome, rets>>

\* Late requests are lost on the way, or discarded, and never run.
Forget ==
    /\ late' \subseteq late
    /\ UNCHANGED <<data, cur, outcome, rets>>

\* The operation returns: 0, or the outcome of its execution.
Return ==
    /\ cur # NoCall
    /\ \E ret \in {0} \cup outcome :
          rets' = Append(rets, ret)
    /\ cur' = NoCall
    /\ outcome' = {}
    /\ late' \in IF outcome = {} THEN {late, late \cup {cur}} ELSE {late}
    /\ UNCHANGED data

Next == (\E c \in Calls : Begin(c)) \/ FailSend \/ Execute \/ ExecuteLate
        \/ Forget \/ Return

Spec == Init /\ [][Next]_<<data, cur, outcome, late, rets>>
=============================================================================
