----------------------------- MODULE ModbusRead -----------------------------
(***************************************************************************)
(* modbus_backend_read (src/unnamed/part_000:992-1039): the two-timer     *)
(* frame delimitation over a non-blocking port, called again and again    *)
(* by a reading loop (the slave's modbus_slave_fsm).                      *)
(*                                                                         *)
(* The line is a byte-arrival schedule: sched[k] is the time, in ms since *)
(* the first call, at which byte k is in the port's receive buffer.       *)
(* Time is kept twice: el, real time (saturated at Horizon, after which   *)
(* every byte has arrived), and tick, what modbus_port_get_ms returns: an *)
(* RT-Thread millisecond tick that wraps at TickMod (2^32 on the target). *)
(***************************************************************************)
EXTENDS Naturals, Sequences, FiniteSets

CONSTANTS
    AckTmo,     \* backend->ack_tmo_ms
    ByteTmo,    \* backend->byte_tmo_ms
    BufSize,    \* bufsize passed by the caller
    TickMod,    \* the tick counter wraps at TickMod (2^32 on the target)
    Jitter,     \* modbus_port_delay_ms(2) may resume up to Jitter ms late
    Horizon,    \* every byte of every schedule has arrived by Horizon
    Starts,     \* tick values at which the first call may begin
    Schedules   \* byte-arrival schedules (non-decreasing sequences)

ASSUME /\ AckTmo \in Nat /\ ByteTmo \in Nat /\ BufSize \in Nat \ {0}
       /\ Jitter \in Nat /\ Starts \subseteq 0..(TickMod - 1)
       /\ \A s \in Schedules : \A k \in DOMAIN s : s[k] \in 0..Horizon
       \* every timeout the loop measures fits in a signed int of the tick's width
       /\ 2 * (AckTmo + 2 + Jitter) < TickMod

VARIABLES
    sched,   \* the arrival schedule of this behaviour
    tick,    \* modbus_port_get_ms()
    el,      \* real time since the first call (ghost)
    told,    \* told_ms
    pos,     \* pos: bytes placed in buf by this call
    cons,    \* bytes taken out of the port so far (all calls)
    rstate,  \* "loop" inside modbus_backend_read, "done" after it returned
    ret,     \* the value the last call returned
    s0,      \* el when the current call began (ghost)
    b0       \* cons when the current call began (ghost)

vars == <<sched, tick, el, told, pos, cons, rstate, ret, s0, b0>>

MinOf(a, b) == IF a < b THEN a ELSE b
MaxOf(a, b) == IF a > b THEN a ELSE b

\* bytes in the port's receive buffer and not yet read
Avail == Cardinality({k \in DOMAIN sched : sched[k] <= el}) - cons

\* ops->read: the RTU driver's rt_device_read and the TCP driver's recv copy
\* what is buffered, up to the room they are given
PortReadAll(avail, room) == avail
PortRead(avail, room) == MinOf(avail, room)

\* int tmo_ms = modbus_port_get_ms() - told_ms: the difference of two tick
\* values is truncated to a signed int of the tick's width
TmoNoTrunc == tick - told
Tmo ==
    LET d == (tick - told) % TickMod
    IN  IF d >= TickMod \div 2 THEN d - TickMod ELSE d

\* the byte timeout once data has arrived, the ack timeout before
Expired == IF pos > 0 THEN Tmo > ByteTmo ELSE Tmo > AckTmo

Init ==
    /\ sched \in Schedules
    /\ tick \in Starts
    /\ el = 0
    /\ told = tick
    /\ pos = 0
    /\ cons = 0
    /\ rstate = "loop"
    /\ ret = 0
    /\ s0 = 0
    /\ b0 = 0

\* len > 0: told_ms = now, pos += len, continue
ReadDataNoTold ==
    /\ rstate = "loop" /\ pos < BufSize /\ Avail > 0
    /\ LET k == PortRead(Avail, BufSize - pos)
       IN  /\ pos' = pos + k
           /\ cons' = cons + k
    /\ UNCHANGED <<sched, tick, el, told, rstate, ret, s0, b0>>
ReadData ==
    /\ rstate = "loop" /\ pos < BufSize /\ Avail > 0
    /\ LET k == PortRead(Avail, BufSize - pos)
       IN  /\ pos' = pos + k
           /\ cons' = cons + k
    /\ told' = tick
    /\ UNCHANGED <<sched, tick, el, rstate, ret, s0, b0>>

\* len == 0 and no timeout yet: modbus_port_delay_ms(2)
ReadIdle ==
    /\ rstate = "loop" /\ pos < BufSize /\ Avail = 0
    /\ ~Expired
    /\ \E d \in 2..(2 + Jitter) :
          /\ tick' = (tick + d) % TickMod
          /\ el' = MinOf(el + d, Horizon)
    /\ UNCHANGED <<sched, told, pos, cons, rstate, ret, s0, b0>>

\* len == 0 and the applicable timeout has passed: break, return pos
ReadBreak ==
    /\ rstate = "loop" /\ pos < BufSize /\ Avail = 0
    /\ Expired
    /\ rstate' = "done"
    /\ ret' = pos
    /\ UNCHANGED <<sched, tick, el, told, pos, cons, s0, b0>>

\* while (pos < bufsize) ends: the buffer is full, return pos at once
ReadFull ==
    /\ rstate = "loop" /\ pos = BufSize
    /\ rstate' = "done"
    /\ ret' = pos
    /\ UNCHANGED <<sched, tick, el, told, pos, cons, s0, b0>>

\* the reading loop calls modbus_backend_read again: pos = 0, told = now
ReadCall ==
    /\ rstate = "done"
    /\ cons < Len(sched) \/ ret # 0
    /\ rstate' = "loop"
    /\ pos' = 0
    /\ told' = tick
    /\ s0' = el
    /\ b0' = cons
    /\ UNCHANGED <<sched, tick, el, cons, ret>>

\* every byte delivered and the last call found the line silent
Done ==
    /\ rstate = "done" /\ cons = Len(sched) /\ ret = 0
    /\ UNCHANGED vars

ReadStep == ReadData \/ ReadIdle \/ ReadBreak \/ ReadFull

Next == ReadStep \/ ReadCall \/ Done

\* The reading thread is always runnable: it only sleeps in
\* modbus_port_delay_ms, which returns; the loop calls again at once.
Spec == Init /\ [][Next]_vars /\ WF_vars(ReadStep) /\ WF_vars(ReadCall)

-----------------------------------------------------------------------------
(* Reference: how many bytes a call that begins at time s, with b bytes   *)
(* already taken, returns when the first byte must come within ackT of s *)
(* and each later byte within byteT of the time the previous one could be *)
(* read (its arrival, or s if it was already waiting); at most BufSize.   *)
RECURSIVE RunFrom(_, _, _, _, _)
RunFrom(k, prev, s, byteT, c) ==
    IF c = BufSize \/ k > Len(sched) \/ sched[k] > MaxOf(prev, s) + byteT
    THEN c
    ELSE RunFrom(k + 1, sched[k], s, byteT, c + 1)

Frame(s, b, ackT, byteT) ==
    IF b + 1 <= Len(sched) /\ sched[b + 1] <= s + ackT
    THEN RunFrom(b + 2, sched[b + 1], s, byteT, 1)
    ELSE 0

TypeOK ==
    /\ tick \in 0..(TickMod - 1) /\ told \in 0..(TickMod - 1)
    /\ el \in 0..Horizon /\ s0 \in 0..Horizon
    /\ pos \in 0..BufSize /\ cons \in 0..Len(sched) /\ b0 \in 0..cons
    /\ rstate \in {"loop", "done"} /\ ret \in 0..BufSize

\* Frame delimitation (part_000:1008-1036): every call returns all bytes
\* that follow one another within the byte timeout, the first within the
\* ack timeout, and stops at a silence longer than the timeout plus the 2 ms
\* polling quantum (and its jitter); a full buffer ends the call early and
\* the rest of the frame goes to the next call. Across a tick wrap too.
ReadDelimits ==
    rstate = "done" =>
        /\ ret = cons - b0
        /\ Frame(s0, b0, AckTmo + 1, ByteTmo + 1) <= ret
        /\ ret <= Frame(s0, b0, AckTmo + 2 + Jitter, ByteTmo + 3 + 2 * Jitter)

\* Every call of modbus_backend_read returns (the ack or byte timeout fires
\* even when the millisecond tick wraps during the wait).
ReadReturns == rstate = "loop" ~> rstate = "done"
=============================================================================
