---------------------------- MODULE ModbusBackend ----------------------------
(***************************************************************************)
(* The transport backend's lifecycle (src/unnamed/part_000:334-930):      *)
(* create for RTU, TCP or an adopted socket, open, close, destroy, and    *)
(* the outcome of a read, driven by the loop of modbus_slave_fsm          *)
(* (modbus_slave.c:832-849: connect, then recv) and by the application,  *)
(* which may call modbus_backend_close or modbus_backend_destory between *)
(* two iterations of that loop (the instance has one thread).            *)
(*                                                                         *)
(* A port handle is a number: a socket descriptor, or a device pointer.  *)
(* hinst holds it as a void *; Null, the C NULL, is 0, so a descriptor 0 *)
(* stored in hinst reads as "not open".                                   *)
(***************************************************************************)
EXTENDS Integers, FiniteSets

CONSTANTS
    Types,         \* backend types the application may create
    Handles,       \* values a port open may return (0 is a descriptor too)
    Fd,            \* the connected descriptor handed to the sock backend
    AppCalls,      \* subset of {"close", "destroy"} the application uses
    CloseMayFail,  \* whether rt_device_close / closesocket may fail
    MaxFaults      \* bound on link faults and failed port opens

Null == 0
AllHandles == Handles \cup {Fd}
PortStates == {"closed", "ok", "peerclosed", "error"}

ASSUME /\ Types \subseteq {"rtu", "tcp", "sock"} /\ Types # {}
       /\ Handles \subseteq Nat /\ Fd \in Nat
       /\ AppCalls \subseteq {"close", "destroy"}
       /\ CloseMayFail \in BOOLEAN /\ MaxFaults \in Nat

VARIABLES
    bstate,   \* "none" before create, "live", "freed" after destroy
    btype,    \* backend->type
    hinst,    \* backend->hinst
    ports,    \* state of every port handle at the OS: closed, or open and how
    acq,      \* handles the backend acquired: opened by it, or handed to it
    phase,    \* the slave loop: "connect" or "recv" next
    openRet,  \* what the last modbus_backend_open returned
    lastRead, \* what the last modbus_backend_read returned (-1, 0, or 1 for data)
    faults    \* faults injected so far

vars == <<bstate, btype, hinst, ports, acq, phase, openRet, lastRead, faults>>

\* the sock backend's ops table has no open (part_000:667-674)
HasOpen(t) == t # "sock"

\* how an open link can break: rt_device_read fails; the TCP peer closes,
\* or recv fails with an error other than EAGAIN
LinkFaults(t) == IF t = "rtu" THEN {"error"} ELSE {"peerclosed", "error"}

\* ops->read on an open handle: modbus_port_rtu_read maps a device error to
\* -1; modbus_port_tcp_read maps recv() == 0 (peer closed) to -1 and every
\* negative recv() to 0, no data
PortRead(t, st) ==
    CASE st = "ok"         -> {0, 1}
      [] st = "peerclosed" -> {-1}
      [] st = "error"      -> IF t = "rtu" THEN {-1} ELSE {0}

Init ==
    /\ bstate = "none"
    /\ btype = "none"
    /\ hinst = Null
    /\ ports = [h \in AllHandles |-> IF h = Fd /\ "sock" \in Types THEN "ok" ELSE "closed"]
    /\ acq = {}
    /\ phase = "connect"
    /\ openRet = 0
    /\ lastRead = 0
    /\ faults = 0

\* modbus_backend_create: create_rtu and create_tcp leave hinst NULL;
\* create_sock stores the descriptor it is given: hinst = (void *)fd
Create ==
    /\ bstate = "none"
    /\ \E t \in Types :
          /\ btype' = t
          /\ hinst' = IF t = "sock" THEN Fd ELSE Null
          /\ acq' = IF t = "sock" THEN {Fd} ELSE {}
    /\ bstate' = "live"
    /\ UNCHANGED <<ports, phase, openRet, lastRead, faults>>

\* modbus_backend_open (part_000:867-886), through modbus_connect at the top
\* of modbus_slave_fsm; a result < 0 makes the loop sleep 1000 ms and return.
\* hinst != NULL: already open, return 0
SlaveOpenHeld ==
    /\ bstate = "live" /\ phase = "connect"
    /\ hinst # Null
    /\ openRet' = 0
    /\ phase' = "recv"
    /\ UNCHANGED <<bstate, btype, hinst, ports, acq, lastRead, faults>>

\* ops->open == NULL (the sock backend once hinst is NULL): return -1
SlaveOpenNoOp ==
    /\ bstate = "live" /\ phase = "connect"
    /\ hinst = Null /\ ~HasOpen(btype)
    /\ openRet' = -1
    /\ UNCHANGED <<bstate, btype, hinst, ports, acq, phase, lastRead, faults>>

\* hinst = ops->open(param): the port opens a device or connects a socket
\* and returns it as a pointer; a socket numbered 0 comes back as NULL
SlaveOpenPort ==
    /\ bstate = "live" /\ phase = "connect"
    /\ hinst = Null /\ HasOpen(btype)
    /\ \E h \in Handles :
          /\ ports[h] = "closed"
          /\ btype = "rtu" => h # Null
          /\ ports' = [ports EXCEPT ![h] = "ok"]
          /\ acq' = acq \cup {h}
          /\ hinst' = h
          /\ openRet' = IF h = Null THEN -1 ELSE 0
          /\ phase' = IF h = Null THEN "connect" ELSE "recv"
    /\ UNCHANGED <<bstate, btype, lastRead, faults>>

\* the port open fails (device not found, config or open error; socket,
\* name lookup or connect error, after which the port closes the socket)
SlaveOpenFail ==
    /\ bstate = "live" /\ phase = "connect"
    /\ hinst = Null /\ HasOpen(btype)
    /\ faults < MaxFaults
    /\ openRet' = -1
    /\ faults' = faults + 1
    /\ UNCHANGED <<bstate, btype, hinst, ports, acq, phase, lastRead>>

\* modbus_recv = modbus_backend_read (part_000:992-1039): -1 when hinst is
\* NULL, else what the port read gives; rlen <= 0 returns from the fsm and
\* the loop calls it again (a frame, 1, goes to recv_deal)
SlaveRecv ==
    /\ bstate = "live" /\ phase = "recv"
    /\ lastRead' \in IF hinst = Null THEN {-1} ELSE PortRead(btype, ports[hinst])
    /\ phase' = "connect"
    /\ UNCHANGED <<bstate, btype, hinst, ports, acq, openRet, faults>>

\* the link of the open handle breaks
LinkFault ==
    /\ bstate = "live" /\ hinst # Null /\ ports[hinst] = "ok"
    /\ faults < MaxFaults
    /\ \E k \in LinkFaults(btype) : ports' = [ports EXCEPT ![hinst] = k]
    /\ faults' = faults + 1
    /\ UNCHANGED <<bstate, btype, hinst, acq, phase, openRet, lastRead>>

\* results ops->close may give: 0, or -1 when the device or socket close fails
CloseResults == IF CloseMayFail THEN {0, -1} ELSE {0}

\* modbus_backend_close (part_000:910-930) when ops->close returns r:
\* hinst NULL: return 0; r != 0: return -1 and keep hinst; else hinst = NULL
BackendCloseAlwaysReset(r) ==
    IF hinst = Null THEN UNCHANGED <<ports, hinst>>
    ELSE /\ ports' = IF r = 0 THEN [ports EXCEPT ![hinst] = "closed"] ELSE ports
         /\ hinst' = Null
BackendClose(r) ==
    IF hinst = Null \/ r # 0 THEN UNCHANGED <<ports, hinst>>
    ELSE /\ ports' = [ports EXCEPT ![hinst] = "closed"]
         /\ hinst' = Null

\* the application calls modbus_backend_close between two loop iterations
AppClose ==
    /\ "close" \in AppCalls
    /\ bstate = "live" /\ phase = "connect"
    /\ \E r \in CloseResults : BackendClose(r)
    /\ UNCHANGED <<bstate, btype, acq, phase, openRet, lastRead, faults>>

\* modbus_backend_destory (part_000:808-843): close, ignoring its result,
\* then free the parameter string and the backend
AppDestroy ==
    /\ "destroy" \in AppCalls
    /\ bstate = "live" /\ phase = "connect"
    /\ \E r \in CloseResults : BackendClose(r)
    /\ bstate' = "freed"
    /\ UNCHANGED <<btype, acq, phase, openRet, lastRead, faults>>

\* the application has destroyed the backend and ends
Done ==
    /\ bstate = "freed"
    /\ UNCHANGED vars

SlaveStep == SlaveOpenHeld \/ SlaveOpenNoOp \/ SlaveOpenPort \/ SlaveOpenFail \/ SlaveRecv

Next == Create \/ SlaveStep \/ LinkFault \/ AppClose \/ AppDestroy \/ Done

\* modbus_slave_fsm is called in a loop by a thread of its own; it sleeps
\* only in modbus_port_delay_ms, which returns. The link and the
\* application get no fairness.
Spec == Init /\ [][Next]_vars /\ WF_vars(Create) /\ WF_vars(SlaveStep)

-----------------------------------------------------------------------------
\* the open handles the backend acquired
Owned == {h \in acq : ports[h] # "closed"}

DestroyReleases ==
    bstate = "freed" => Owned = {}

\* modbus_backend_open on a sock backend succeeds (spec.md 4.6: the
\* pre-adopted-socket backend treats open as "already open" and always
\* succeeds).
SockOpenSucceeds ==
    btype = "sock" => openRet = 0

\* A slave whose link broke eventually stops using it (spec.md 7, transport
\* failure: the slave closes and re-opens on the next loop iteration).
Broken == bstate = "live" /\ hinst # Null /\ ports[hinst] \in {"peerclosed", "error"}
SlaveRecovers == Broken ~> ~Broken
=============================================================================
