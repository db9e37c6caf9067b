\* Timeouts scaled down (ack 300 -> 6, byte 32 -> 3) against the 2 ms poll;
\* a 5-bit tick so that a wait can straddle the wrap (start at 28).
CONSTANTS
    AckTmo = 6
    ByteTmo = 3
    BufSize = 3
    TickMod = 32
    Jitter = 1
    Horizon = 11
    Starts = {0, 28}
    Schedules <- MCSchedules
SPECIFICATION Spec
INVARIANTS TypeOK ReadDelimits
PROPERTIES ReadReturns
