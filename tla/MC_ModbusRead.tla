---------------------------- MODULE MC_ModbusRead ----------------------------
EXTENDS ModbusRead

\* all arrival schedules of up to MaxBytes bytes within 0..Horizon
MaxBytes == 4
MCSchedules ==
    UNION {{s \in [1..n -> 0..Horizon] : \A i \in 1..(n - 1) : s[i] <= s[i + 1]}
           : n \in 0..MaxBytes}
=============================================================================
