--------------------------- MODULE MC_ModbusBackend ---------------------------
EXTENDS ModbusBackend
=============================================================================
