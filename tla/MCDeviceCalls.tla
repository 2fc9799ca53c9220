--------------------------- MODULE MCDeviceCalls ---------------------------
EXTENDS DeviceCalls, TLC
=============================================================================
