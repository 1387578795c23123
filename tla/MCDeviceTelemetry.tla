------------------------- MODULE MCDeviceTelemetry -------------------------
(* Constant values for model checking DeviceTelemetry.                     *)
EXTENDS DeviceTelemetry, TLC

CONSTANTS d1, d2, z1, t0, t1, s1

Signal(type, on) == [type |-> type, on |-> on]

\* Signal A is 8 and signal B is 16; 264 is 8 in eight bits.
MCReadings == {{}, {Signal(8, FALSE)}, {Signal(264, TRUE), Signal(16, TRUE)}}

MCSymmetry == Permutations(Device)
=============================================================================
