--------------------------- MODULE MCDeviceRegistry ---------------------------
(* Constant values for model checking DeviceRegistry.                      *)
EXTENDS DeviceRegistry, TLC

MCSymmetry == Permutations(Device) \cup Permutations(Token) \cup Permutations(Handler)
=============================================================================
