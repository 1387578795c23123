--------------------------- MODULE MCMqttDownlink ---------------------------
(* Model values for model checking MqttDownlink.                           *)
EXTENDS MqttDownlink, TLC

CONSTANTS d1, c1, c2, k1, k2, Up, Down

MCSymmetry == Permutations(Command) \cup Permutations(Conn)
=============================================================================
