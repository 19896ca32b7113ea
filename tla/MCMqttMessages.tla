--------------------------- MODULE MCMqttMessages ---------------------------
(* Model checking of MqttMessages. *)
EXTENDS MqttMessages, TLC

CONSTANTS a1, a2

MCAddresses == {a1, a2}
Symmetric == Permutations(MCAddresses)
=============================================================================
