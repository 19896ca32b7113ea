---------------------------- MODULE MCMqttClient ----------------------------
(* Model values of MqttClient for TLC. *)
EXTENDS MqttClient

\* The firmware registers one actuator.
OneTopic == {"iot/led"}
=============================================================================
