---------------------------- MODULE MCMqttClient ----------------------------
(* MqttClient for TLC: message 1 subscribes, message 3 has two bytes, the   *)
(* last one is the UNSUBSCRIBE.                                             *)
EXTENDS MqttClient

MCMsgLen == [m \in 0 .. MaxMsg |-> IF m = 3 THEN 2 ELSE 1]

(* The framing never comes back once it is lost, and every property says so: *)
(* what follows is not explored.                                            *)
WhileFramed == Framed

=============================================================================
