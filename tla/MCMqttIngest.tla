--------------------------- MODULE MCMqttIngest ---------------------------
(* Four statuses and a channel of two: a status is published while the link *)
(* is down, while it is broken unnoticed and while the task waits for the   *)
(* channel.  The link may break any number of times.                        *)
EXTENDS MqttIngest
=============================================================================
