----------------------------- MODULE MCProcess -----------------------------
(* Two clients for a queue of one, so that a command waits while another    *)
(* exchange is anywhere; a channel of two, which a source fills; telemetry  *)
(* every second scan and numbers that wrap at five, so that the wrap comes  *)
(* between two of them.                                                     *)
EXTENDS HubProcess

ASSUME NumberMod % ScansPerSecond # 0
=============================================================================
