---------------------------- MODULE MCLogBroker -----------------------------
(* Two clients of one deployment's logs, one of the server's, channels of  *)
(* one entry, and buffers of two.                                          *)
EXTENDS LogBroker

CONSTANTS d1, g, h1, h2

MCStreams == [d \in {d1} |-> {h1, h2}]
=============================================================================
