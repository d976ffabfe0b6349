---- MODULE MCUdtSockets ----
(* A listener and a client.    *)
EXTENDS UdtSockets
====
