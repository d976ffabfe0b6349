-------------------------- MODULE MCP2PHandshake --------------------------
(* Instances of P2PHandshake for TLC. *)
EXTENDS P2PHandshake, TLC

CONSTANTS a, b, c,      \* runs
          hostA, hostB, hostC

\* Every run on a machine of its own.
MCHostOf == [i \in Ids |-> CASE i = a -> hostA [] i = b -> hostB [] OTHER -> hostC]

\* Two runs that are started and have time left do not both wait in vain: one
\* of them succeeds (p2p_dll.cpp:133, 164-194).
OneSucceeds == OneOfTwoSucceeds(a, b)
=============================================================================
