---------------------------- MODULE MCUdtStream ----------------------------
EXTENDS UdtStream
=============================================================================
