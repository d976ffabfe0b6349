--------------------------- MODULE MCDesktopSync ---------------------------
(* Instances of DesktopSync for TLC. *)
EXTENDS DesktopSync, TLC

CONSTANTS A, B

\* Neither machine and neither file plays a part of its own.
HostSymmetry == Permutations(Hosts) \cup Permutations(Files)
=============================================================================
