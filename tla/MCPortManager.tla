---------------------------- MODULE MCPortManager ----------------------------
(***************************************************************************)
(* PortManager for TLC: two callers; the ports are given in the .cfg.      *)
(***************************************************************************)
EXTENDS PortManager

CONSTANTS c1, c2

MCCallers == {c1, c2}

=============================================================================
