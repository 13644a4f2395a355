----------------------------- MODULE MCSession -----------------------------
(***************************************************************************)
(* Session for TLC: a byte of two values, so that a uint16 has four and    *)
(* the offsets of the ACKs wrap around within a Write of five bytes.       *)
(***************************************************************************)
EXTENDS Session

\* Each end has one port streams are dialled from and to.
MCAddrs == {[PK |-> e, Port |-> 7] : e \in Ends}

\* The least window a Write of a whole frame gets through.
MCWindows == {maxFwdPayLen}

=============================================================================
