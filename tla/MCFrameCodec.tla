---------------------------- MODULE MCFrameCodec ----------------------------
(***************************************************************************)
(* One direction of a connection for FrameCodec: bytes of four bits, so    *)
(* that a uint16 has 256 values and every frame type still is a byte; a    *)
(* stream ID and an offset that use both bytes of their field; the         *)
(* addresses of the two ends; and data of one byte and of one byte more    *)
(* than a FWD frame can carry.                                             *)
(***************************************************************************)
EXTENDS FrameCodec

CONSTANTS ab

MCConns == {ab}

MCStreamIDs == {Base + 2}

MCAddrs == {[PK |-> 1, Port |-> 3], [PK |-> 2, Port |-> 4]}

MCWindows == {5}

MCOffsets == {MaxUint16 - 1}

MCData == {<<7>>, [i \in 1..(MaxUint16 + 1) |-> 0]}

=============================================================================
