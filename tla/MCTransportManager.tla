-------------------------- MODULE MCTransportManager --------------------------
(***************************************************************************)
(* TransportManager for TLC: small sets of goroutines and transport IDs.   *)
(***************************************************************************)
EXTENDS TransportManager, TLC

CONSTANTS i1, i2, i3, p1, d1, a1, u1, cl, cl2, sv

\* Two IDs, one public and one private: Close treats them differently.
MCIDs == {i1, i2}
MCPublicIDs == {i1}

\* A third ID, of a transport type that has no factory.
MCThreeIDs == {i1, i2, i3}

\* All are transports to the same peer.
MCRemoteOf == [id \in MCThreeIDs |-> p1]

MCServers == {sv}
MCNoDefaults == << >>
MCDefaultFirst == <<i1>>
MCDialers == {d1}
MCAcceptors == {a1}
MCUsers == {u1}
MCClosers == {cl}

\* Two goroutines that call Close: the second call finds doneChan closed.
MCTwoClosers == {cl, cl2}
MCNone == {}

\* One ID, for the runs about the transports that follow one another under it.
MCOneID == {i1}

=============================================================================
