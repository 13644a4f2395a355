------------------------------ MODULE Session ------------------------------
(***************************************************************************)
(* One session and its streams: the two ends of a connection, each with a  *)
(* dispatch loop that reads the messages of the other end one at a time,   *)
(* a table of streams keyed by stream ID, and the accept buffers of its    *)
(* listeners.  An end dials streams (REQUEST, answered by ACCEPT or        *)
(* CLOSE), writes to them under the credit the other end advertised (FWD,  *)
(* acknowledged by ACK with the offset received so far, modulo 2^16),      *)
(* closes them (CLOSE) and tears the session down.                         *)
(*                                                                         *)
(* The connection is the one FrameCodec shows to implement FrameChannel:   *)
(* chan[e] holds, in order, the messages written to e and not yet read.    *)
(* The IDs, the serve counter, the frames written and the size of the      *)
(* accept buffer are those of src/types.go; the dispatch loop and the      *)
(* streams have no source here and follow sections 4.4 to 4.6 of the       *)
(* specification.  Keys and the key exchange are left out, and what a     *)
(* stream writes is told apart by its length only.                         *)
(*                                                                         *)
(* randID keeps no memory of the IDs it has returned, and DialStream asks  *)
(* only that the ID is not in the table of its end: an ID can be drawn     *)
(* again while frames of its last stream are on their way or the peer      *)
(* still has that stream.  The history variable redrawn holds the IDs     *)
(* this has happened to, and FlowControl, TablesAgreeWhenQuiet and         *)
(* WriteCompletes speak of the other streams: a frame of the old stream    *)
(* is taken for one of the new, as the README describes.                   *)
(***************************************************************************)
EXTENDS Frame

CONSTANTS
    Ends,               \* the public keys of the two ends
    Initiator,          \* the end that dialled the session
    RandomIDs,          \* the numbers cipher.RandByte(2) returns
    AcceptBufferSize,   \* the streams a listener holds for Accept
    Writes,             \* the lengths of the calls of Stream.Write
    MaxDials,           \* bound: the streams dialled in a behaviour
    MaxWrites           \* bound: the calls of Stream.Write in a behaviour

ASSUME
    /\ Cardinality(Ends) = 2 /\ Initiator \in Ends
    /\ RandomIDs \subseteq Uint16
    /\ \A a \in Addrs : a.PK \in Ends
    /\ AcceptBufferSize \in Nat \ {0} /\ MaxDials \in Nat
    /\ MaxWrites \in Nat
    /\ Writes \subseteq Nat \ {0}
    \* A window below the greatest chunk blocks a Write of that chunk for ever.
    /\ \A w \in Windows : w \in Nat /\ w >= maxFwdPayLen

VARIABLES
    serving,    \* end -> "new", "serving" or "closed"
    serveCount, \* the sessions that are being served
    chan,       \* end -> the messages written to it and not yet dispatched
    streams,    \* end -> the stream table, stream ID -> stream
    listeners,  \* end -> the ports its port manager has a listener for
    acceptBuf,  \* end -> port -> the IDs of the streams waiting for Accept
    uses,       \* history: end -> stream ID -> the times the end has drawn it
    redrawn,    \* history: the IDs drawn while an earlier stream of theirs was left
    writes      \* the calls of Stream.Write so far

vars == <<serving, serveCount, chan, streams, listeners, acceptBuf, uses, redrawn, writes>>

Peer(e) == CHOOSE p \in Ends : p # e
LocalAddrs(e) == {a \in Addrs : a.PK = e}
Ports == {a.Port : a \in Addrs}

Stream ==
    [dialled : BOOLEAN, state : {"requested", "active"}, local : Addrs,
     remote : Addrs, recvWindow : Windows, sendWindow : Int,
     lastAckOffset : Uint16, received : Uint16, unsent : Nat]

NewStream(dialled, local, remote, recvWindow, sendWindow) ==
    [dialled |-> dialled, state |-> IF dialled THEN "requested" ELSE "active",
     local |-> local, remote |-> remote, recvWindow |-> recvWindow,
     sendWindow |-> sendWindow, lastAckOffset |-> 0, received |-> 0, unsent |-> 0]

-----------------------------------------------------------------------------
\* Stream IDs and the serve counter.

isInitiatorID(tpID) == tpID % 2 = 0

\* Fault: the role of the caller is not looked at.
randIDAnyParity(initiator) == RandomIDs

\* The IDs the loop can return: the draws of the parity of the caller.
randID(initiator) ==
    {id \in RandomIDs : (initiator /\ id % 2 = 0) \/ (~initiator /\ id % 2 # 0)}

incrementServeCount == serveCount + 1
decrementServeCount == serveCount - 1

-----------------------------------------------------------------------------
\* The write path and the table.

\* A frame written to a connection the other end has closed is lost.
Send(e, m) ==
    chan' = [chan EXCEPT ![Peer(e)] =
                IF serving[Peer(e)] = "closed" THEN @ ELSE Append(@, m)]

\* The dispatch loop has read the head of chan[e] and answers it with m.
Reply(e, m) ==
    chan' = [chan EXCEPT ![e] = Tail(@),
                         ![Peer(e)] = IF serving[Peer(e)] = "closed" THEN @
                                      ELSE Append(@, m)]

Consume(e) == chan' = [chan EXCEPT ![e] = Tail(@)]

Known(e, id) == id \in DOMAIN streams[e]

Released(e, id) ==
    streams' = [streams EXCEPT ![e] = Restrict(@, DOMAIN @ \ {id})]

Dispatching(e) == serving[e] = "serving" /\ chan[e] # << >>

\* No frame of stream id is on its way in either direction.
Quiet(id) == \A e \in Ends : \A i \in DOMAIN chan[e] : chan[e][i].TpID # id

\* Something of the stream of an ID is left: a frame on its way or an entry
\* of the table of an end.
Left(id) == ~Quiet(id) \/ \E e \in Ends : Known(e, id)

Dialled == FoldFunction(LAMBDA u, n : FoldFunction(+, n, u), 0, uses)

init ==
    /\ serving = [e \in Ends |-> "new"]
    /\ serveCount = 0
    /\ chan = [e \in Ends |-> << >>]
    /\ streams = [e \in Ends |-> << >>]
    /\ listeners \in [Ends -> SUBSET Ports]
    /\ acceptBuf = [e \in Ends |-> [p \in Ports |-> << >>]]
    /\ uses = [e \in Ends |-> [id \in RandomIDs |-> 0]]
    /\ redrawn = {}
    /\ writes = 0

-----------------------------------------------------------------------------
\* What the application does.

Serve(e) ==
    /\ serving[e] = "new"
    /\ serving' = [serving EXCEPT ![e] = "serving"]
    /\ serveCount' = incrementServeCount
    /\ UNCHANGED <<chan, streams, listeners, acceptBuf, uses, redrawn, writes>>

\* DialStream: an ID of the parity of this end that its table does not hold,
\* a REQUEST with the window this end reads with, and the wait for the
\* ACCEPT.  The draw does not know what the peer holds or what is on its
\* way: redrawn records an ID taken while something of it is left.
DialStream(e, local, remote, window) ==
    /\ serving[e] = "serving"
    /\ Dialled < MaxDials
    /\ \E id \in randID(e = Initiator) :
        /\ ~Known(e, id)
        /\ uses' = [uses EXCEPT ![e][id] = @ + 1]
        /\ redrawn' = IF Left(id) THEN redrawn \cup {id} ELSE redrawn
        /\ streams' = [streams EXCEPT ![e] =
                          @ @@ (id :> NewStream(TRUE, local, remote, window, 0))]
        /\ Send(e, RequestMessage(id, local, remote, window))
    /\ UNCHANGED <<serving, serveCount, listeners, acceptBuf, writes>>

\* The application has the stream: it dialled it or has accepted it.
Held(e, id) ==
    /\ Known(e, id)
    /\ streams[e][id].dialled
        \/ id \notin Range(acceptBuf[e][streams[e][id].local.Port])

\* Fault: a stream that gives up is forgotten without a word to the peer.
closeStreamSilently(e, id) ==
    /\ Released(e, id)
    /\ UNCHANGED <<serving, serveCount, chan, listeners, acceptBuf, uses, redrawn, writes>>

closeStream(e, id) ==
    /\ Released(e, id)
    /\ Send(e, CloseMessage(id, PlaceholderReason))
    /\ UNCHANGED <<serving, serveCount, listeners, acceptBuf, uses, redrawn, writes>>

\* StreamHandshakeTimeout has passed and no ACCEPT has come.
Timeout(e, id) ==
    /\ serving[e] = "serving"
    /\ Known(e, id) /\ streams[e][id].state = "requested"
    /\ closeStream(e, id)

CloseStream(e, id) ==
    /\ serving[e] = "serving"
    /\ Held(e, id)
    /\ closeStream(e, id)

Accept(e, port) ==
    /\ acceptBuf[e][port] # << >>
    /\ acceptBuf' = [acceptBuf EXCEPT ![e][port] = Tail(@)]
    /\ UNCHANGED <<serving, serveCount, chan, streams, listeners, uses, redrawn, writes>>

Write(e, id, n) ==
    /\ serving[e] = "serving"
    /\ Held(e, id) /\ streams[e][id].state = "active" /\ streams[e][id].unsent = 0
    /\ writes < MaxWrites
    /\ writes' = writes + 1
    /\ streams' = [streams EXCEPT ![e][id].unsent = n]
    /\ UNCHANGED <<serving, serveCount, chan, listeners, acceptBuf, uses, redrawn>>

\* Fault: a chunk that takes all of the window waits.
EmitBelowWindow(e, id) ==
    /\ serving[e] = "serving"
    /\ Known(e, id) /\ streams[e][id].state = "active" /\ streams[e][id].unsent > 0
    /\ LET s == streams[e][id]
           n == Min({s.unsent, maxFwdPayLen})
       IN  /\ s.sendWindow > n
           /\ streams' = [streams EXCEPT ![e][id].sendWindow = @ - n,
                                         ![e][id].unsent = @ - n]
           /\ Send(e, FwdMessage(id, [i \in 1..n |-> 0]))
    /\ UNCHANGED <<serving, serveCount, listeners, acceptBuf, uses, redrawn, writes>>

\* The next chunk of a Write: as much as a frame takes, once the window has
\* room for it.
Emit(e, id) ==
    /\ serving[e] = "serving"
    /\ Known(e, id) /\ streams[e][id].state = "active" /\ streams[e][id].unsent > 0
    /\ LET s == streams[e][id]
           n == Min({s.unsent, maxFwdPayLen})
       IN  /\ s.sendWindow >= n
           /\ streams' = [streams EXCEPT ![e][id].sendWindow = @ - n,
                                         ![e][id].unsent = @ - n]
           /\ Send(e, FwdMessage(id, [i \in 1..n |-> 0]))
    /\ UNCHANGED <<serving, serveCount, listeners, acceptBuf, uses, redrawn, writes>>

-----------------------------------------------------------------------------
\* The dispatch loop, by the type of the frame it has read.

\* A REQUEST is refused when its ID is not one the peer allocates or no
\* listener has its port.
Refused(e, m) ==
    \/ isInitiatorID(m.TpID) # (Peer(e) = Initiator)
    \/ m.Handshake.RespAddr \notin LocalAddrs(e)
    \/ m.Handshake.RespAddr.Port \notin listeners[e]

\* Fault: the stream is registered under the addresses as the dialler has
\* them.
RegisteredAsDialled(e, m, window) ==
    streams' = [streams EXCEPT ![e] = @ @@ (m.TpID :>
        NewStream(FALSE, m.Handshake.InitAddr, m.Handshake.RespAddr, window,
                  m.Handshake.Window))]

Registered(e, m, window) ==
    streams' = [streams EXCEPT ![e] = @ @@ (m.TpID :>
        NewStream(FALSE, m.Handshake.RespAddr, m.Handshake.InitAddr, window,
                  m.Handshake.Window))]

\* The stream is put into the accept buffer by the dispatch loop, which
\* waits when the buffer is full.
OnRequest(e) ==
    /\ Dispatching(e) /\ Head(chan[e]).Type = RequestType
    /\ LET m == Head(chan[e])
           port == m.Handshake.RespAddr.Port
       IN  \/ /\ Refused(e, m)
              /\ Reply(e, CloseMessage(m.TpID, PlaceholderReason))
              /\ UNCHANGED <<streams, acceptBuf>>
           \/ /\ ~Refused(e, m)
              /\ Len(acceptBuf[e][port]) < AcceptBufferSize
              /\ \E window \in Windows :
                    /\ Registered(e, m, window)
                    /\ Reply(e, AcceptMessage(m.TpID, m.Handshake.RespAddr,
                                              m.Handshake.InitAddr, window))
              /\ acceptBuf' = [acceptBuf EXCEPT ![e][port] = Append(@, m.TpID)]
    /\ UNCHANGED <<serving, serveCount, listeners, uses, redrawn, writes>>

Pending(e, id) == Known(e, id) /\ streams[e][id].state = "requested"

OnAccept(e) ==
    /\ Dispatching(e) /\ Head(chan[e]).Type = AcceptType
    /\ LET m == Head(chan[e])
       IN  /\ Pending(e, m.TpID)
           /\ streams' = [streams EXCEPT ![e][m.TpID].state = "active",
                              ![e][m.TpID].sendWindow = m.Handshake.Window]
    /\ Consume(e)
    /\ UNCHANGED <<serving, serveCount, listeners, acceptBuf, uses, redrawn, writes>>

\* Fault: the offset acknowledged is the number of bytes of the last frame.
AckOffsetOfLast(s, pay) == ToUint16(Len(pay))

\* The offset acknowledged: the bytes received so far, as a uint16.
AckOffset(s, pay) == ToUint16(s.received + Len(pay))

OnFwd(e) ==
    /\ Dispatching(e) /\ Head(chan[e]).Type = FwdType
    /\ LET m == Head(chan[e])
       IN  \/ /\ Known(e, m.TpID)
              /\ streams' = [streams EXCEPT ![e][m.TpID].received =
                                AckOffset(streams[e][m.TpID], m.Pay)]
              /\ Reply(e, AckMessage(m.TpID, AckOffset(streams[e][m.TpID], m.Pay)))
           \/ /\ ~Known(e, m.TpID)
              /\ Reply(e, CloseMessage(m.TpID, PlaceholderReason))
              /\ UNCHANGED streams
    /\ UNCHANGED <<serving, serveCount, listeners, acceptBuf, uses, redrawn, writes>>

\* Fault: the credit is the difference of the offsets as integers.
CreditSigned(s, offset) == offset - s.lastAckOffset

\* delta = (offset - lastAckOffset) mod 2^16
Credit(s, offset) == ToUint16(offset - s.lastAckOffset)

OnAck(e) ==
    /\ Dispatching(e) /\ Head(chan[e]).Type = AckType
    /\ LET m == Head(chan[e])
       IN  /\ Known(e, m.TpID)
           /\ streams' = [streams EXCEPT
                  ![e][m.TpID].sendWindow = @ + Credit(streams[e][m.TpID], m.Offset),
                  ![e][m.TpID].lastAckOffset = m.Offset]
    /\ Consume(e)
    /\ UNCHANGED <<serving, serveCount, listeners, acceptBuf, uses, redrawn, writes>>

OnClose(e) ==
    /\ Dispatching(e) /\ Head(chan[e]).Type = CloseType
    /\ Known(e, Head(chan[e]).TpID)
    /\ Released(e, Head(chan[e]).TpID)
    /\ Consume(e)
    /\ UNCHANGED <<serving, serveCount, listeners, acceptBuf, uses, redrawn, writes>>

\* Fault: the dispatch loop has no answer to the CLOSE of a stream it does
\* not know and stays at it.
DroppedButClose(e) ==
    /\ Dispatching(e)
    /\ LET m == Head(chan[e])
       IN  \/ m.Type = AcceptType /\ ~Pending(e, m.TpID)
           \/ m.Type = AckType /\ ~Known(e, m.TpID)
    /\ Consume(e)
    /\ UNCHANGED <<serving, serveCount, streams, listeners, acceptBuf, uses, redrawn, writes>>

\* An ACCEPT nobody waits for, an ACK or a CLOSE of an unknown stream: the
\* frame is read and nothing is done.
Dropped(e) ==
    /\ Dispatching(e)
    /\ LET m == Head(chan[e])
       IN  \/ m.Type = AcceptType /\ ~Pending(e, m.TpID)
           \/ m.Type \in {AckType, CloseType} /\ ~Known(e, m.TpID)
    /\ Consume(e)
    /\ UNCHANGED <<serving, serveCount, streams, listeners, acceptBuf, uses, redrawn, writes>>

Dispatch(e) ==
    OnRequest(e) \/ OnAccept(e) \/ OnFwd(e) \/ OnAck(e) \/ OnClose(e) \/ Dropped(e)

-----------------------------------------------------------------------------
\* Teardown.

\* The session is marked closed, its streams are closed and the connection
\* is closed: what was written to this end is not read any more.
teardown(e) ==
    /\ serving' = [serving EXCEPT ![e] = "closed"]
    /\ serveCount' = decrementServeCount
    /\ streams' = [streams EXCEPT ![e] = << >>]
    /\ chan' = [chan EXCEPT ![e] = << >>]
    /\ UNCHANGED <<listeners, acceptBuf, uses, redrawn, writes>>

Close(e) == serving[e] = "serving" /\ teardown(e)

\* Fault: the read error of a session that Close has torn down tears it down
\* again.
ReadErrorAfterClose(e) ==
    /\ serving[e] # "new" /\ serving[Peer(e)] = "closed"
    /\ chan[e] = << >>
    /\ teardown(e)

\* readFrame returns an error: the peer has closed the connection and all
\* it had written is read.
ReadError(e) ==
    /\ serving[e] = "serving" /\ serving[Peer(e)] = "closed"
    /\ chan[e] = << >>
    /\ teardown(e)

-----------------------------------------------------------------------------

Next ==
    \E e \in Ends :
        \/ Serve(e) \/ Dispatch(e) \/ ReadError(e) \/ Close(e)
        \/ \E local \in LocalAddrs(e), remote \in LocalAddrs(Peer(e)),
              window \in Windows : DialStream(e, local, remote, window)
        \/ \E id \in RandomIDs :
              \/ Timeout(e, id) \/ CloseStream(e, id) \/ Emit(e, id)
              \/ \E n \in Writes : Write(e, id, n)
        \/ \E port \in Ports : Accept(e, port)

Spec == init /\ [][Next]_vars

\* The goroutine that serves the session at end e.
ServeLoop(e) == Serve(e) \/ Dispatch(e) \/ ReadError(e)

\* Every end is served and its dispatch loop runs when it has a frame to
\* read, a Write that has the credit for its next chunk sends it, and the
\* applications take the streams their listeners hold.
FairSpec ==
    /\ Spec
    /\ \A e \in Ends :
        /\ WF_vars(ServeLoop(e))
        /\ WF_vars(\E id \in RandomIDs : Emit(e, id))
        /\ WF_vars(\E port \in Ports : Accept(e, port))

-----------------------------------------------------------------------------

Messages ==
    [Type : {OkType, RequestType, AcceptType, CloseType, FwdType, AckType},
     TpID : RandomIDs, Handshake : HandshakeData \cup {ZeroHandshake},
     Offset : Uint16, Pay : UNION {[1..n -> {0}] : n \in 0..(MaxUint16 + 1)},
     Err : {Nil}]

TypeOK ==
    /\ serving \in [Ends -> {"new", "serving", "closed"}]
    /\ serveCount \in 0..Cardinality(Ends)
    /\ \A e \in Ends :
        /\ chan[e] \in Seq(Messages)
        /\ DOMAIN streams[e] \subseteq RandomIDs
        /\ \A id \in DOMAIN streams[e] : streams[e][id] \in Stream
    /\ listeners \in [Ends -> SUBSET Ports]
    /\ acceptBuf \in [Ends -> [Ports -> Seq(RandomIDs)]]
    /\ uses \in [Ends -> [RandomIDs -> 0..MaxDials]]
    /\ redrawn \subseteq RandomIDs
    /\ writes \in 0..MaxWrites

\* The two ends of a stream agree on who dialled it and on its addresses: a
\* stream is in the table of an end under an ID of that end's parity exactly
\* when that end dialled it (randID, and the parity the dispatch loop asks of
\* a REQUEST), and what one end holds as local is remote to the other, so
\* that no two streams of a session share an ID.
StreamEndsAgree ==
    \A e \in Ends : \A id \in DOMAIN streams[e] :
        LET s == streams[e][id]
        IN  /\ s.dialled <=> (isInitiatorID(id) <=> e = Initiator)
            /\ Known(Peer(e), id) =>
                  /\ streams[Peer(e)][id].local = s.remote
                  /\ streams[Peer(e)][id].remote = s.local

\* Flow control neither lends nor loses credit: the window a writer has left
\* is never negative and never more than the reader advertised, and once no
\* FWD and no ACK of the stream is on its way the writer has all of it again,
\* however often the 16-bit offsets of the ACKs have wrapped around (Emit,
\* OnFwd, OnAck) and whatever other streams, redrawn ones among them, the
\* session carries.  It is said of the streams whose ID was free of an
\* earlier stream when DialStream drew it.
FlowControl ==
    \A e \in Ends : \A id \in DOMAIN streams[e] \ redrawn :
        LET s == streams[e][id]
        IN  (s.state = "active" /\ Known(Peer(e), id)) =>
                /\ s.sendWindow \in 0..streams[Peer(e)][id].recvWindow
                /\ Quiet(id) => s.sendWindow = streams[Peer(e)][id].recvWindow

\* No end is left with half a stream: when both ends serve and nothing is on
\* its way, a stream one end has the other has too, and all of them are
\* active, whatever order dials, timeouts, late ACCEPTs, writes and closes
\* of the two ends came in (Timeout, OnAccept, OnClose, Dropped).  It is
\* said of the streams whose ID was free of an earlier stream when
\* DialStream drew it.
TablesAgreeWhenQuiet ==
    (/\ \A e \in Ends : serving[e] = "serving" /\ chan[e] = << >>)
        => \A e \in Ends : \A id \in DOMAIN streams[e] \ redrawn :
              Known(Peer(e), id) /\ streams[e][id].state = "active"

\* End e has bytes to send on a stream whose ID was drawn free of an earlier
\* stream.
Unsent(e) == \E id \in DOMAIN streams[e] \ redrawn : streams[e][id].unsent > 0

\* A Write that waits for credit goes on: an end that has bytes to send has
\* sent them all at some time, or its streams are closed, provided the
\* dispatch loops run and listeners are accepted from (the dispatch loop that
\* waits for room in an accept buffer reads no ACK).
WriteCompletes == \A e \in Ends : Unsent(e) ~> ~Unsent(e)

\* Teardown reaches the other end: when one end of a session has closed, the
\* dispatch loop of the other reads what is left, meets the end of the
\* connection and closes too (teardown, ReadError).
TeardownReachesPeer ==
    \A e \in Ends : serving[e] = "closed" ~> serving[Peer(e)] = "closed"

=============================================================================
