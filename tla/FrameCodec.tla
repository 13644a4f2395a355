----------------------------- MODULE FrameCodec -----------------------------
(***************************************************************************)
(* The connection the frames of module Frame travel on.  The write*        *)
(* functions of src/types.go make a frame and give it to the connection in *)
(* one Write; readFrame takes it off in two reads, the header and then as  *)
(* many bytes as the header announces.                                     *)
(*                                                                         *)
(* A connection has two directions, each a pipe of bytes that its writer   *)
(* can close and that can break in the middle of a Write.  The module      *)
(* shows that the pipes implement FrameChannel: the reader gets the        *)
(* messages the writer meant, decoded as the dispatch loop decodes them.   *)
(***************************************************************************)
EXTENDS Frame

CONSTANTS
    Conns,      \* the directions of the connection
    StreamIDs,  \* the stream IDs frames are written for
    Data,       \* the bytes callers of Stream.Write have to send
    Offsets,    \* the offsets acknowledged
    MaxFrames   \* bound: the frames written to the connection in a behaviour

ASSUME
    /\ Base > AckType
    /\ StreamIDs \subseteq Uint16 /\ Offsets \subseteq Uint16
    /\ Windows \subseteq Byte
    /\ \A a \in Addrs : a.PK \in Byte /\ a.Port \in Byte
    /\ \A b \in Data : b \in Seq(Byte)
    /\ MaxFrames \in Nat

VARIABLES
    wire,       \* direction -> the bytes written and not yet read
    open,       \* direction -> not closed by its writer and not broken
    hdr,        \* direction -> the header readFrame has read, << >> before
    rerr,       \* direction -> the error readFrame has returned
    werr,       \* direction -> the error the last writeFrame has returned
    sent,       \* history: direction -> the messages written in full
    received    \* direction -> the frames readFrame has returned

vars == <<wire, open, hdr, rerr, werr, sent, received>>

Init ==
    /\ wire = [c \in Conns |-> << >>]
    /\ open = [c \in Conns |-> TRUE]
    /\ hdr = [c \in Conns |-> << >>]
    /\ rerr = [c \in Conns |-> Nil]
    /\ werr = [c \in Conns |-> Nil]
    /\ sent = [c \in Conns |-> << >>]
    /\ received = [c \in Conns |-> << >>]

Written == FoldFunction(LAMBDA s, n : Len(s) + n, 0, sent)

\* The bytes of f that are on the wire when a Write of it fails: none, the
\* header but for a byte, the header, all but the last byte.
ShortWrites(f) == {n \in {0, headerLen - 1, headerLen, Len(f) - 1} : n < Len(f)}

\* Fault: a Write that fails leaves the connection in use (a write deadline
\* that passes), and the writers go on behind the part of a frame.
WriteShortKeepsOpen(w, f) ==
    /\ open[w]
    /\ \E n \in ShortWrites(f) : wire' = [wire EXCEPT ![w] = @ \o SubSeq(f, 1, n)]
    /\ werr' = [werr EXCEPT ![w] = "write error"]
    /\ UNCHANGED <<open, hdr, rerr, received>>

\* The connection: a Write that returns short of f has lost the connection,
\* which takes no byte after the part of f it took.  The sources set no
\* write deadline, the one way a Write fails on a connection that goes on.
Breaks(w, f) ==
    /\ \E n \in ShortWrites(f) : wire' = [wire EXCEPT ![w] = @ \o SubSeq(f, 1, n)]
    /\ open' = [open EXCEPT ![w] = FALSE]

\* _, err := w.Write(f); if err != nil { return &writeError{err} }
WriteShort(w, f) ==
    /\ open[w]
    /\ Breaks(w, f)
    /\ werr' = [werr EXCEPT ![w] = "write error"]
    /\ UNCHANGED <<hdr, rerr, received>>

WriteAll(w, f) ==
    /\ open[w]
    /\ wire' = [wire EXCEPT ![w] = @ \o f]
    /\ werr' = [werr EXCEPT ![w] = Nil]
    /\ UNCHANGED <<open, hdr, rerr, received>>

writeFrame(w, f) ==
    /\ Written < MaxFrames
    /\ WriteAll(w, f) \/ WriteShort(w, f)

writeRequestFrame(w, id, lAddr, rAddr, lWindow) ==
    writeFrame(w, MakeFrame(RequestType, id, marshalHandshakeData(
        [Version |-> HandshakePayloadVersion, InitAddr |-> lAddr,
         RespAddr |-> rAddr, Window |-> lWindow])))

writeAcceptFrame(w, id, lAddr, rAddr, lWindow) ==
    writeFrame(w, MakeFrame(AcceptType, id, marshalHandshakeData(
        [Version |-> HandshakePayloadVersion, InitAddr |-> rAddr,
         RespAddr |-> lAddr, Window |-> lWindow])))

writeFwdFrame(w, id, p) == writeFrame(w, MakeFrame(FwdType, id, p))

writeAckFrame(w, id, offset) == writeFrame(w, MakeFrame(AckType, id, PutUint16(offset)))

writeCloseFrame(w, id, reason) == writeFrame(w, MakeFrame(CloseType, id, <<reason>>))

\* The writer closes the connection.
Close(w) ==
    /\ open[w]
    /\ open' = [open EXCEPT ![w] = FALSE]
    /\ UNCHANGED <<wire, hdr, rerr, werr, sent, received>>

\* The bytes the pending io.ReadFull of readFrame waits for.
Wanted(r) == IF hdr[r] = << >> THEN headerLen ELSE PayLen(hdr[r])

Take(r, n) == wire' = [wire EXCEPT ![r] = SubSeq(@, n + 1, Len(@))]

\* Faults of readFrame: the frame is returned for its payload; the payload
\* is returned when a byte more than it has arrived.
ReadPayloadWholeFrame(r) ==
    /\ rerr[r] = Nil /\ hdr[r] # << >>
    /\ Len(wire[r]) >= PayLen(hdr[r])
    /\ LET f == hdr[r] \o SubSeq(wire[r], 1, PayLen(hdr[r]))
           d == Disassemble(f)
       IN  received' = [received EXCEPT ![r] = Append(@, disassembledFrame(d[1], d[2], f))]
    /\ Take(r, PayLen(hdr[r]))
    /\ hdr' = [hdr EXCEPT ![r] = << >>]
    /\ UNCHANGED <<open, rerr, werr, sent>>

ReadPayloadOneMore(r) ==
    /\ rerr[r] = Nil /\ hdr[r] # << >>
    /\ Len(wire[r]) > PayLen(hdr[r])
    /\ LET f == hdr[r] \o SubSeq(wire[r], 1, PayLen(hdr[r]))
           d == Disassemble(f)
       IN  received' = [received EXCEPT ![r] = Append(@, disassembledFrame(d[1], d[2], d[3]))]
    /\ Take(r, PayLen(hdr[r]))
    /\ hdr' = [hdr EXCEPT ![r] = << >>]
    /\ UNCHANGED <<open, rerr, werr, sent>>

\* Fault: the buffer of the header is a byte short.
ReadHeaderShort(r) ==
    /\ rerr[r] = Nil /\ hdr[r] = << >>
    /\ Len(wire[r]) >= headerLen - 1
    /\ hdr' = [hdr EXCEPT ![r] = SubSeq(wire[r], 1, headerLen - 1)]
    /\ Take(r, headerLen - 1)
    /\ UNCHANGED <<open, rerr, werr, sent, received>>

\* f = make(Frame, headerLen); io.ReadFull(r, f)
ReadHeader(r) ==
    /\ rerr[r] = Nil /\ hdr[r] = << >>
    /\ Len(wire[r]) >= headerLen
    /\ hdr' = [hdr EXCEPT ![r] = SubSeq(wire[r], 1, headerLen)]
    /\ Take(r, headerLen)
    /\ UNCHANGED <<open, rerr, werr, sent, received>>

\* f = append(f, make([]byte, f.PayLen())...); io.ReadFull(r, f[headerLen:])
ReadPayload(r) ==
    /\ rerr[r] = Nil /\ hdr[r] # << >>
    /\ Len(wire[r]) >= PayLen(hdr[r])
    /\ LET f == hdr[r] \o SubSeq(wire[r], 1, PayLen(hdr[r]))
           d == Disassemble(f)
       IN  received' = [received EXCEPT ![r] = Append(@, disassembledFrame(d[1], d[2], d[3]))]
    /\ Take(r, PayLen(hdr[r]))
    /\ hdr' = [hdr EXCEPT ![r] = << >>]
    /\ UNCHANGED <<open, rerr, werr, sent>>

\* Either io.ReadFull finds the connection ended short of what it wants:
\* io.EOF when it has read nothing, io.ErrUnexpectedEOF otherwise.
ReadError(r) ==
    /\ rerr[r] = Nil /\ ~open[r]
    /\ Len(wire[r]) < Wanted(r)
    /\ rerr' = [rerr EXCEPT ![r] = IF wire[r] = << >> THEN "EOF" ELSE "ErrUnexpectedEOF"]
    /\ wire' = [wire EXCEPT ![r] = << >>]
    /\ hdr' = [hdr EXCEPT ![r] = << >>]
    /\ UNCHANGED <<open, werr, sent, received>>

readFrame(r) == ReadHeader(r) \/ ReadPayload(r) \/ ReadError(r)

\* Stream.Write sends what it is given in frames of at most maxFwdPayLen
\* bytes: the first of them.
Chunk(b) == SubSeq(b, 1, Min({Len(b), maxFwdPayLen}))

\* The message counts as written when writeFrame has returned no error.
Record(w, m) == sent' = [sent EXCEPT ![w] = IF werr'[w] = Nil THEN Append(@, m) ELSE @]

Next ==
    \E c \in Conns :
        \/ \E id \in StreamIDs, l \in Addrs, win \in Windows : \E r \in Addrs \ {l} :
              /\ writeRequestFrame(c, id, l, r, win)
              /\ Record(c, RequestMessage(id, l, r, win))
        \/ \E id \in StreamIDs, l \in Addrs, win \in Windows : \E r \in Addrs \ {l} :
              /\ writeAcceptFrame(c, id, l, r, win)
              /\ Record(c, AcceptMessage(id, l, r, win))
        \/ \E id \in StreamIDs, b \in Data :
              /\ writeFwdFrame(c, id, Chunk(b))
              /\ Record(c, FwdMessage(id, Chunk(b)))
        \/ \E id \in StreamIDs, offset \in Offsets :
              /\ writeAckFrame(c, id, offset)
              /\ Record(c, AckMessage(id, offset))
        \/ \E id \in StreamIDs :
              /\ writeCloseFrame(c, id, PlaceholderReason)
              /\ Record(c, CloseMessage(id, PlaceholderReason))
        \/ Close(c)
        \/ readFrame(c)

Spec == Init /\ [][Next]_vars

\* The dispatch loop of a session is a goroutine of its own that does
\* nothing but call readFrame: a read that can return does.
FairSpec == Spec /\ \A c \in Conns : WF_vars(readFrame(c))

-----------------------------------------------------------------------------

TypeOK ==
    /\ wire \in [Conns -> Seq(Byte)]
    /\ open \in [Conns -> BOOLEAN]
    /\ \A c \in Conns : hdr[c] \in Seq(Byte) /\ Len(hdr[c]) \in {0, headerLen}
    /\ rerr \in [Conns -> {Nil, "EOF", "ErrUnexpectedEOF"}]
    /\ werr \in [Conns -> {Nil, "write error"}]
    /\ \A c \in Conns : \A df \in Range(received[c]) :
          /\ df.Type \in Byte /\ df.TpID \in Uint16
          /\ df.Pay \in Seq(Byte) /\ Len(df.Pay) <= MaxUint16
    /\ Written <= MaxFrames

\* The frames that are whole in a sequence of bytes, from its start.
RECURSIVE Frames(_)
Frames(b) ==
    IF Len(b) < headerLen \/ Len(b) < headerLen + PayLen(b)
    THEN << >>
    ELSE LET n == headerLen + PayLen(b)
             d == Disassemble(SubSeq(b, 1, n))
         IN  <<disassembledFrame(d[1], d[2], d[3])>> \o Frames(SubSeq(b, n + 1, Len(b)))

DecodedAll(dfs) == [i \in DOMAIN dfs |-> Decoded(dfs[i])]

Messages ==
    {HandshakeMessage(t, id, a[1], a[2], win) :
        t \in {RequestType, AcceptType}, id \in StreamIDs, a \in Addrs \X Addrs,
        win \in Windows}
    \cup {AckMessage(id, offset) : id \in StreamIDs, offset \in Offsets}
    \cup {FwdMessage(id, Chunk(b)) : id \in StreamIDs, b \in Data}
    \cup {CloseMessage(id, PlaceholderReason) : id \in StreamIDs}

\* The messages written and not yet read.
Unread(c) == SubSeq(sent[c], Len(received[c]) + 1, Len(sent[c]))

\* The bytes on the connection, with the header readFrame holds, are the
\* frames of the messages written and not yet read, one after the other and
\* nothing between them, followed at most by the part of a frame whose Write
\* has failed.  It is what keeps readFrame in step with the writers: its
\* only mark of where a frame ends is the length in the header before, and
\* MakeFrame writes that length as uint16(len(pay)), which is the length
\* for payloads of at most maxFwdPayLen bytes (spec section 4.1: "where
\* len(payload) <= 65535") and for no other.
WireHoldsUnread ==
    \A c \in Conns :
        rerr[c] = Nil => DecodedAll(Frames(hdr[c] \o wire[c])) = Unread(c)

Channel == INSTANCE FrameChannel WITH received <- [c \in Conns |-> DecodedAll(received[c])]

\* What readFrame returns, decoded as the dispatch loop decodes it, is what
\* was written, message for message and in the order of the writes (spec
\* section 4.1: "Decoding reads exactly 5 bytes, parses payLen, then reads
\* exactly payLen more bytes"; section 6: the frames of a session arrive in
\* the order written): every step of a writer or of readFrame is a step of
\* FrameChannel.
ImplementsFrameChannel == Channel!Spec

\* A frame written in full is returned by readFrame, also when the
\* connection is closed behind it: the second io.ReadFull of readFrame
\* returns as soon as PayLen() bytes are there, at once when PayLen() = 0.
EveryFrameIsRead ==
    \A c \in Conns : \A n \in 1..MaxFrames :
        Len(sent[c]) >= n ~> Len(received[c]) >= n

=============================================================================
