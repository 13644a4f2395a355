------------------------------- MODULE Frame -------------------------------
(***************************************************************************)
(* The frames of src/types.go: a header of five bytes (type, stream ID,    *)
(* length of the payload, both numbers big-endian in two bytes) followed   *)
(* by the payload, and the payloads of the stream handshake and of an ACK. *)
(* The module has no state: MakeFrame and the accessors of a frame are     *)
(* operators over sequences of bytes, and a message is what the dispatch   *)
(* loop of a session understands of a frame.                               *)
(*                                                                         *)
(* A byte has Base values (256 in the code), so that a uint16 has Base^2   *)
(* and a payload of the greatest length fits a model.  encoding/json is    *)
(* not part of the sources: the document of a HandshakeData is the         *)
(* sequence of its fields.                                                 *)
(***************************************************************************)
EXTENDS Integers, Sequences, SequencesExt

CONSTANTS
    Base,       \* the values of a byte
    Addrs,      \* the addresses of the handshakes
    Windows     \* the windows they advertise

Byte == 0..(Base - 1)
MaxUint16 == Base * Base - 1
Uint16 == 0..MaxUint16

\* uint16(n)
ToUint16(n) == n % (MaxUint16 + 1)

\* binary.BigEndian.PutUint16 and binary.BigEndian.Uint16
PutUint16(v) == <<v \div Base, v % Base>>
BigEndianUint16(b) == b[1] * Base + b[2]

Nil == "nil"

-----------------------------------------------------------------------------
\* Constants and the payload of the stream handshake.

maxFwdPayLenOffByOne == MaxUint16 + 1   \* fault: 1 << 16

maxFwdPayLen == MaxUint16
headerLen == 5

HandshakePayloadVersion == 2

OkType == 0
RequestType == 1
AcceptType == 2
CloseType == 3
FwdType == 10
AckType == 11

PlaceholderReason == 0

ASSUME Base \in Nat /\ Base > 1

HandshakeData ==
    [Version : {HandshakePayloadVersion}, InitAddr : Addrs, RespAddr : Addrs,
     Window : Windows]

marshalHandshakeData(p) ==
    <<p.Version, p.InitAddr.PK, p.InitAddr.Port, p.RespAddr.PK, p.RespAddr.Port,
      p.Window>>

\* var p HandshakeData: what is returned with an error.
ZeroHandshake ==
    [Version |-> 0, InitAddr |-> [PK |-> 0, Port |-> 0],
     RespAddr |-> [PK |-> 0, Port |-> 0], Window |-> 0]

\* A document is the sequence of the six fields, and a sequence of another
\* length is not one.  json.Unmarshal checks neither the version nor the
\* addresses nor the window of a document.
unmarshalHandshakeData(b) ==
    IF Len(b) # 6
    THEN [p |-> ZeroHandshake, err |-> "json"]
    ELSE [p |-> [Version |-> b[1],
                 InitAddr |-> [PK |-> b[2], Port |-> b[3]],
                 RespAddr |-> [PK |-> b[4], Port |-> b[5]],
                 Window |-> b[6]],
          err |-> Nil]

-----------------------------------------------------------------------------
\* Frames.

MakeFrame(ft, chID, pay) ==
    <<ft>> \o PutUint16(chID) \o PutUint16(ToUint16(Len(pay))) \o pay

Type(f) == f[1]
TpID(f) == BigEndianUint16(SubSeq(f, 2, 3))
PayLen(f) == BigEndianUint16(SubSeq(f, 4, 5))
Pay(f) == SubSeq(f, headerLen + 1, Len(f))
Disassemble(f) == <<Type(f), TpID(f), Pay(f)>>

disassembledFrame(t, id, p) == [Type |-> t, TpID |-> id, Pay |-> p]

disassembleAckPayload(p) ==
    IF Len(p) # 2 THEN [offset |-> 0, err |-> "invalid ACK payload size"]
                  ELSE [offset |-> BigEndianUint16(p), err |-> Nil]

-----------------------------------------------------------------------------
\* Messages: what a writer means and what the dispatch loop understands.

Message(t, id) ==
    [Type |-> t, TpID |-> id, Handshake |-> ZeroHandshake, Offset |-> 0,
     Pay |-> << >>, Err |-> Nil]

HandshakeMessage(t, id, init, resp, window) ==
    [Message(t, id) EXCEPT !.Handshake =
        [Version |-> HandshakePayloadVersion, InitAddr |-> init, RespAddr |-> resp,
         Window |-> window]]

PayMessage(t, id, p) == [Message(t, id) EXCEPT !.Pay = p]

\* What the five frame writers write.
RequestMessage(id, lAddr, rAddr, lWindow) ==
    HandshakeMessage(RequestType, id, lAddr, rAddr, lWindow)

AcceptMessage(id, lAddr, rAddr, lWindow) ==
    HandshakeMessage(AcceptType, id, rAddr, lAddr, lWindow)

FwdMessage(id, p) == PayMessage(FwdType, id, p)

AckMessage(id, offset) == [Message(AckType, id) EXCEPT !.Offset = offset]

CloseMessage(id, reason) == PayMessage(CloseType, id, <<reason>>)

\* The dispatch loop: a REQUEST and an ACCEPT carry a HandshakeData, an ACK
\* an offset, the other frames their payload.
Decoded(df) ==
    LET hs == unmarshalHandshakeData(df.Pay)
        ack == disassembleAckPayload(df.Pay)
    IN  CASE df.Type \in {RequestType, AcceptType} ->
                [Message(df.Type, df.TpID) EXCEPT !.Handshake = hs.p, !.Err = hs.err]
          [] df.Type = AckType ->
                [Message(df.Type, df.TpID) EXCEPT !.Offset = ack.offset, !.Err = ack.err]
          [] OTHER -> PayMessage(df.Type, df.TpID, df.Pay)

=============================================================================
