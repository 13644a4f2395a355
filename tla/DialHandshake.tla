---------------------------- MODULE DialHandshake ----------------------------
(***************************************************************************)
(* The dial requests and the dial response of src/types.go, and the        *)
(* handshake they are made for: an initiator signs a request that carries  *)
(* the reading of its clock, the responder verifies it against the last    *)
(* timestamp it has recorded for the source and answers with a signed      *)
(* response over the hash of the request, and the initiator verifies the   *)
(* response against the destination and the hash of what it sent.          *)
(*                                                                         *)
(* Everything between the two ends is the adversary: the relay of a        *)
(* stream dial, the network of a session dial.  It keeps every message it  *)
(* has seen and delivers any of them to anybody, any number of times and   *)
(* in any order, untouched or with one field changed, under the signature  *)
(* it came with, under none, or under one made with the key of a           *)
(* compromised node; and it dials in the name of the compromised nodes.    *)
(*                                                                         *)
(* The cipher package and encodeGob are not part of the sources: a         *)
(* signature is the pair of the key and the bytes it was made over, a hash *)
(* is its preimage, and the gob encoding of a struct is the name of its    *)
(* type with its fields that are not zero.  The callers of Verify (what a  *)
(* responder records and answers, what an initiator does with the          *)
(* response) are modelled from the specification.                          *)
(***************************************************************************)
EXTENDS Integers, FiniteSets, Sequences, Functions

CONSTANTS
    Initiators,   \* honest nodes that dial
    Responders,   \* honest nodes that answer
    Compromised,  \* nodes whose secret key the adversary has
    NoiseMsgs,    \* handshake messages of the key exchange (stream dials)
    MaxTime,      \* bound: the last reading of the clock
    MaxPort,      \* bound: ports are 0..MaxPort, 0 is the null port
    MaxAccepts,   \* bound: the requests one responder accepts in a behaviour
    NullPK,       \* cipher.PubKey{}
    NULL          \* cipher.Sig{}, a nil []byte, a nil request

Honest == Initiators \cup Responders
PKs == Honest \cup Compromised
Keys == PKs \cup {NullPK}

ASSUME
    /\ Honest \cap Compromised = {}
    /\ NullPK \notin PKs
    /\ MaxTime \in Nat \ {0}
    /\ MaxPort \in Nat \ {0}
    /\ MaxAccepts \in Nat

VARIABLES
    kind,           \* the request the nodes dial with: its type name
    clock,          \* time.Now().UnixNano()
    net,            \* the signed messages honest nodes have sent
    lastTimestamp,  \* responder -> source -> the timestamp last accepted
    accepted,       \* responder -> the requests it has accepted, in order
    pending,        \* initiator -> the request it waits for a response to
    outcome,        \* initiator -> the result of its last dial
    sessions        \* <<initiator, request>>: dials that have succeeded

vars == <<kind, clock, net, lastTimestamp, accepted, pending, outcome, sessions>>

-----------------------------------------------------------------------------
\* The cipher package and the encoding.

NullSig == NULL

\* The zero value of every field; gob does not send a field that has it.
Zero ==
    [type |-> NULL, Timestamp |-> 0, SrcPK |-> NullPK, DstPK |-> NullPK,
     SrcAddr |-> [PK |-> NullPK, Port |-> 0], DstAddr |-> [PK |-> NullPK, Port |-> 0],
     NoiseMsg |-> NULL, Sig |-> NullSig, ReqHash |-> NULL, Accepted |-> FALSE,
     ErrCode |-> 0]

encodeGob(v) == Restrict(v, {f \in DOMAIN v : v[f] # Zero[f]})

SumSHA256(b) == <<"SHA256", b>>

\* The secret key of a node is named by its public key.
SignPayload(b, sk) == [by |-> sk, of |-> SumSHA256(b)]

VerifyPubKeySignedPayload(pk, sig, b) ==
    /\ sig # NullSig
    /\ sig.by = pk
    /\ sig.of = SumSHA256(b)

\* The error of the first check that fails, in the order of the checks.
Nil == "nil"
FirstError(checks) ==
    LET failed == SelectSeq(checks, LAMBDA c : c[1])
    IN  IF failed = << >> THEN Nil ELSE failed[1][2]

-----------------------------------------------------------------------------
\* The three messages.  A request without signature is what is signed and
\* hashed.

Timestamps == 0..MaxTime
Addr == [PK : Keys, Port : 0..MaxPort]

SessionDialRequest ==
    [type : {"SessionDialRequest"}, Timestamp : Timestamps,
     SrcPK : Keys, DstPK : Keys, Sig : {NullSig}]

StreamDialRequest ==
    [type : {"StreamDialRequest"}, Timestamp : Timestamps,
     SrcAddr : Addr, DstAddr : Addr, NoiseMsg : NoiseMsgs \cup {NULL}, Sig : {NullSig}]

Unsigned == SessionDialRequest \cup StreamDialRequest

Src(dr) == IF dr.type = "SessionDialRequest" THEN dr.SrcPK ELSE dr.SrcAddr.PK
Dst(dr) == IF dr.type = "SessionDialRequest" THEN dr.DstPK ELSE dr.DstAddr.PK

\* The null hash a response never carries stands for every hash that is
\* not the hash of a request.
DialResponse(hashes, sigs) ==
    [type : {"DialResponse"}, ReqHash : hashes, Accepted : BOOLEAN,
     ErrCode : 0..255, NoiseMsg : NoiseMsgs \cup {NULL}, Sig : sigs]

\* dr.Sig = cipher.Sig{}; sig := SignPayload(encodeGob(dr), sk); dr.Sig = sig
Sign(dr, sk) ==
    LET zeroed == [dr EXCEPT !.Sig = NullSig]
    IN  [dr EXCEPT !.Sig = SignPayload(encodeGob(zeroed), sk)]

\* Fault: the request is hashed with its signature.
HashWithSig(dr) == SumSHA256(encodeGob(dr))

\* dr.Sig = cipher.Sig{}; return SumSHA256(encodeGob(dr))
Hash(dr) == SumSHA256(encodeGob([dr EXCEPT !.Sig = NullSig]))

\* The methods of StreamDialRequest and of DialResponse repeat those of
\* SessionDialRequest.
StreamSign(dr, sk) ==
    [dr EXCEPT !.Sig = SignPayload(encodeGob([dr EXCEPT !.Sig = NullSig]), sk)]

StreamHash(dr) == SumSHA256(encodeGob([dr EXCEPT !.Sig = NullSig]))

RespSign(dr, sk) ==
    [dr EXCEPT !.Sig = SignPayload(encodeGob([dr EXCEPT !.Sig = NullSig]), sk)]

HashOf(dr) == IF dr.type = "SessionDialRequest" THEN Hash(dr) ELSE StreamHash(dr)

\* The signature of dr is one of pk over dr with the signature zeroed.
SignedBy(dr, pk) ==
    VerifyPubKeySignedPayload(pk, dr.Sig, encodeGob([dr EXCEPT !.Sig = NullSig]))

\* MakeSessionDialRequest(srcPK, dstPK, sk), and the stream request a node
\* makes the same way.
MakeSessionDialRequest(srcPK, dstPK, sk) ==
    Sign([type |-> "SessionDialRequest", Timestamp |-> clock,
          SrcPK |-> srcPK, DstPK |-> dstPK, Sig |-> NullSig], sk)

MakeStreamDialRequest(src, dst, noise, sk) ==
    StreamSign([type |-> "StreamDialRequest", Timestamp |-> clock,
          SrcAddr |-> src, DstAddr |-> dst, NoiseMsg |-> noise, Sig |-> NullSig], sk)

\* Faults of SessionDialRequest.Verify: a timestamp equal to the last one
\* passes; the signature is not looked at.
SessionVerifyInclusive(dr, last) ==
    FirstError(<<
        <<dr.SrcPK = NullPK,        "ErrDialReqInvalidSrcPK">>,
        <<dr.DstPK = NullPK,        "ErrDialReqInvalidDstPK">>,
        <<dr.Timestamp < last,      "ErrDialReqInvalidTimestamp">>,
        <<~SignedBy(dr, dr.SrcPK),  "ErrDialReqInvalidSig">> >>)

SessionVerifyUnsigned(dr, last) ==
    FirstError(<<
        <<dr.SrcPK = NullPK,        "ErrDialReqInvalidSrcPK">>,
        <<dr.DstPK = NullPK,        "ErrDialReqInvalidDstPK">>,
        <<dr.Timestamp <= last,     "ErrDialReqInvalidTimestamp">> >>)

\* SessionDialRequest.Verify(lastTimestamp)
SessionVerify(dr, last) ==
    FirstError(<<
        <<dr.SrcPK = NullPK,        "ErrDialReqInvalidSrcPK">>,
        <<dr.DstPK = NullPK,        "ErrDialReqInvalidDstPK">>,
        <<dr.Timestamp <= last,     "ErrDialReqInvalidTimestamp">>,
        <<~SignedBy(dr, dr.SrcPK),  "ErrDialReqInvalidSig">> >>)

\* Faults of StreamDialRequest.Verify, as above.
StreamVerifyInclusive(dr, last) ==
    FirstError(<<
        <<dr.SrcAddr.PK = NullPK,       "ErrDialReqInvalidSrcPK">>,
        <<dr.SrcAddr.Port = 0,          "ErrDialReqInvalidSrcPort">>,
        <<dr.DstAddr.PK = NullPK,       "ErrDialReqInvalidDstPK">>,
        <<dr.DstAddr.Port = 0,          "ErrDialReqInvalidDstPort">>,
        <<dr.Timestamp < last,          "ErrDialReqInvalidTimestamp">>,
        <<~SignedBy(dr, dr.SrcAddr.PK), "ErrDialReqInvalidSig">> >>)

StreamVerifyUnsigned(dr, last) ==
    FirstError(<<
        <<dr.SrcAddr.PK = NullPK,       "ErrDialReqInvalidSrcPK">>,
        <<dr.SrcAddr.Port = 0,          "ErrDialReqInvalidSrcPort">>,
        <<dr.DstAddr.PK = NullPK,       "ErrDialReqInvalidDstPK">>,
        <<dr.DstAddr.Port = 0,          "ErrDialReqInvalidDstPort">>,
        <<dr.Timestamp <= last,         "ErrDialReqInvalidTimestamp">> >>)

\* StreamDialRequest.Verify(lastTimestamp)
StreamVerify(dr, last) ==
    FirstError(<<
        <<dr.SrcAddr.PK = NullPK,       "ErrDialReqInvalidSrcPK">>,
        <<dr.SrcAddr.Port = 0,          "ErrDialReqInvalidSrcPort">>,
        <<dr.DstAddr.PK = NullPK,       "ErrDialReqInvalidDstPK">>,
        <<dr.DstAddr.Port = 0,          "ErrDialReqInvalidDstPort">>,
        <<dr.Timestamp <= last,         "ErrDialReqInvalidTimestamp">>,
        <<~SignedBy(dr, dr.SrcAddr.PK), "ErrDialReqInvalidSig">> >>)

Verify(dr, last) ==
    IF dr.type = "SessionDialRequest" THEN SessionVerify(dr, last)
                                      ELSE StreamVerify(dr, last)

\* The errors a responder gives a code to, and ErrorFromCode.
Errors ==
    <<"ErrDialReqInvalidSrcPK", "ErrDialReqInvalidSrcPort", "ErrDialReqInvalidDstPK",
      "ErrDialReqInvalidDstPort", "ErrDialReqInvalidTimestamp", "ErrDialReqInvalidSig">>

CodeOf(err) == CHOOSE code \in DOMAIN Errors : Errors[code] = err

ErrorFromCode(code) ==
    IF code \in DOMAIN Errors THEN Errors[code] ELSE "ErrDialRespNotAccepted"

\* Faults of DialResponse.Verify: the hash is not compared; the signature
\* is verified against the key of whoever signed.
RespVerifyAnyHash(dr, reqDstPK, reqHash) ==
    FirstError(<<
        <<~SignedBy(dr, reqDstPK),  "ErrDialRespInvalidSig">>,
        <<~dr.Accepted,             ErrorFromCode(dr.ErrCode)>> >>)

RespVerifyAnySigner(dr, reqDstPK, reqHash) ==
    FirstError(<<
        <<dr.ReqHash # reqHash,     "ErrDialRespInvalidHash">>,
        <<dr.Sig = NullSig \/ ~SignedBy(dr, dr.Sig.by), "ErrDialRespInvalidSig">>,
        <<~dr.Accepted,             ErrorFromCode(dr.ErrCode)>> >>)

\* DialResponse.Verify(reqDstPK, reqHash)
RespVerify(dr, reqDstPK, reqHash) ==
    FirstError(<<
        <<dr.ReqHash # reqHash,     "ErrDialRespInvalidHash">>,
        <<~SignedBy(dr, reqDstPK),  "ErrDialRespInvalidSig">>,
        <<~dr.Accepted,             ErrorFromCode(dr.ErrCode)>> >>)

-----------------------------------------------------------------------------
\* What the adversary can deliver.

Sent(type) == {m \in net : m.type = type}

\* The values it can put into a field of a request.
FieldValues ==
    [Timestamp |-> Timestamps, SrcPK |-> Keys, DstPK |-> Keys,
     SrcAddr |-> Addr, DstAddr |-> Addr, NoiseMsg |-> NoiseMsgs \cup {NULL}]

\* A request with one field changed.
Tampered(dr) ==
    UNION {{[dr EXCEPT ![f] = v] : v \in FieldValues[f]} :
             f \in DOMAIN dr \cap DOMAIN FieldValues}

\* The signatures it can give a message that had signature sig: that one,
\* none, and those of the compromised nodes over the message.
Signatures(m, sig) ==
    {sig, NullSig}
        \cup {SignPayload(encodeGob([m EXCEPT !.Sig = NullSig]), c) : c \in Compromised}

\* What it makes of a message it has seen: the message untouched or with a
\* field changed, under each of those signatures.
Forged(dr) ==
    UNION {{[t EXCEPT !.Sig = sig] : sig \in Signatures(t, dr.Sig)} :
             t \in Tampered(dr) \cup {dr}}

\* The requests the compromised nodes make in their own name, as any node
\* would, with the timestamp they like.
Own ==
    {Sign(body, Src(body)) :
        body \in {u \in Unsigned : /\ Src(u) \in Compromised
                                  /\ Dst(u) \in Honest
                                  /\ Verify(Sign(u, Src(u)), 0) = Nil}}

\* Every request it can show a responder.
Requests ==
    {dr \in Own : dr.type = kind} \cup UNION {Forged(dr) : dr \in Sent(kind)}

\* A signed response of node r.
Response(r, hash, err, noise) ==
    RespSign([type |-> "DialResponse", ReqHash |-> hash, Accepted |-> err = Nil,
          ErrCode |-> IF err = Nil THEN 0 ELSE CodeOf(err),
          NoiseMsg |-> noise, Sig |-> NullSig], r)

\* "On failure it may send accepted=false, errCode": the responses honest
\* nodes give, now, to the requests with the hash of dr that they are
\* shown and do not accept.  Refusing changes nothing at the responder.
Refusals(dr) ==
    UNION {{Response(r, HashOf(dr), Verify(x, lastTimestamp[r][Src(x)]), NULL) :
              x \in {y \in Forged(dr) : /\ HashOf(y) = HashOf(dr)
                                        /\ Verify(y, lastTimestamp[r][Src(y)]) # Nil}} :
           r \in Responders}

\* The responses that can reach the initiator that has sent dr: those
\* sent, untouched or forged, the refusals of dr, and the adversary's own
\* to dr.
Responses(dr) ==
    Refusals(dr)
        \cup UNION {Forged(rsp) : rsp \in Sent("DialResponse")}
        \cup UNION {{Sign(body, c) : c \in Compromised} :
                      body \in [type : {"DialResponse"}, ReqHash : {HashOf(dr)},
                                Accepted : BOOLEAN, ErrCode : {0, 1},
                                NoiseMsg : {NULL}, Sig : {NullSig}]}

-----------------------------------------------------------------------------

\* The nodes are servers and the clients that dial them for a session, or
\* clients that dial each other for a stream through a server.
Init ==
    /\ kind \in {"SessionDialRequest", "StreamDialRequest"}
    /\ clock = 1
    /\ net = {}
    /\ lastTimestamp = [r \in Responders |-> [pk \in Keys |-> 0]]
    /\ accepted = [r \in Responders |-> << >>]
    /\ pending = [i \in Initiators |-> NULL]
    /\ outcome = [i \in Initiators |-> NULL]
    /\ sessions = {}

\* The clock of the nodes advances.
Tick ==
    /\ clock < MaxTime
    /\ clock' = clock + 1
    /\ UNCHANGED <<kind, net, lastTimestamp, accepted, pending, outcome, sessions>>

\* An initiator makes a request with the reading of its clock and sends it.
Dial(i, dst, srcPort, dstPort, noise) ==
    /\ pending[i] = NULL
    /\ dst # i
    /\ LET dr == IF kind = "SessionDialRequest"
                 THEN MakeSessionDialRequest(i, dst, i)
                 ELSE MakeStreamDialRequest([PK |-> i, Port |-> srcPort],
                                            [PK |-> dst, Port |-> dstPort], noise, i)
       IN  /\ net' = net \cup {dr}
           /\ pending' = [pending EXCEPT ![i] = dr]
    /\ outcome' = [outcome EXCEPT ![i] = NULL]
    /\ UNCHANGED <<kind, clock, lastTimestamp, accepted, sessions>>

\* A responder reads a request that Verify passes: it records the timestamp
\* for the source and sends DialResponse{reqHash, accepted=true}, signed.
Accept(r, dr, noise) ==
    /\ Len(accepted[r]) < MaxAccepts
    /\ Verify(dr, lastTimestamp[r][Src(dr)]) = Nil
    /\ lastTimestamp' = [lastTimestamp EXCEPT ![r][Src(dr)] = dr.Timestamp]
    /\ accepted' = [accepted EXCEPT ![r] = Append(@, dr)]
    /\ net' = net \cup {Response(r, HashOf(dr), Nil, noise)}
    /\ UNCHANGED <<kind, clock, pending, outcome, sessions>>

\* An initiator reads a response that Verify passes: the dial has succeeded.
Established(i) ==
    /\ pending[i] # NULL
    /\ \E rsp \in Responses(pending[i]) :
          RespVerify(rsp, Dst(pending[i]), HashOf(pending[i])) = Nil
    /\ sessions' = sessions \cup {<<i, pending[i]>>}
    /\ outcome' = [outcome EXCEPT ![i] = Nil]
    /\ pending' = [pending EXCEPT ![i] = NULL]
    /\ UNCHANGED <<kind, clock, net, lastTimestamp, accepted>>

\* It reads one that Verify does not pass: the dial fails with the error.
DialFailed(i) ==
    /\ pending[i] # NULL
    /\ \E rsp \in Responses(pending[i]) :
        LET err == RespVerify(rsp, Dst(pending[i]), HashOf(pending[i]))
        IN  err # Nil /\ outcome' = [outcome EXCEPT ![i] = err]
    /\ pending' = [pending EXCEPT ![i] = NULL]
    /\ UNCHANGED <<kind, clock, net, lastTimestamp, accepted, sessions>>

\* No response within the handshake timeout: the connection is closed.
Timeout(i) ==
    /\ pending[i] # NULL
    /\ outcome' = [outcome EXCEPT ![i] = "timeout"]
    /\ pending' = [pending EXCEPT ![i] = NULL]
    /\ UNCHANGED <<kind, clock, net, lastTimestamp, accepted, sessions>>

Ports == IF kind = "SessionDialRequest" THEN {0} ELSE 1..MaxPort
Noise == IF kind = "SessionDialRequest" THEN {NULL} ELSE NoiseMsgs

Next ==
    \/ Tick
    \/ \E i \in Initiators, dst \in PKs, sp, dp \in Ports, n \in Noise : Dial(i, dst, sp, dp, n)
    \/ \E r \in Responders, dr \in Requests, n \in Noise : Accept(r, dr, n)
    \/ \E i \in Initiators : Established(i) \/ DialFailed(i) \/ Timeout(i)

Spec == Init /\ [][Next]_vars

-----------------------------------------------------------------------------

Hashes == {HashOf(body) : body \in Unsigned}

Signed(bodies) == {dr \in net : [dr EXCEPT !.Sig = NullSig] \in bodies /\ dr.Sig.by \in Honest}

TypeOK ==
    /\ kind \in {"SessionDialRequest", "StreamDialRequest"}
    /\ clock \in 1..MaxTime
    /\ net = Signed(Unsigned) \cup Signed(DialResponse(Hashes, {NullSig}))
    /\ lastTimestamp \in [Responders -> [Keys -> Timestamps]]
    /\ \A r \in Responders : \A dr \in Range(accepted[r]) :
          [dr EXCEPT !.Sig = NullSig] \in Unsigned
    /\ \A i \in Initiators : pending[i] # NULL => pending[i] \in Sent(pending[i].type)
    /\ outcome \in [Initiators -> {NULL, Nil, "timeout", "ErrDialRespInvalidHash",
                                   "ErrDialRespInvalidSig", "ErrDialRespNotAccepted"}
                                      \cup Range(Errors)]
    /\ sessions \subseteq Initiators \X net

\* "For each source PK a session has seen, the recorded lastTimestamp
\* strictly increases across successful dial requests": of two requests of
\* one source that a responder has accepted, the later has the higher
\* timestamp, so no request is accepted twice however often it is
\* delivered (Verify compares with <=, the responder records on success).
AcceptedTimestampsIncrease ==
    \A r \in Responders : \A j, k \in DOMAIN accepted[r] :
        (j < k /\ Src(accepted[r][j]) = Src(accepted[r][k]))
            => accepted[r][j].Timestamp < accepted[r][k].Timestamp

\* A request accepted in the name of an honest node is one that node made,
\* field for field: Verify checks the signature against the source key of
\* the request, over the request without its signature.
RequestAuthentic ==
    \A r \in Responders : \A dr \in Range(accepted[r]) :
        Src(dr) \in Honest => dr \in net

\* A dial to an honest node succeeds only if that node has accepted this
\* very request: DialResponse.Verify takes the hash of the request sent and
\* the key of its destination, so the response to another request, or the
\* response of another node the request was led to, does not pass.
ResponseAuthentic ==
    \A s \in sessions :
        Dst(s[2]) \in Honest =>
            /\ Dst(s[2]) \in Responders
            /\ s[2] \in Range(accepted[Dst(s[2])])

=============================================================================
