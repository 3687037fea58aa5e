----------------------------- MODULE FrameConn -----------------------------
(***************************************************************************)
(* A connection that transmits frames (pkg/listener/quic) over one QUIC    *)
(* stream, with the y3 codec (pkg/frame-codec/y3codec).                    *)
(*                                                                         *)
(* Several goroutines of one end call WriteFrame, as the handlers of a     *)
(* zipper do on the connection of a function; the other end reads frames   *)
(* in a loop.  A packet gets on the stream in two parts, its head and its  *)
(* body, because a write may wait for flow control half way.  Each end has *)
(* its own view of how the connection ended: either may close it, both at  *)
(* once too, the listener may be closed, and the word of it gets to the    *)
(* other end later or never, which then finds the connection idle.         *)
(***************************************************************************)
EXTENDS Integers, Sequences, SequencesExt

CONSTANTS
    Writers,        \* goroutines that call WriteFrame at the writing end
    Outgoing,       \* the frames they may write
    MaxWrites       \* bound on the frames they write between them

ASSUME FrameConnAssumption == MaxWrites \in Nat /\ "none" \notin Writers

\* The type bytes of frame.go.
TypeByte ==
    [DataFrame |-> 63, HandshakeFrame |-> 49, HandshakeAckFrame |-> 41,
     RejectedFrame |-> 57, GoawayFrame |-> 46, ConnectToFrame |-> 62]

Bytes == Seq(0 .. 255)
\* uint32: four bytes, three of them above the lowest.
Tag == {v \in Nat : v \div 256 < 256 * 256 * 256}

\* A slice that the code tests for nil: none, or the bytes it holds.
Definition == {d \in Seq(Bytes) : Len(d) <= 1}
BytesOf(def) == IF def = <<>> THEN <<>> ELSE def[1]

DataFrame ==
    [type : {"DataFrame"}, Tag : Tag, Metadata : Bytes, Payload : Bytes]
HandshakeFrame ==
    [type : {"HandshakeFrame"}, Name : Bytes, ID : Bytes, ClientType : 0 .. 255,
     ObserveDataTags : Seq(Tag), AuthName : Bytes, AuthPayload : Bytes,
     Version : Bytes, FunctionDefinition : Definition, WantedTarget : Bytes]
HandshakeAckFrame == [type : {"HandshakeAckFrame"}]
RejectedFrame == [type : {"RejectedFrame"}, Message : Bytes]
GoawayFrame == [type : {"GoawayFrame"}, Message : Bytes]
ConnectToFrame == [type : {"ConnectToFrame"}, Endpoint : Bytes]

Frames == DataFrame \union HandshakeFrame \union HandshakeAckFrame
            \union RejectedFrame \union GoawayFrame \union ConnectToFrame

\* A value of one of the six types has its fields; other values are refused.
ASSUME OutgoingAssumption ==
    \A f \in Outgoing : f.type \in DOMAIN TypeByte => f \in Frames

-----------------------------------------------------------------------------
(***************************************************************************)
(* y3: a node packet is a head byte and primitive packets, each a tag and  *)
(* its value.                                                              *)
(***************************************************************************)

NodePacket(type, prims) == [head |-> 128 + TypeByte[type], prims |-> prims]

\* PrimitivePackets[tag], of the last primitive with the tag; a frame keeps the
\* zero value of a field whose primitive is missing.
Field(p, tag, zero) ==
    LET at == {i \in DOMAIN p.prims : p.prims[i].tag = tag}
    IN  IF at = {} THEN zero
        ELSE p.prims[CHOOSE i \in at : \A j \in at : j <= i].val

Has(p, tag) == \E i \in DOMAIN p.prims : p.prims[i].tag = tag

Block(tag, val) == [tag |-> tag, val |-> val]

\* binary.LittleEndian.
PutUint32(v) ==
    LET q1 == v \div 256
        q2 == q1 \div 256
    IN  <<v % 256, q1 % 256, q2 % 256, (q2 \div 256) % 256>>
Uint32(b1, b2, b3, b4) == 
    b1 + 256 * (b2 + 256 * (b3 + 256 * b4))

\* Each tag is written into one buffer and added to the block: four bytes a tag.
EncodeTags(tags) ==
    [i \in 1 .. 4 * Len(tags) |->
        PutUint32(tags[((i - 1) \div 4) + 1])[((i - 1) % 4) + 1]]
DecodeTags(buf) ==
    [i \in 1 .. Len(buf) \div 4 |->
        Uint32(buf[4 * i - 3], buf[4 * i - 2], buf[4 * i - 1], buf[4 * i])]

-----------------------------------------------------------------------------
(***************************************************************************)
(* The codec.                                                              *)
(***************************************************************************)

encodeDataFrame(f) ==
    <<Block(1, f.Tag), Block(3, f.Metadata), Block(2, f.Payload)>>

decodeDataFrame(p) ==
    [type |-> "DataFrame", Tag |-> Field(p, 1, 0),
     Metadata |-> Field(p, 3, <<>>), Payload |-> Field(p, 2, <<>>)]

\* Mutant: the wanted target and the version share a tag.
encodeHandshakeFrameShared(f) ==
    <<Block(1, f.Name), Block(3, f.ID), Block(2, <<f.ClientType>>),
      Block(6, EncodeTags(f.ObserveDataTags)), Block(4, f.AuthName),
      Block(5, f.AuthPayload), Block(7, f.Version),
      Block(9, BytesOf(f.FunctionDefinition)), Block(7, f.WantedTarget)>>

\* Every block is written, that of an absent definition too.
encodeHandshakeFrame(f) ==
    <<Block(1, f.Name), Block(3, f.ID), Block(2, <<f.ClientType>>),
      Block(6, EncodeTags(f.ObserveDataTags)), Block(4, f.AuthName),
      Block(5, f.AuthPayload), Block(7, f.Version),
      Block(9, BytesOf(f.FunctionDefinition)), Block(8, f.WantedTarget)>>

decodeHandshakeFrame(p) ==
    [type |-> "HandshakeFrame", Name |-> Field(p, 1, <<>>),
     ID |-> Field(p, 3, <<>>), ClientType |-> Field(p, 2, <<0>>)[1],
     ObserveDataTags |-> DecodeTags(Field(p, 6, <<>>)),
     AuthName |-> Field(p, 4, <<>>), AuthPayload |-> Field(p, 5, <<>>),
     Version |-> Field(p, 7, <<>>),
     FunctionDefinition |-> IF Has(p, 9) THEN <<Field(p, 9, <<>>)>> ELSE <<>>,
     WantedTarget |-> Field(p, 8, <<>>)]

encodeRejectedFrame(f) == <<Block(1, f.Message)>>
decodeRejectedFrame(p) == [type |-> "RejectedFrame", Message |-> Field(p, 1, <<>>)]

encodeGoawayFrame(f) == <<Block(1, f.Message)>>
decodeGoawayFrame(p) == [type |-> "GoawayFrame", Message |-> Field(p, 1, <<>>)]

encodeConnectToFrame(f) == <<Block(1, f.Endpoint)>>
decodeConnectToFrame(p) == [type |-> "ConnectToFrame", Endpoint |-> Field(p, 1, <<>>)]

encodeHandshakeAckFrame(f) == <<>>
decodeHandshakeAckFrame(p) == [type |-> "HandshakeAckFrame"]

\* Encode; a value of no frame type is ErrUnknownFrame.
Encodable(f) == f.type \in DOMAIN TypeByte

Encode(f) ==
    NodePacket(f.type,
        CASE f.type = "DataFrame" -> encodeDataFrame(f)
          [] f.type = "HandshakeFrame" -> encodeHandshakeFrame(f)
          [] f.type = "HandshakeAckFrame" -> encodeHandshakeAckFrame(f)
          [] f.type = "RejectedFrame" -> encodeRejectedFrame(f)
          [] f.type = "GoawayFrame" -> encodeGoawayFrame(f)
          [] f.type = "ConnectToFrame" -> encodeConnectToFrame(f))

\* ReadPacket's type: the low seven bits of the head, which carry no node flag.
PacketType(p) == p.head % 128

\* NewFrame and Decode: the type byte says which frame is decoded.
Decode(p) ==
    CASE PacketType(p) = TypeByte.DataFrame -> decodeDataFrame(p)
      [] PacketType(p) = TypeByte.HandshakeFrame -> decodeHandshakeFrame(p)
      [] PacketType(p) = TypeByte.HandshakeAckFrame -> decodeHandshakeAckFrame(p)
      [] PacketType(p) = TypeByte.RejectedFrame -> decodeRejectedFrame(p)
      [] PacketType(p) = TypeByte.GoawayFrame -> decodeGoawayFrame(p)
      [] PacketType(p) = TypeByte.ConnectToFrame -> decodeConnectToFrame(p)

-----------------------------------------------------------------------------
(***************************************************************************)
(* The connection.                                                         *)
(***************************************************************************)

VARIABLES
    writer,     \* writer -> what it is at
    calls,      \* frames passed to WriteFrame so far
    frame,      \* writer -> the frame of its call
    lock,       \* the writer inside Stream.Write, or none
    stream,     \* parts on the stream that the reader has not taken
    sent,       \* the frames whose head is on the stream, in order
    received,   \* the frames ReadFrame has returned
    head,       \* the heads ReadPacket has read without their body
    cause,      \* end -> the error quic-go ended the connection with, if any
    notice,     \* end -> the error that is on its way to it from the other end
    listening,  \* the listener of the writing end is open
    readErr,    \* the error of the last ReadFrame
    writeErr    \* writer -> the error of its last WriteFrame

endVars == <<cause, notice, listening>>
vars == <<writer, calls, frame, lock, stream, sent, received, head, endVars,
          readErr, writeErr>>

None == "none"
NoFrame == [type |-> "none"]
Ends == {"writer", "reader"}
Other(e) == IF e = "writer" THEN "reader" ELSE "writer"

\* What quic-go ends a connection with: an ApplicationError with its code and
\* which end raised it, or an idle timeout.
Cause(code, remote) == [code |-> code, remote |-> remote]
NoCause == Cause(None, FALSE)
ListenerCode == "0x00"
YomoCloseErrorCode == "0x13"
Codes == {None, ListenerCode, YomoCloseErrorCode, "idle"}
Ended(e) == cause[e] # NoCause

Errors == {None, "local", "remote", "other"}
Part(w, what) == [part |-> what, pkt |-> Encode(frame[w])]

Init ==
    /\ writer = [w \in Writers |-> "idle"]
    /\ calls = 0
    /\ frame = [w \in Writers |-> NoFrame]
    /\ lock = None
    /\ stream = <<>>
    /\ sent = <<>>
    /\ received = <<>>
    /\ head = <<>>
    /\ cause = [e \in Ends |-> NoCause]
    /\ notice = [e \in Ends |-> NoCause]
    /\ listening = TRUE
    /\ readErr = None
    /\ writeErr = [w \in Writers |-> None]

\* handleError: what the error of quic-go tells the given end.  A closed
\* listener counts as closed by the other end on both; any error that is not an
\* ApplicationError is returned as it is.
handleError(e) ==
    CASE cause[e].code = ListenerCode -> "remote"
      [] cause[e].code = YomoCloseErrorCode ->
            IF cause[e].remote THEN "remote" ELSE "local"
      [] OTHER -> "other"

\* WriteFrame: the frame is encoded, or is unknown.
WriteFrame(w, f) ==
    /\ writer[w] = "idle"
    /\ calls < MaxWrites
    /\ calls' = calls + 1
    /\ IF Encodable(f)
         THEN /\ frame' = [frame EXCEPT ![w] = f]
              /\ writer' = [writer EXCEPT ![w] = "encoded"]
              /\ writeErr' = [writeErr EXCEPT ![w] = None]
         ELSE /\ writeErr' = [writeErr EXCEPT ![w] = "unknown"]
              /\ UNCHANGED <<frame, writer>>
    /\ UNCHANGED <<lock, stream, sent, received, head, endVars, readErr>>

\* WritePacket: one call of Stream.Write, which lets one caller in at a time.
\* The first part ...
WritePacket(w) ==
    /\ writer[w] = "encoded"
    /\ lock = None
    /\ ~Ended("writer")
    /\ lock' = w
    /\ stream' = Append(stream, Part(w, "head"))
    /\ sent' = Append(sent, frame[w])
    /\ writer' = [writer EXCEPT ![w] = "half"]
    /\ UNCHANGED <<calls, frame, received, head, endVars, readErr, writeErr>>

\* ... and the rest.
WritePacketRest(w) ==
    /\ writer[w] = "half"
    /\ ~Ended("writer")
    /\ stream' = Append(stream, Part(w, "body"))
    /\ lock' = None
    /\ writer' = [writer EXCEPT ![w] = "idle"]
    /\ frame' = [frame EXCEPT ![w] = NoFrame]
    /\ UNCHANGED <<calls, sent, received, head, endVars, readErr,
                   writeErr>>

\* Stream.Write fails, before or half way.
WriteError(w) ==
    /\ writer[w] \in {"encoded", "half"}
    /\ Ended("writer")
    /\ writeErr' = [writeErr EXCEPT ![w] = handleError("writer")]
    /\ writer' = [writer EXCEPT ![w] = "idle"]
    /\ frame' = [frame EXCEPT ![w] = NoFrame]
    /\ lock' = IF lock = w THEN None ELSE lock
    /\ UNCHANGED <<calls, stream, sent, received, head, endVars,
                   readErr>>

\* ReadPacket has read the head of a packet ...
ReadHead ==
    /\ ~Ended("reader")
    /\ head = <<>>
    /\ stream # <<>>
    /\ head' = <<Head(stream)>>
    /\ stream' = Tail(stream)
    /\ UNCHANGED <<writer, calls, frame, lock, sent, received, endVars,
                   readErr, writeErr>>

\* ... and its body, whatever comes next: ReadFrame returns the frame.
ReadFrame ==
    /\ ~Ended("reader")
    /\ head # <<>>
    /\ stream # <<>>
    /\ received' = Append(received,
            Decode([head |-> head[1].pkt.head, prims |-> Head(stream).pkt.prims]))
    /\ head' = <<>>
    /\ stream' = Tail(stream)
    /\ UNCHANGED <<writer, calls, frame, lock, sent, endVars, readErr,
                   writeErr>>

\* Mutant: an error in the middle of a packet is not returned.
ReadErrorBetween ==
    /\ Ended("reader")
    /\ readErr = None
    /\ head = <<>>
    /\ readErr' = handleError("reader")
    /\ UNCHANGED <<writer, calls, frame, lock, stream, sent, received, head,
                   endVars, writeErr>>

\* ReadPacket fails, between packets or inside one.
ReadError ==
    /\ Ended("reader")
    /\ readErr = None
    /\ readErr' = handleError("reader")
    /\ UNCHANGED <<writer, calls, frame, lock, stream, sent, received, head,
                   endVars, writeErr>>

\* One end ends the connection, and tells the other.
EndWith(e, code) ==
    /\ cause' = [cause EXCEPT ![e] = Cause(code, FALSE)]
    /\ notice' = [notice EXCEPT ![Other(e)] = Cause(code, TRUE)]
    /\ UNCHANGED <<writer, calls, frame, lock, stream, sent, received, head,
                   readErr, writeErr>>

\* Mutant: without a code of its own, a close is taken for that of a listener.
CloseWithErrorZero(e) ==
    /\ ~Ended(e)
    /\ EndWith(e, ListenerCode)
    /\ UNCHANGED listening

CloseWithError(e) ==
    /\ ~Ended(e)
    /\ EndWith(e, YomoCloseErrorCode)
    /\ UNCHANGED listening

\* Close of the listener, at the zipper, here the writing end: every connection
\* that is open ends.
CloseListener ==
    /\ listening
    /\ listening' = FALSE
    /\ IF Ended("writer")
         THEN UNCHANGED <<writer, calls, frame, lock, stream, sent, received,
                          head, cause, notice, readErr, writeErr>>
         ELSE EndWith("writer", ListenerCode)

\* The other end's close arrives ...
CloseArrives(e) ==
    /\ ~Ended(e)
    /\ notice[e] # NoCause
    /\ cause' = [cause EXCEPT ![e] = notice[e]]
    /\ UNCHANGED <<writer, calls, frame, lock, stream, sent, received, head,
                   notice, listening, readErr, writeErr>>

\* ... or nothing does, for long enough.
IdleTimeout(e) ==
    /\ ~Ended(e)
    /\ cause' = [cause EXCEPT ![e] = Cause("idle", FALSE)]
    /\ UNCHANGED <<writer, calls, frame, lock, stream, sent, received, head,
                   notice, listening, readErr, writeErr>>

Next ==
    \/ \E w \in Writers :
        \/ \E f \in Outgoing : WriteFrame(w, f)
        \/ WritePacket(w) \/ WritePacketRest(w) \/ WriteError(w)
    \/ ReadHead \/ ReadFrame \/ ReadError
    \/ CloseListener
    \/ \E e \in Ends : CloseWithError(e) \/ CloseArrives(e) \/ IdleTimeout(e)

Spec == Init /\ [][Next]_vars

\* Writers that are inside Stream.Write and the reader go on; nobody has to
\* call WriteFrame, and connections need not end.  Once one end has, the other is
\* told or times out (quic-go sends keep-alives and has a MaxIdleTimeout).
Fairness ==
    /\ \A w \in Writers :
        WF_vars(WritePacketRest(w) \/ WriteError(w))
    /\ WF_vars(ReadHead \/ ReadFrame \/ ReadError)
    /\ \A e \in Ends :
        WF_vars(Ended(Other(e)) /\ (CloseArrives(e) \/ IdleTimeout(e)))

FairSpec == Spec /\ Fairness

-----------------------------------------------------------------------------
(***************************************************************************)
(* Properties.                                                             *)
(***************************************************************************)

\* What a frame is at the other end: the same, but an absent function definition
\* becomes an empty one.
Delivered(f) ==
    IF f.type = "HandshakeFrame"
      THEN [f EXCEPT !.FunctionDefinition = <<BytesOf(@)>>] ELSE f

\* ReadFrame returns what was passed to WriteFrame, every field of it, in the
\* order of the writes and none twice, although several goroutines write to one
\* stream and a connection may end in the middle of a packet.  The one thing that
\* changes is an absent definition, which arrives as an empty one, so that the
\* test for nil of server.go:235 never fails.
ReadsWhatWasWritten ==
    IsPrefix(received, [i \in DOMAIN sent |-> Delivered(sent[i])])

\* Clients stop for good or dial again by the error class (client.go,
\* handleConn).  Whatever is lost, delayed or closed at both ends at once, an end
\* is told "remote" only if the other one really closed the connection or the
\* listener was closed; so only a closed listener makes each end blame the other.
\* An end that takes the end for a loss was told of no close.
ErrorsAgree ==
    \A w \in Writers :
        /\ readErr = "remote" =>
             ~listening \/ cause["writer"] = Cause(YomoCloseErrorCode, FALSE)
        /\ writeErr[w] = "remote" =>
             ~listening \/ cause["reader"] = Cause(YomoCloseErrorCode, FALSE)
        /\ readErr = "remote" /\ writeErr[w] = "remote" => ~listening
        /\ readErr = "other" => cause["reader"].code = "idle"
        /\ writeErr[w] = "other" => cause["writer"].code = "idle"

\* A reader is never left waiting: every frame written completely is returned
\* or the connection's end is.
ReaderLearns ==
    \A n \in 1 .. MaxWrites :
        Len(sent) = n ~> Len(received) >= n \/ readErr # None
=============================================================================
