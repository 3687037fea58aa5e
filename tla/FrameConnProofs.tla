-------------------------- MODULE FrameConnProofs --------------------------
(***************************************************************************)
(* What the codec and the errors of a connection promise for every frame   *)
(* and any number of writers.                                              *)
(***************************************************************************)
EXTENDS FrameConn, TLAPS

\* Four bytes bring a tag back (PutUint32 and Uint32 of encoding/binary).
LEMMA Uint32OfPut ==
    ASSUME NEW v \in Tag
    PROVE  LET b == PutUint32(v) IN Uint32(b[1], b[2], b[3], b[4]) = v
  <1> DEFINE q1 == v \div 256
             q2 == q1 \div 256
             q3 == q2 \div 256
  <1>1. v \in Nat /\ q1 < 256 * 256 * 256
    BY DEF Tag
  <1>2. \A a \in Nat : /\ a \div 256 \in Nat /\ a % 256 \in 0 .. 255
                       /\ a = (256 * (a \div 256)) + (a % 256)
    OBVIOUS
  <1>3. q1 \in Nat /\ v = (256 * q1) + (v % 256) /\ v % 256 \in Nat
    BY <1>1, <1>2
  <1>4. q2 \in Nat /\ q1 = (256 * q2) + (q1 % 256) /\ q1 % 256 \in Nat
    BY <1>2, <1>3
  <1>5. q3 \in Nat /\ q2 = (256 * q3) + (q2 % 256) /\ q2 % 256 \in Nat
    BY <1>2, <1>4
  <1>6. q3 < 256 /\ q3 % 256 = q3
    <2> HIDE DEF q1, q2, q3
    <2> QED BY <1>1, <1>3, <1>4, <1>5
  <1> HIDE DEF q1, q2, q3
  <1>7. PutUint32(v) = <<v % 256, q1 % 256, q2 % 256, q3 % 256>>
    BY DEF PutUint32, q1, q2, q3
  <1>8. Uint32(v % 256, q1 % 256, q2 % 256, q3) = v
    BY <1>1, <1>3, <1>4, <1>5 DEF Uint32
  <1> QED
    BY <1>6, <1>7, <1>8

\* The observe tags of a handshake survive the codec, whatever their number.
LEMMA TagsRoundTrip ==
    ASSUME NEW tags \in Seq(Tag)
    PROVE  DecodeTags(EncodeTags(tags)) = tags
  <1> DEFINE buf == EncodeTags(tags)
             n == Len(tags)
  <1>1. n \in Nat /\ tags \in [1 .. n -> Tag]
    OBVIOUS
  <1>2. DOMAIN buf = 1 .. 4 * n /\ Len(buf) = 4 * n
    BY <1>1 DEF EncodeTags
  <1>3. Len(buf) \div 4 = n
    <2> HIDE DEF buf, n
    <2>1. (4 * n) \div 4 = n
      BY <1>1
    <2> QED
      BY <1>2, <2>1
  <1>4. ASSUME NEW i \in 1 .. n
        PROVE  Uint32(buf[4 * i - 3], buf[4 * i - 2], buf[4 * i - 1], buf[4 * i])
                 = tags[i]
    <2> DEFINE put == PutUint32(tags[i])
    <2>1. /\ 4 * i - 3 \in 1 .. 4 * n /\ 4 * i - 2 \in 1 .. 4 * n
          /\ 4 * i - 1 \in 1 .. 4 * n /\ 4 * i \in 1 .. 4 * n
      BY <1>1
    <2>2. /\ ((4 * i - 3 - 1) \div 4) + 1 = i /\ ((4 * i - 3 - 1) % 4) + 1 = 1
          /\ ((4 * i - 2 - 1) \div 4) + 1 = i /\ ((4 * i - 2 - 1) % 4) + 1 = 2
          /\ ((4 * i - 1 - 1) \div 4) + 1 = i /\ ((4 * i - 1 - 1) % 4) + 1 = 3
          /\ ((4 * i - 1) \div 4) + 1 = i /\ ((4 * i - 1) % 4) + 1 = 4
      BY <1>1
    <2>3. /\ buf[4 * i - 3] = put[1] /\ buf[4 * i - 2] = put[2]
          /\ buf[4 * i - 1] = put[3] /\ buf[4 * i] = put[4]
      <3> HIDE DEF put
      <3>1. \A k \in 1 .. 4 * n :
                buf[k] = PutUint32(tags[((k - 1) \div 4) + 1])[((k - 1) % 4) + 1]
        BY <1>1 DEF EncodeTags
      <3> QED
        BY <2>1, <2>2, <3>1 DEF put
    <2> QED
      BY <1>1, <2>3, Uint32OfPut DEF put
  <1>5. DecodeTags(buf) = [i \in 1 .. n |-> tags[i]]
    BY <1>3, <1>4 DEF DecodeTags
  <1> QED
    BY <1>1, <1>5

\* A field is the value of the only primitive with its tag.
LEMMA FieldAt ==
    ASSUME NEW p, NEW tag, NEW zero, NEW k \in DOMAIN p.prims,
           p.prims[k].tag = tag,
           \A j \in DOMAIN p.prims : p.prims[j].tag = tag => j = k,
           k \in Nat
    PROVE  Field(p, tag, zero) = p.prims[k].val
  <1> DEFINE at == {i \in DOMAIN p.prims : p.prims[i].tag = tag}
  <1>1. at = {k}
    OBVIOUS
  <1>2. (CHOOSE i \in at : \A j \in at : j <= i) = k
    <2> HIDE DEF at
    <2> QED BY <1>1
  <1> QED
    BY <1>1, <1>2 DEF Field

\* ... of a packet with one primitive.
LEMMA FieldOfOne ==
    ASSUME NEW p, NEW zero, DOMAIN p.prims = {1}
    PROVE  Field(p, p.prims[1].tag, zero) = p.prims[1].val
  <1>1. 1 \in DOMAIN p.prims /\ \A j \in DOMAIN p.prims : j = 1
    OBVIOUS
  <1> QED
    BY <1>1, FieldAt

\* The codec loses nothing: a frame of any of the six types is decoded to
\* itself, every field of it, empty ones included; only an absent definition
\* becomes an empty one (y3codec.Encode and Decode).
THEOREM RoundTrip ==
    ASSUME NEW f \in Frames
    PROVE  Decode(Encode(f)) = Delivered(f)
  <1>1. CASE f \in DataFrame
    <2> DEFINE prims == encodeDataFrame(f)
    <2>1. f = [type |-> "DataFrame", Tag |-> f.Tag, Metadata |-> f.Metadata,
               Payload |-> f.Payload]
      BY <1>1 DEF DataFrame
    <2>2. Encode(f).head = 128 + TypeByte.DataFrame /\ Encode(f).prims = prims
      BY <2>1 DEF Encode, NodePacket
    <2>3. /\ DOMAIN prims = 1 .. 3
          /\ prims[1].tag = 1 /\ prims[2].tag = 3 /\ prims[3].tag = 2
          /\ prims[1].val = f.Tag /\ prims[2].val = f.Metadata
          /\ prims[3].val = f.Payload
      BY DEF encodeDataFrame, Block
    <2> HIDE DEF prims
    <2>4. \A i, j \in 1 .. 3 : prims[i].tag = prims[j].tag => i = j
      BY <2>3
    <2>5. ASSUME NEW k \in 1 .. 3, NEW zero
          PROVE  Field(Encode(f), prims[k].tag, zero) = prims[k].val
      <3>1. DOMAIN prims = 1 .. 3
        BY <2>3
      <3> QED
        BY <2>2, <2>4, <3>1, FieldAt
    <2>6. /\ Field(Encode(f), 1, 0) = f.Tag
          /\ Field(Encode(f), 3, <<>>) = f.Metadata
          /\ Field(Encode(f), 2, <<>>) = f.Payload
      <3> HIDE DEF Field, Encode
      <3>1. Field(Encode(f), prims[1].tag, 0) = f.Tag
        BY <2>3, <2>5
      <3>2. Field(Encode(f), prims[2].tag, <<>>) = f.Metadata
        BY <2>3, <2>5
      <3>3. Field(Encode(f), prims[3].tag, <<>>) = f.Payload
        BY <2>3, <2>5
      <3> QED BY <2>3, <3>1, <3>2, <3>3
    <2>7. Decode(Encode(f)) = decodeDataFrame(Encode(f))
      BY <2>2 DEF Decode, PacketType, TypeByte
    <2> QED
      BY <2>1, <2>6, <2>7 DEF decodeDataFrame, Delivered
  <1>2. CASE f \in HandshakeFrame
    <2> DEFINE prims == encodeHandshakeFrame(f)
    <2>1. /\ f = [type |-> "HandshakeFrame", Name |-> f.Name, ID |-> f.ID,
                  ClientType |-> f.ClientType,
                  ObserveDataTags |-> f.ObserveDataTags,
                  AuthName |-> f.AuthName, AuthPayload |-> f.AuthPayload,
                  Version |-> f.Version,
                  FunctionDefinition |-> f.FunctionDefinition,
                  WantedTarget |-> f.WantedTarget]
          /\ f.ObserveDataTags \in Seq(Tag)
      BY <1>2 DEF HandshakeFrame
    <2> DEFINE def == BytesOf(f.FunctionDefinition)
    <2>d. Delivered(f) =
            [type |-> "HandshakeFrame", Name |-> f.Name, ID |-> f.ID,
             ClientType |-> f.ClientType,
             ObserveDataTags |-> f.ObserveDataTags,
             AuthName |-> f.AuthName, AuthPayload |-> f.AuthPayload,
             Version |-> f.Version, FunctionDefinition |-> <<def>>,
             WantedTarget |-> f.WantedTarget]
      <3> HIDE DEF def
      <3>1. Delivered(f) = [f EXCEPT !.FunctionDefinition = <<def>>]
        BY <2>1 DEF Delivered, def
      <3> QED
        BY <2>1, <3>1
    <2>2. /\ Encode(f).head = 128 + TypeByte.HandshakeFrame
          /\ Encode(f).prims = prims
      BY <2>1 DEF Encode, NodePacket
    <2>3. /\ DOMAIN prims = 1 .. 9
          /\ prims[1].val = f.Name /\ prims[2].val = f.ID
          /\ prims[3].val = <<f.ClientType>>
          /\ prims[4].val = EncodeTags(f.ObserveDataTags)
          /\ prims[5].val = f.AuthName /\ prims[6].val = f.AuthPayload
          /\ prims[7].val = f.Version
          /\ prims[8].val = def
          /\ prims[9].val = f.WantedTarget
      BY DEF encodeHandshakeFrame, Block
    <2>4. /\ prims[1].tag = 1 /\ prims[2].tag = 3 /\ prims[3].tag = 2
          /\ prims[4].tag = 6 /\ prims[5].tag = 4 /\ prims[6].tag = 5
          /\ prims[7].tag = 7 /\ prims[8].tag = 9 /\ prims[9].tag = 8
      BY DEF encodeHandshakeFrame, Block
    <2>5. \A i, j \in 1 .. 9 : prims[i].tag = prims[j].tag => i = j
      <3> HIDE DEF prims
      <3> QED BY <2>4
    <2> HIDE DEF prims, def
    <2>6. ASSUME NEW k \in 1 .. 9, NEW zero
          PROVE  Field(Encode(f), prims[k].tag, zero) = prims[k].val
      BY <2>2, <2>3, <2>5, FieldAt
    <2>7. /\ Field(Encode(f), 1, <<>>) = f.Name
          /\ Field(Encode(f), 3, <<>>) = f.ID
          /\ Field(Encode(f), 2, <<0>>) = <<f.ClientType>>
          /\ Field(Encode(f), 6, <<>>) = EncodeTags(f.ObserveDataTags)
          /\ Field(Encode(f), 4, <<>>) = f.AuthName
          /\ Field(Encode(f), 5, <<>>) = f.AuthPayload
          /\ Field(Encode(f), 7, <<>>) = f.Version
          /\ Field(Encode(f), 9, <<>>) = def
          /\ Field(Encode(f), 8, <<>>) = f.WantedTarget
      <3>1. Field(Encode(f), prims[1].tag, <<>>) = f.Name
        BY <2>3, <2>6
      <3>2. Field(Encode(f), prims[2].tag, <<>>) = f.ID
        BY <2>3, <2>6
      <3>3. Field(Encode(f), prims[3].tag, <<0>>) = <<f.ClientType>>
        BY <2>3, <2>6
      <3>4. Field(Encode(f), prims[4].tag, <<>>) = EncodeTags(f.ObserveDataTags)
        BY <2>3, <2>6
      <3>5. Field(Encode(f), prims[5].tag, <<>>) = f.AuthName
        BY <2>3, <2>6
      <3>6. Field(Encode(f), prims[6].tag, <<>>) = f.AuthPayload
        BY <2>3, <2>6
      <3>7. Field(Encode(f), prims[7].tag, <<>>) = f.Version
        BY <2>3, <2>6
      <3>8. Field(Encode(f), prims[8].tag, <<>>) = def
        BY <2>3, <2>6
      <3>9. Field(Encode(f), prims[9].tag, <<>>) = f.WantedTarget
        BY <2>3, <2>6
      <3> QED
        BY <2>4, <3>1, <3>2, <3>3, <3>4, <3>5, <3>6, <3>7, <3>8, <3>9
    <2>8. Decode(Encode(f)) = decodeHandshakeFrame(Encode(f))
      BY <2>2 DEF Decode, PacketType, TypeByte
    <2>9. DecodeTags(Field(Encode(f), 6, <<>>)) = f.ObserveDataTags
      BY <2>1, <2>7, TagsRoundTrip
    <2>10. Has(Encode(f), 9)
      <3>1. 8 \in DOMAIN prims /\ prims[8].tag = 9
        BY <2>3, <2>4
      <3> QED
        BY <2>2, <3>1 DEF Has
    <2> QED
      BY <2>d, <2>7, <2>8, <2>9, <2>10 DEF decodeHandshakeFrame
  <1>3. CASE f \in HandshakeAckFrame
    <2>1. f = [type |-> "HandshakeAckFrame"]
      BY <1>3 DEF HandshakeAckFrame
    <2>2. Encode(f).head = 128 + TypeByte.HandshakeAckFrame
      BY <2>1 DEF Encode, NodePacket
    <2>3. Decode(Encode(f)) = decodeHandshakeAckFrame(Encode(f))
      BY <2>2 DEF Decode, PacketType, TypeByte
    <2> QED
      BY <2>1, <2>3 DEF decodeHandshakeAckFrame, Delivered
  <1>4. CASE f \in RejectedFrame
    <2> DEFINE prims == encodeRejectedFrame(f)
    <2>1. f = [type |-> "RejectedFrame", Message |-> f.Message]
      BY <1>4 DEF RejectedFrame
    <2>2. Encode(f).head = 128 + TypeByte.RejectedFrame /\ Encode(f).prims = prims
      BY <2>1 DEF Encode, NodePacket
    <2>3. DOMAIN prims = 1 .. 1 /\ prims[1].tag = 1 /\ prims[1].val = f.Message
      BY DEF encodeRejectedFrame, Block
    <2> HIDE DEF prims
    <2>4. Field(Encode(f), 1, <<>>) = f.Message
      <3>1. DOMAIN prims = {1}
        BY <2>3
      <3>2. Field(Encode(f), Encode(f).prims[1].tag, <<>>)
              = Encode(f).prims[1].val
        BY <2>2, <3>1, FieldOfOne
      <3> QED
        BY <2>2, <2>3, <3>2
    <2>5. Decode(Encode(f)) = decodeRejectedFrame(Encode(f))
      BY <2>2 DEF Decode, PacketType, TypeByte
    <2> QED
      BY <2>1, <2>4, <2>5 DEF decodeRejectedFrame, Delivered
  <1>5. CASE f \in GoawayFrame
    <2> DEFINE prims == encodeGoawayFrame(f)
    <2>1. f = [type |-> "GoawayFrame", Message |-> f.Message]
      BY <1>5 DEF GoawayFrame
    <2>2. Encode(f).head = 128 + TypeByte.GoawayFrame /\ Encode(f).prims = prims
      BY <2>1 DEF Encode, NodePacket
    <2>3. DOMAIN prims = 1 .. 1 /\ prims[1].tag = 1 /\ prims[1].val = f.Message
      BY DEF encodeGoawayFrame, Block
    <2> HIDE DEF prims
    <2>4. Field(Encode(f), 1, <<>>) = f.Message
      <3>1. DOMAIN prims = {1}
        BY <2>3
      <3>2. Field(Encode(f), Encode(f).prims[1].tag, <<>>)
              = Encode(f).prims[1].val
        BY <2>2, <3>1, FieldOfOne
      <3> QED
        BY <2>2, <2>3, <3>2
    <2>5. Decode(Encode(f)) = decodeGoawayFrame(Encode(f))
      BY <2>2 DEF Decode, PacketType, TypeByte
    <2> QED
      BY <2>1, <2>4, <2>5 DEF decodeGoawayFrame, Delivered
  <1>6. CASE f \in ConnectToFrame
    <2> DEFINE prims == encodeConnectToFrame(f)
    <2>1. f = [type |-> "ConnectToFrame", Endpoint |-> f.Endpoint]
      BY <1>6 DEF ConnectToFrame
    <2>2. Encode(f).head = 128 + TypeByte.ConnectToFrame /\ Encode(f).prims = prims
      BY <2>1 DEF Encode, NodePacket
    <2>3. DOMAIN prims = 1 .. 1 /\ prims[1].tag = 1 /\ prims[1].val = f.Endpoint
      BY DEF encodeConnectToFrame, Block
    <2> HIDE DEF prims
    <2>4. Field(Encode(f), 1, <<>>) = f.Endpoint
      <3>1. DOMAIN prims = {1}
        BY <2>3
      <3>2. Field(Encode(f), Encode(f).prims[1].tag, <<>>)
              = Encode(f).prims[1].val
        BY <2>2, <3>1, FieldOfOne
      <3> QED
        BY <2>2, <2>3, <3>2
    <2>5. Decode(Encode(f)) = decodeConnectToFrame(Encode(f))
      BY <2>2 DEF Decode, PacketType, TypeByte
    <2> QED
      BY <2>1, <2>4, <2>5 DEF decodeConnectToFrame, Delivered
  <1> QED
    BY <1>1, <1>2, <1>3, <1>4, <1>5, <1>6 DEF Frames

-----------------------------------------------------------------------------

Causes == [code : Codes, remote : BOOLEAN]
Told(code) == Cause(code, TRUE)
Raised(code) == Cause(code, FALSE)

\* What an end takes for the doing of the other one was done: the word of a close
\* travels after the close, and that of the listener after the listener's.
EndInv(e) ==
    /\ notice[e] \in {NoCause, Told(ListenerCode), Told(YomoCloseErrorCode)}
    /\ notice[e] = Told(YomoCloseErrorCode)
          => cause[Other(e)] = Raised(YomoCloseErrorCode)
    /\ notice[e] = Told(ListenerCode)
          => listening = FALSE /\ cause[Other(e)] = Raised(ListenerCode)
    /\ cause[e] \in {NoCause, Raised("idle"), Raised(ListenerCode),
                     Raised(YomoCloseErrorCode), notice[e]}
    /\ cause[e] = Raised(ListenerCode) => listening = FALSE

EndsInv ==
    /\ cause \in [Ends -> Causes]
    /\ notice \in [Ends -> Causes]
    /\ \A e \in Ends : EndInv(e)

\* The errors of both ends are what handleError says of the way they ended, which
\* never changes.
ErrorsInv ==
    /\ readErr # None => Ended("reader") /\ readErr = handleError("reader")
    /\ writeErr \in [Writers -> Errors \union {"unknown"}]
    /\ \A w \in Writers :
        writeErr[w] \notin {None, "unknown"}
            => Ended("writer") /\ writeErr[w] = handleError("writer")

LEMMA CausesDiffer ==
  /\ \A c, d \in Codes : \A r, q \in BOOLEAN :
        Cause(c, r) = Cause(d, q) => c = d /\ r = q
  /\ \A c \in Codes : \A r \in BOOLEAN :
        Cause(c, r) \in Causes /\ Cause(c, r).code = c /\ Cause(c, r).remote = r
BY DEF Cause, Causes

\* The causes there are: none, raised here or told by the other end.
LEMMA CausesApart ==
  /\ NoCause # Raised("idle") /\ NoCause # Raised(ListenerCode)
  /\ NoCause # Raised(YomoCloseErrorCode)
  /\ NoCause # Told(ListenerCode) /\ NoCause # Told(YomoCloseErrorCode)
  /\ Raised("idle").code = "idle"
  /\ Told(ListenerCode).code = ListenerCode
  /\ Told(YomoCloseErrorCode).code = YomoCloseErrorCode
  /\ Raised(ListenerCode).code = ListenerCode
  /\ Raised(YomoCloseErrorCode).code = YomoCloseErrorCode
  /\ Raised(YomoCloseErrorCode).remote = FALSE
BY CausesDiffer DEF Raised, Told, NoCause, Codes, None, ListenerCode,
                    YomoCloseErrorCode

\* Who touches the ends.
LEMMA WhoEnds ==
  ASSUME Next
  PROVE  \/ UNCHANGED endVars
         \/ CloseListener
         \/ \E e \in Ends : CloseWithError(e) \/ CloseArrives(e) \/ IdleTimeout(e)
BY DEF Next, WriteFrame, WritePacket, WritePacketRest, WriteError, ReadHead,
       ReadFrame, ReadError

\* An end that has ended stays as it is.
LEMMA EndsStay ==
  ASSUME EndsInv, Next, NEW e \in Ends, Ended(e)
  PROVE  cause'[e] = cause[e]
<1>1. CASE UNCHANGED endVars
  BY <1>1 DEF endVars
<1>2. CASE CloseListener
  BY <1>2 DEF CloseListener, EndWith, EndsInv, Ends
<1>3. ASSUME NEW x \in Ends,
             CloseWithError(x) \/ CloseArrives(x) \/ IdleTimeout(x)
      PROVE  cause'[e] = cause[e]
  BY <1>3 DEF CloseWithError, EndWith, CloseArrives, IdleTimeout, EndsInv, Ends
<1>. QED
  BY <1>1, <1>2, <1>3, WhoEnds

\* A close ends one end and sends the word to the other.
LEMMA EndWithStep ==
  ASSUME EndsInv, NEW e \in Ends, ~Ended(e),
         NEW code \in {ListenerCode, YomoCloseErrorCode}, EndWith(e, code),
         code = ListenerCode => listening' = FALSE,
         listening = FALSE => listening' = FALSE
  PROVE  EndsInv'
<1>. USE DEF Codes, ListenerCode, YomoCloseErrorCode, None, Told, Raised, NoCause
<1>1. /\ cause' = [cause EXCEPT ![e] = Cause(code, FALSE)]
      /\ notice' = [notice EXCEPT ![Other(e)] = Cause(code, TRUE)]
      /\ cause[e] = NoCause
  BY DEF EndWith, Ended
<1>2. Other(e) \in Ends /\ Other(e) # e /\ Other(Other(e)) = e
      /\ \A x \in Ends : x = e \/ x = Other(e)
  BY DEF Other, Ends
<1>3. /\ cause'[e] = Cause(code, FALSE) /\ cause'[Other(e)] = cause[Other(e)]
      /\ notice'[Other(e)] = Cause(code, TRUE) /\ notice'[e] = notice[e]
  BY <1>1, <1>2 DEF EndsInv
<1>4. cause' \in [Ends -> Causes] /\ notice' \in [Ends -> Causes]
  BY <1>1, <1>2, CausesDiffer DEF EndsInv, EndInv
<1>5. notice[Other(e)] = NoCause
  <2>1. EndInv(Other(e))
    BY <1>2 DEF EndsInv
  <2>. HIDE DEF Told, Raised, NoCause, ListenerCode, YomoCloseErrorCode
  <2>. QED
    BY <1>1, <1>2, <2>1, CausesApart DEF EndInv
<1>6. ASSUME NEW x \in Ends
      PROVE  EndInv(x)'
  <2>1. CASE x = e
    BY <1>1, <1>2, <1>3, <2>1, CausesDiffer DEF EndsInv, EndInv
  <2>2. CASE x = Other(e)
    BY <1>1, <1>2, <1>3, <1>5, <2>2, CausesDiffer DEF EndsInv, EndInv
  <2>. QED
    BY <1>2, <2>1, <2>2
<1>. QED
  BY <1>4, <1>6 DEF EndsInv

LEMMA EndsInvInit == Init => EndsInv
<1>. SUFFICES ASSUME Init PROVE EndsInv
  OBVIOUS
<1>1. NoCause \in Causes /\ NoCause # Told(YomoCloseErrorCode)
      /\ NoCause # Told(ListenerCode) /\ NoCause # Raised(ListenerCode)
  BY CausesDiffer DEF NoCause, Told, Raised, Codes, None, ListenerCode,
                      YomoCloseErrorCode
<1>. QED
  BY <1>1 DEF Init, EndsInv, EndInv

LEMMA EndsInvStep ==
  ASSUME EndsInv, [Next]_vars
  PROVE  EndsInv'
<1>. USE DEF Codes, ListenerCode, YomoCloseErrorCode, None, Told, Raised, NoCause
<1>1. CASE UNCHANGED endVars
  BY <1>1 DEF endVars, EndsInv, EndInv
<1>2. CASE CloseListener
  <2>1. listening' = FALSE
    BY <1>2 DEF CloseListener
  <2>2. CASE Ended("writer")
    <3>1. cause' = cause /\ notice' = notice
      BY <1>2, <2>2 DEF CloseListener
    <3>2. ASSUME NEW x \in Ends PROVE EndInv(x)'
      <4>1. EndInv(x)
        BY DEF EndsInv
      <4>. QED
        BY <2>1, <3>1, <4>1 DEF EndInv
    <3>. QED
      BY <3>1, <3>2 DEF EndsInv
  <2>3. CASE ~Ended("writer")
    BY <1>2, <2>1, <2>3, EndWithStep DEF CloseListener, Ends
  <2>. QED
    BY <2>2, <2>3
<1>3. ASSUME NEW e \in Ends, CloseWithError(e)
      PROVE  EndsInv'
  BY <1>3, EndWithStep DEF CloseWithError
<1>4. ASSUME NEW e \in Ends, NEW c \in Causes, ~Ended(e),
             c = Raised("idle") \/ c = notice[e],
             cause' = [cause EXCEPT ![e] = c], UNCHANGED <<notice, listening>>
      PROVE  EndsInv'
  <2>1. cause' \in [Ends -> Causes]
    BY <1>4 DEF EndsInv
  <2>2. /\ cause'[e] = c /\ cause[e] = NoCause
        /\ \A x \in Ends : x # e => cause'[x] = cause[x]
    BY <1>4 DEF EndsInv, Ended
  <2>3. ASSUME NEW x \in Ends
        PROVE  EndInv(x)'
    <3>1. cause[Other(x)] = cause'[Other(x)] \/ cause[Other(x)] = NoCause
      BY <2>2 DEF Other, Ends
    <3>2. cause'[x] = cause[x] \/ cause'[x] = Raised("idle") \/ cause'[x] = notice[x]
      BY <1>4, <2>2
    <3>. QED
      BY <1>4, <3>1, <3>2, CausesDiffer DEF EndsInv, EndInv
  <2>. QED
    BY <1>4, <2>1, <2>3 DEF EndsInv
<1>5. ASSUME NEW e \in Ends, CloseArrives(e) \/ IdleTimeout(e)
      PROVE  EndsInv'
  <2>1. Cause("idle", FALSE) \in Causes /\ notice[e] \in Causes
    BY CausesDiffer DEF EndsInv
  <2>. QED
    BY <1>4, <1>5, <2>1 DEF CloseArrives, IdleTimeout
<1>6. CASE UNCHANGED vars
  BY <1>1, <1>6 DEF vars
<1>. QED
  BY <1>1, <1>2, <1>3, <1>5, <1>6, WhoEnds

\* What an end was told stays true of it.
LEMMA ErrorsInvStep ==
  ASSUME EndsInv, ErrorsInv, [Next]_vars
  PROVE  ErrorsInv'
<1>1. ASSUME NEW e \in Ends, Ended(e)
      PROVE  Ended(e)' /\ handleError(e)' = handleError(e)
  <2>1. cause'[e] = cause[e]
    BY <1>1, EndsStay DEF vars, endVars
  <2>. QED
    BY <1>1, <2>1 DEF Ended, handleError
<1>2. /\ Ended("reader") => Ended("reader")' /\ handleError("reader")' = handleError("reader")
      /\ Ended("writer") => Ended("writer")' /\ handleError("writer")' = handleError("writer")
  BY <1>1 DEF Ends
<1>3. CASE UNCHANGED <<readErr, writeErr>>
  BY <1>2, <1>3 DEF ErrorsInv
<1>4. ASSUME NEW w \in Writers, NEW f \in Outgoing, WriteFrame(w, f)
      PROVE  ErrorsInv'
  BY <1>2, <1>4 DEF WriteFrame, ErrorsInv, None, Errors
<1>5. ASSUME NEW w \in Writers, WriteError(w)
      PROVE  ErrorsInv'
  <2>1. handleError("writer") \in Errors
    BY DEF handleError, Errors
  <2>. QED
    BY <1>2, <1>5, <2>1 DEF WriteError, ErrorsInv
<1>6. CASE ReadError
  BY <1>2, <1>6 DEF ReadError, ErrorsInv
<1>. QED
  BY <1>3, <1>4, <1>5, <1>6
     DEF Next, WritePacket, WritePacketRest, ReadHead, ReadFrame, CloseListener,
         CloseWithError, EndWith, CloseArrives, IdleTimeout, vars

\* For any number of writers and whichever ends close, at once or in turn, an end
\* blames the other only for a close that happened, and takes an end for a loss
\* only if it was told of none (CloseWithError and handleError of
\* pkg/listener/quic).
THEOREM ErrorsAlwaysAgree == Spec => []ErrorsAgree
<1>1. Init => ErrorsInv
  BY DEF Init, ErrorsInv, Errors
<1>2. EndsInv /\ ErrorsInv => ErrorsAgree
  <2>. SUFFICES ASSUME EndsInv, ErrorsInv PROVE ErrorsAgree
    OBVIOUS
  <2>. USE DEF Codes, ListenerCode, YomoCloseErrorCode, None, Told, Raised, NoCause
  <2>1. ASSUME NEW e \in Ends, Ended(e), handleError(e) = "remote"
        PROVE  ~listening \/ cause[Other(e)] = Raised(YomoCloseErrorCode)
    BY <2>1, CausesDiffer DEF EndsInv, EndInv, handleError, Ended
  <2>2. ASSUME NEW e \in Ends, Ended(e), handleError(e) = "other"
        PROVE  cause[e].code = "idle"
    <3>1. EndInv(e)
      BY <2>2 DEF EndsInv
    <3>2. cause[e].code # ListenerCode /\ cause[e].code # YomoCloseErrorCode
      BY <2>2 DEF handleError
    <3>. HIDE DEF Told, Raised, NoCause, ListenerCode, YomoCloseErrorCode
    <3>. QED
      BY <2>2, <3>1, <3>2, CausesApart DEF EndInv, Ended
  <2>3. ASSUME NEW e \in Ends, cause[e] = Raised(YomoCloseErrorCode)
        PROVE  handleError(e) = "local"
    BY <2>3, CausesDiffer DEF handleError
  <2>4. \A w \in Writers :
        /\ readErr \in {"remote", "other"}
             => Ended("reader") /\ readErr = handleError("reader")
        /\ writeErr[w] \in {"remote", "other"}
             => Ended("writer") /\ writeErr[w] = handleError("writer")
    BY DEF ErrorsInv
  <2>5. /\ "reader" \in Ends /\ "writer" \in Ends
        /\ Other("reader") = "writer" /\ Other("writer") = "reader"
    BY DEF Ends, Other
  <2>6. \A w \in Writers :
        /\ readErr = "remote" =>
             ~listening \/ cause["writer"] = Raised(YomoCloseErrorCode)
        /\ writeErr[w] = "remote" =>
             ~listening \/ cause["reader"] = Raised(YomoCloseErrorCode)
    BY <2>1, <2>4, <2>5
  <2>7. \A w \in Writers :
        /\ readErr = "other" => cause["reader"].code = "idle"
        /\ writeErr[w] = "other" => cause["writer"].code = "idle"
    BY <2>2, <2>4, <2>5
  <2>8. \A w \in Writers :
          readErr = "remote" /\ writeErr[w] = "remote" => ~listening
    BY <2>3, <2>4, <2>5, <2>6
  <2>. QED
    BY <2>6, <2>7, <2>8 DEF ErrorsAgree
<1>. QED
  BY <1>1, <1>2, EndsInvInit, EndsInvStep, ErrorsInvStep, PTL DEF Spec

-----------------------------------------------------------------------------
(***************************************************************************)
(* What is on the stream.  The head read so far and the parts behind it    *)
(* are exactly the packets of the frames sent and not received, two parts  *)
(* each, but for the last part of the last packet while a writer is inside *)
(* Stream.Write, or for good if the connection ended there.                *)
(***************************************************************************)

\* Received so far is a prefix of sent, as it is delivered.
PrefixInv ==
    /\ sent \in Seq(Frames)
    /\ received \in Seq(Frames)
    /\ Len(received) <= Len(sent)
    /\ \A i \in 1 .. Len(received) : received[i] = Delivered(sent[i])

\* Who writes has a frame, and only the owner of the lock is half way.
WritersInv ==
    /\ writer \in [Writers -> {"idle", "encoded", "half"}]
    /\ frame \in [Writers -> Frames \union {NoFrame}]
    /\ \A w \in Writers : writer[w] # "idle" => frame[w] \in Frames
    /\ lock \in Writers \union {None}
    /\ \A w \in Writers : writer[w] = "half" <=> lock = w

\* The parts of the packets not received that are not on the stream.
Missing == 2 * (Len(sent) - Len(received)) - (Len(head) + Len(stream))

\* The i-th packet that is not received is made of the parts 2i - 1 and 2i,
\* counted from the head the reader holds.
StreamInv ==
    /\ head \in Seq(Range(head)) /\ Len(head) \in {0, 1}
    /\ stream \in Seq(Range(stream))
    /\ Missing \in {0, 1}
    /\ ~Ended("writer") => Missing = IF lock = None THEN 0 ELSE 1
    /\ head # <<>> => head[1].pkt = Encode(sent[Len(received) + 1])
    /\ \A j \in 1 .. Len(stream) : \A i \in 1 .. Len(sent) - Len(received) :
         j + Len(head) \in {2 * i - 1, 2 * i}
            => stream[j].pkt = Encode(sent[Len(received) + i])
    /\ ~Ended("writer") /\ lock # None => frame[lock] = sent[Len(sent)]

ConnInv == PrefixInv /\ WritersInv /\ StreamInv

LEMMA SeqOverRange ==
    \A A : \A z \in Seq(A) : z \in Seq(Range(z))
  <1> SUFFICES ASSUME NEW A, NEW z \in Seq(A)
               PROVE  z \in Seq(Range(z))
    OBVIOUS
  <1> DEFINE R == Range(z)
  <1>1. \A i \in 1 .. Len(z) : z[i] \in R
    BY DEF Range
  <1> HIDE DEF R
  <1>2. z = [i \in 1 .. Len(z) |-> z[i]]
    OBVIOUS
  <1>3. Len(z) \in Nat
    OBVIOUS
  <1>4. [i \in 1 .. Len(z) |-> z[i]] \in Seq(R)
    BY <1>1, <1>3
  <1>5. z \in Seq(R)
    BY <1>2, <1>4
  <1> QED
    BY <1>5 DEF R

\* A part at the end of the stream, or one off its front, leaves a sequence.
LEMMA StreamSeq ==
    ASSUME stream \in Seq(Range(stream))
    PROVE  /\ \A x : Append(stream, x) \in Seq(Range(Append(stream, x)))
           /\ stream # <<>> => Tail(stream) \in Seq(Range(Tail(stream)))
  <1>1. ASSUME NEW x
        PROVE  Append(stream, x) \in Seq(Range(Append(stream, x)))
    <2> DEFINE S == Range(stream) \union {x}
    <2>1. stream \in Seq(S) /\ x \in S
      <3>1. Range(stream) \subseteq S
        OBVIOUS
      <3> HIDE DEF S
      <3> QED BY <3>1 DEF S
    <2> HIDE DEF S
    <2>2. Append(stream, x) \in Seq(S)
      BY <2>1
    <2> QED
      BY <2>2, SeqOverRange
  <1>2. ASSUME stream # <<>>
        PROVE  Tail(stream) \in Seq(Range(Tail(stream)))
    <2>1. Tail(stream) \in Seq(Range(stream))
      BY <1>2
    <2> QED
      BY <2>1, SeqOverRange
  <1> QED
    BY <1>1, <1>2

\* The packet of a frame has the head and the primitives that make it up, so
\* that a head and a body of the same packet are decoded to its frame.
LEMMA PartsOfPacket ==
    ASSUME NEW f \in Frames, NEW h, NEW b, h.pkt = Encode(f), b.pkt = Encode(f)
    PROVE  Decode([head |-> h.pkt.head, prims |-> b.pkt.prims]) = Delivered(f)
  <1>1. [head |-> Encode(f).head, prims |-> Encode(f).prims] = Encode(f)
    BY DEF Encode, NodePacket
  <1>2. [head |-> h.pkt.head, prims |-> b.pkt.prims] = Encode(f)
    BY <1>1
  <1> QED
    BY <1>2, RoundTrip

\* What is delivered is a frame.
LEMMA DeliveredType ==
    ASSUME NEW f \in Frames
    PROVE  Delivered(f) \in Frames
  <1>1. CASE f \in HandshakeFrame
    <2> DEFINE def == BytesOf(f.FunctionDefinition)
    <2>1. f.FunctionDefinition \in Definition /\ f.type = "HandshakeFrame"
      BY <1>1 DEF HandshakeFrame
    <2>2. def \in Bytes
      BY <2>1 DEF BytesOf, Definition, Bytes
    <2> HIDE DEF def
    <2>3. <<def>> \in Definition
      BY <2>2 DEF Definition
    <2>4. Delivered(f) = [f EXCEPT !.FunctionDefinition = <<def>>]
      BY <2>1 DEF Delivered, def
    <2>5. Delivered(f) \in HandshakeFrame
      BY <1>1, <2>3, <2>4 DEF HandshakeFrame
    <2> QED
      BY <2>5 DEF Frames
  <1>2. CASE f \notin HandshakeFrame
    <2>1. f.type # "HandshakeFrame"
      BY <1>2 DEF Frames, DataFrame, HandshakeAckFrame, RejectedFrame,
                  GoawayFrame, ConnectToFrame
    <2> QED
      BY <2>1 DEF Delivered
  <1> QED
    BY <1>1, <1>2

LEMMA ConnInvInit == Init => ConnInv
  <1> SUFFICES ASSUME Init PROVE ConnInv
    OBVIOUS
  <1> USE FrameConnAssumption DEF Init, None
  <1>1. PrefixInv
    BY DEF PrefixInv
  <1>2. WritersInv
    BY DEF WritersInv
  <1>3. StreamInv
    <2>1. Len(sent) = 0 /\ Len(received) = 0 /\ Len(head) = 0 /\ Len(stream) = 0
      OBVIOUS
    <2>2. Missing = 0
      <3> HIDE DEF Init
      <3>1. Missing = 2 * (0 - 0) - (0 + 0)
        BY <2>1 DEF Missing
      <3> QED
        BY <3>1
    <2>3. <<>> \in Seq(Range(<<>>))
      OBVIOUS
    <2> QED
      BY <2>1, <2>2, <2>3 DEF StreamInv
  <1> QED
    BY <1>1, <1>2, <1>3 DEF ConnInv

\* WriteFrame: what gets encoded is a frame.
LEMMA WritersStep ==
    ASSUME WritersInv, Next
    PROVE  WritersInv'
  <1> USE FrameConnAssumption DEF WritersInv, None
  <1>1. ASSUME NEW w \in Writers, NEW f \in Outgoing, WriteFrame(w, f)
        PROVE  WritersInv'
    BY <1>1, OutgoingAssumption DEF WriteFrame, Encodable
  <1>2. ASSUME NEW w \in Writers, WritePacket(w)
        PROVE  WritersInv'
    BY <1>2 DEF WritePacket
  <1>3. ASSUME NEW w \in Writers, WritePacketRest(w)
        PROVE  WritersInv'
    BY <1>3 DEF WritePacketRest
  <1>4. ASSUME NEW w \in Writers, WriteError(w)
        PROVE  WritersInv'
    BY <1>4 DEF WriteError
  <1>5. CASE UNCHANGED <<writer, frame, lock>>
    BY <1>5
  <1> QED
    BY <1>1, <1>2, <1>3, <1>4, <1>5
       DEF Next, ReadHead, ReadFrame, ReadError, CloseListener, CloseWithError,
           EndWith, CloseArrives, IdleTimeout

\* A step neither loses nor mixes up parts, whichever ends have ended.
LEMMA StreamStep ==
    ASSUME EndsInv, ConnInv, Next
    PROVE  PrefixInv' /\ StreamInv'
  <1> USE FrameConnAssumption DEF None
  <1>0. Ended("writer") => Ended("writer")'
    BY EndsStay DEF Ended, Ends
  <1>1. PrefixInv /\ WritersInv /\ StreamInv
    BY DEF ConnInv
  <1>2. ASSUME NEW w \in Writers, WritePacket(w)
        PROVE  PrefixInv' /\ StreamInv'
    <2> DEFINE f == frame[w]
               p == Part(w, "head")
    <2>1. /\ f \in Frames /\ p.pkt = Encode(f)
          /\ sent' = Append(sent, f) /\ stream' = Append(stream, p)
          /\ received' = received /\ head' = head /\ lock = None /\ lock' = w
          /\ frame' = frame /\ ~Ended("writer")
      BY <1>1, <1>2 DEF WritePacket, WritersInv, Part
    <2> HIDE DEF f, p
    <2>2. PrefixInv'
      BY <1>1, <2>1 DEF PrefixInv
    <2>3. /\ Len(sent') = Len(sent) + 1 /\ sent'[Len(sent) + 1] = f
          /\ \A i \in 1 .. Len(sent) : sent'[i] = sent[i]
          /\ Len(stream') = Len(stream) + 1 /\ stream'[Len(stream) + 1] = p
          /\ \A i \in 1 .. Len(stream) : stream'[i] = stream[i]
          /\ Len(sent) \in Nat /\ Len(stream) \in Nat /\ Len(received) \in Nat
          /\ Len(received) <= Len(sent)
          /\ Len(head) \in {0, 1}
      BY <1>1, <2>1 DEF PrefixInv, StreamInv
    <2>4. stream' \in Seq(Range(stream'))
      BY <1>1, <2>1, StreamSeq DEF StreamInv
    <2>5. 2 * (Len(sent) - Len(received)) = Len(head) + Len(stream)
      BY <1>1, <2>1, <2>3 DEF StreamInv, Missing
    <2>6. head # <<>> => head[1].pkt = Encode(sent'[Len(received) + 1])
      <3> SUFFICES ASSUME head # <<>>
                   PROVE  head[1].pkt = Encode(sent'[Len(received) + 1])
        OBVIOUS
      <3>1. Len(head) = 1
        BY <1>1, <2>3 DEF StreamInv
      <3>2. Len(received) + 1 \in 1 .. Len(sent)
        BY <2>3, <2>5, <3>1
      <3> QED
        BY <1>1, <2>3, <3>2 DEF StreamInv
    <2>7. ASSUME NEW j \in 1 .. Len(stream'),
                 NEW i \in 1 .. Len(sent') - Len(received),
                 j + Len(head) \in {2 * i - 1, 2 * i}
          PROVE  stream'[j].pkt = Encode(sent'[Len(received) + i])
      <3>1. CASE j \in 1 .. Len(stream)
        <4>1. i \in 1 .. Len(sent) - Len(received)
          BY <2>3, <2>5, <2>7, <3>1
        <4>2. /\ stream'[j] = stream[j]
              /\ sent'[Len(received) + i] = sent[Len(received) + i]
          BY <2>3, <3>1, <4>1
        <4> QED
          BY <1>1, <2>7, <3>1, <4>1, <4>2 DEF StreamInv
      <3>2. CASE j = Len(stream) + 1
        <4>1. 2 * (Len(sent) - Len(received)) + 1 \in {2 * i - 1, 2 * i}
          <5>1. (Len(stream) + 1) + Len(head) \in {2 * i - 1, 2 * i}
            BY <2>7, <3>2
          <5>2. (Len(stream) + 1) + Len(head) = 2 * (Len(sent) - Len(received)) + 1
            <6>1. \A x, h, t \in Int : x = h + t => (t + 1) + h = x + 1
              OBVIOUS
            <6>2. /\ 2 * (Len(sent) - Len(received)) \in Int
                  /\ Len(head) \in Int /\ Len(stream) \in Int
              BY <2>3
            <6> QED BY ONLY <2>5, <6>1, <6>2
          <5> QED BY <5>1, <5>2
        <4>2. Len(received) + i = Len(sent) + 1
          <5>1. \A s, r, k \in Int :
                    2 * (s - r) + 1 \in {2 * k - 1, 2 * k} => r + k = s + 1
            OBVIOUS
          <5> QED BY <2>3, <4>1, <5>1
        <4> QED
          BY <2>1, <2>3, <3>2, <4>2
      <3> QED
        BY <2>3, <3>1, <3>2
    <2>8. frame'[w] = sent'[Len(sent')]
      BY <2>1, <2>3 DEF f
    <2>9. Missing' = 1
      BY <2>1, <2>3, <2>5 DEF Missing
    <2>10. w # None /\ (head' \in Seq(Range(head')))
      BY <1>1, <2>1 DEF StreamInv
    <2>11. StreamInv'
      BY <2>1, <2>3, <2>4, <2>6, <2>7, <2>8, <2>9, <2>10 DEF StreamInv
    <2> QED
      BY <2>2, <2>11
  <1>3. ASSUME NEW w \in Writers, WritePacketRest(w)
        PROVE  PrefixInv' /\ StreamInv'
    <2> DEFINE p == Part(w, "body")
    <2>1. /\ lock = w /\ lock' = None /\ p.pkt = Encode(sent[Len(sent)])
          /\ stream' = Append(stream, p)
          /\ sent' = sent /\ received' = received /\ head' = head
          /\ ~Ended("writer")
      BY <1>1, <1>3 DEF WritePacketRest, WritersInv, Part, StreamInv
    <2> HIDE DEF p
    <2>2. PrefixInv'
      BY <1>1, <2>1 DEF PrefixInv
    <2>3. /\ Len(stream') = Len(stream) + 1 /\ stream'[Len(stream) + 1] = p
          /\ \A i \in 1 .. Len(stream) : stream'[i] = stream[i]
          /\ Len(sent) \in Nat /\ Len(stream) \in Nat /\ Len(received) \in Nat
          /\ Len(head) \in {0, 1}
      BY <1>1, <2>1 DEF PrefixInv, StreamInv
    <2>4. stream' \in Seq(Range(stream'))
      BY <1>1, <2>1, StreamSeq DEF StreamInv
    <2>5. /\ 2 * (Len(sent) - Len(received)) = Len(head) + Len(stream) + 1
          /\ Missing' = 0
      BY <1>1, <2>1, <2>3 DEF StreamInv, Missing
    <2>6. ASSUME NEW j \in 1 .. Len(stream'),
                 NEW i \in 1 .. Len(sent) - Len(received),
                 j + Len(head) \in {2 * i - 1, 2 * i}
          PROVE  stream'[j].pkt = Encode(sent[Len(received) + i])
      <3>1. CASE j \in 1 .. Len(stream)
        BY <1>1, <2>3, <2>6, <3>1 DEF StreamInv
      <3>2. CASE j = Len(stream) + 1
        <4>1. Len(received) + i = Len(sent)
          BY <2>3, <2>5, <2>6, <3>2
        <4> QED
          BY <2>1, <2>3, <3>2, <4>1
      <3> QED
        BY <2>3, <3>1, <3>2
    <2>7. StreamInv'
      BY <1>1, <2>1, <2>3, <2>4, <2>5, <2>6 DEF StreamInv
    <2> QED
      BY <2>2, <2>7
  <1>4. ASSUME ReadHead
        PROVE  PrefixInv' /\ StreamInv'
    <2>1. /\ head = <<>> /\ head' = <<stream[1]>> /\ stream # <<>>
          /\ stream' = Tail(stream)
          /\ UNCHANGED <<sent, received, lock, frame, cause>>
      BY <1>1, <1>4 DEF ReadHead, StreamInv, endVars
    <2>2. PrefixInv'
      BY <1>1, <2>1 DEF PrefixInv
    <2>3. /\ Len(stream) \in Nat \ {0} /\ Len(stream') = Len(stream) - 1
          /\ \A j \in 1 .. Len(stream') : stream'[j] = stream[j + 1]
          /\ Len(sent) \in Nat /\ Len(received) \in Nat
          /\ Len(head) = 0 /\ Len(head') = 1
      BY <1>1, <2>1 DEF PrefixInv, StreamInv
    <2>4. stream' \in Seq(Range(stream')) /\ head' \in Seq(Range(head'))
      <3>1. head' \in Seq({stream[1]})
        BY <2>1
      <3> QED
        BY <1>1, <2>1, <3>1, StreamSeq, SeqOverRange DEF StreamInv
    <2>5. /\ Missing' = Missing /\ Ended("writer")' = Ended("writer")
          /\ 2 * (Len(sent) - Len(received))
               \in {Len(head') + Len(stream'), Len(head') + Len(stream') + 1}
      <3>1. Missing' = Missing /\ Ended("writer")' = Ended("writer")
        BY <2>1, <2>3 DEF Missing, Ended
      <3>2. Missing' \in {0, 1}
        BY <1>1, <3>1 DEF StreamInv
      <3>3. Missing' = 2 * (Len(sent) - Len(received)) - (Len(head') + Len(stream'))
        BY <2>1 DEF Missing
      <3> QED
        BY <2>3, <3>1, <3>2, <3>3
    <2>6. head'[1].pkt = Encode(sent[Len(received) + 1])
      <3>1. /\ 1 \in 1 .. Len(stream) /\ 1 \in 1 .. Len(sent) - Len(received)
            /\ 1 + Len(head) \in {2 * 1 - 1, 2 * 1}
        BY <2>3, <2>5
      <3>2. stream[1].pkt = Encode(sent[Len(received) + 1])
        BY <1>1, <3>1 DEF StreamInv
      <3> QED
        BY <2>1, <3>2
    <2>7. ASSUME NEW j \in 1 .. Len(stream'),
                 NEW i \in 1 .. Len(sent) - Len(received),
                 j + Len(head') \in {2 * i - 1, 2 * i}
          PROVE  stream'[j].pkt = Encode(sent[Len(received) + i])
      <3>1. j + 1 \in 1 .. Len(stream) /\ (j + 1) + Len(head) \in {2 * i - 1, 2 * i}
        BY <2>3, <2>7
      <3>2. stream[j + 1].pkt = Encode(sent[Len(received) + i])
        BY <1>1, <3>1 DEF StreamInv
      <3> QED
        BY <2>3, <3>2
    <2>8. StreamInv'
      <3>1. /\ Missing' \in {0, 1}
            /\ ~Ended("writer")' => Missing' = IF lock' = None THEN 0 ELSE 1
            /\ ~Ended("writer")' /\ lock' # None
                  => frame'[lock'] = sent'[Len(sent')]
        BY <1>1, <2>1, <2>5 DEF StreamInv
      <3> HIDE DEF Missing
      <3> QED
        BY <2>1, <2>3, <2>4, <2>6, <2>7, <3>1 DEF StreamInv
    <2> QED
      BY <2>2, <2>8
  <1>5. ASSUME ReadFrame
        PROVE  PrefixInv' /\ StreamInv'
    <2> DEFINE f == Decode([head |-> head[1].pkt.head,
                            prims |-> stream[1].pkt.prims])
               n == Len(received)
    <2>1. /\ head # <<>> /\ head' = <<>> /\ stream # <<>>
          /\ stream' = Tail(stream) /\ received' = Append(received, f)
          /\ UNCHANGED <<sent, lock, frame, cause>>
      BY <1>1, <1>5 DEF ReadFrame, StreamInv, endVars
    <2>2. /\ Len(stream) \in Nat \ {0} /\ Len(stream') = Len(stream) - 1
          /\ \A j \in 1 .. Len(stream') : stream'[j] = stream[j + 1]
          /\ Len(sent) \in Nat /\ n \in Nat
          /\ Len(head) = 1 /\ Len(head') = 0
      BY <1>1, <2>1 DEF PrefixInv, StreamInv
    <2>3. 2 * (Len(sent) - n)
            \in {Len(head) + Len(stream), Len(head) + Len(stream) + 1}
      <3>1. Missing \in {0, 1}
        BY <1>1 DEF StreamInv
      <3> QED
        BY <2>2, <3>1 DEF Missing
    <2>4. n + 1 \in 1 .. Len(sent) /\ sent[n + 1] \in Frames
      <3>1. n + 1 \in 1 .. Len(sent)
        BY <2>2, <2>3
      <3> QED
        BY <1>1, <3>1 DEF PrefixInv
    <2>5. f = Delivered(sent[n + 1]) /\ f \in Frames
      <3>1. head[1].pkt = Encode(sent[n + 1])
        BY <1>1, <2>1 DEF StreamInv
      <3>2. /\ 1 \in 1 .. Len(stream) /\ 1 \in 1 .. Len(sent) - n
            /\ 1 + Len(head) \in {2 * 1 - 1, 2 * 1}
        BY <2>2, <2>4
      <3>3. stream[1].pkt = Encode(sent[n + 1])
        BY <1>1, <3>2 DEF StreamInv
      <3> QED
        BY <2>4, <3>1, <3>3, PartsOfPacket, DeliveredType
    <2> HIDE DEF f
    <2>6. /\ Len(received') = n + 1 /\ received'[n + 1] = f
          /\ received' \in Seq(Frames)
          /\ \A i \in 1 .. n : received'[i] = received[i]
      BY <1>1, <2>1, <2>4, <2>5 DEF PrefixInv
    <2> HIDE DEF n
    <2>7. PrefixInv'
      <3>1. \A i \in 1 .. n : received[i] = Delivered(sent[i])
        BY <1>1 DEF PrefixInv, n
      <3>2. \A i \in 1 .. n + 1 : received'[i] = Delivered(sent[i])
        BY <2>2, <2>5, <2>6, <3>1
      <3> QED
        BY <1>1, <2>1, <2>4, <2>6, <3>2 DEF PrefixInv
    <2>8. stream' \in Seq(Range(stream')) /\ head' \in Seq(Range(head'))
      <3>1. head' \in Seq({})
        BY <2>1
      <3> QED
        BY <1>1, <2>1, <3>1, StreamSeq, SeqOverRange DEF StreamInv
    <2>9. ASSUME NEW j \in 1 .. Len(stream'),
                 NEW i \in 1 .. Len(sent) - (n + 1),
                 j + Len(head') \in {2 * i - 1, 2 * i}
          PROVE  stream'[j].pkt = Encode(sent[(n + 1) + i])
      <3>1. /\ j + 1 \in 1 .. Len(stream)
            /\ i + 1 \in 1 .. Len(sent) - n
            /\ (j + 1) + Len(head) \in {2 * (i + 1) - 1, 2 * (i + 1)}
            /\ n + (i + 1) = (n + 1) + i
        BY <2>2, <2>9
      <3>2. stream[j + 1].pkt = Encode(sent[n + (i + 1)])
        BY <1>1, <3>1 DEF StreamInv, n
      <3> QED
        BY <2>2, <3>1, <3>2
    <2>10. Missing' = Missing /\ Ended("writer")' = Ended("writer")
      BY <2>1, <2>2, <2>6 DEF Missing, Ended, n
    <2>11. StreamInv'
      BY <1>1, <2>1, <2>2, <2>6, <2>8, <2>9, <2>10 DEF StreamInv
    <2> QED
      BY <2>7, <2>11
  <1>6. ASSUME UNCHANGED <<stream, head, sent, received>>,
               Ended("writer")' \/ (lock' = lock
                   /\ (lock # None => frame'[lock] = frame[lock]))
        PROVE  PrefixInv' /\ StreamInv'
    <2>1. Missing' = Missing
      BY <1>6 DEF Missing
    <2> QED
      BY <1>0, <1>1, <1>6, <2>1 DEF PrefixInv, StreamInv
  <1>7. ASSUME NEW w \in Writers, NEW f \in Outgoing, WriteFrame(w, f)
        PROVE  PrefixInv' /\ StreamInv'
    BY <1>1, <1>6, <1>7 DEF WriteFrame, WritersInv
  <1>8. CASE \/ ReadError \/ CloseListener
             \/ \E e \in Ends : CloseWithError(e) \/ CloseArrives(e) \/ IdleTimeout(e)
    BY <1>6, <1>8 DEF ReadError, CloseListener, CloseWithError, EndWith,
                      CloseArrives, IdleTimeout
  <1>9. ASSUME NEW w \in Writers, WriteError(w)
        PROVE  PrefixInv' /\ StreamInv'
    BY <1>0, <1>6, <1>9 DEF WriteError
  <1> QED
    BY <1>2, <1>3, <1>4, <1>5, <1>7, <1>8, <1>9 DEF Next

\* For any number of writers, any frames they write and wherever the connection
\* ends, ReadFrame returns the frames passed to WriteFrame, whole and in the
\* order their writes took the stream (FrameConn of pkg/listener/quic with the
\* y3 codec).
THEOREM ReadsInOrder == Spec => []ReadsWhatWasWritten
  <1>1. EndsInv /\ ConnInv /\ [Next]_vars => ConnInv'
    <2>1. ASSUME EndsInv, ConnInv, Next PROVE ConnInv'
      BY <2>1, WritersStep, StreamStep DEF ConnInv
    <2>2. ASSUME ConnInv, UNCHANGED vars PROVE ConnInv'
      BY <2>2 DEF vars, endVars, ConnInv, PrefixInv, WritersInv, StreamInv,
                  Missing, Ended
    <2> QED
      BY <2>1, <2>2
  <1>2. ConnInv => ReadsWhatWasWritten
    <2> SUFFICES ASSUME PrefixInv PROVE ReadsWhatWasWritten
      BY DEF ConnInv
    <2> DEFINE whole == [i \in DOMAIN sent |-> Delivered(sent[i])]
               n == Len(received)
    <2>1. n \in Nat /\ n <= Len(sent) /\ DOMAIN sent = 1 .. Len(sent)
          /\ Len(sent) \in Nat /\ received = [i \in 1 .. n |-> received[i]]
      BY DEF PrefixInv
    <2>2. whole \in Seq(Frames) /\ Len(whole) = Len(sent)
      <3>1. \A i \in 1 .. Len(sent) : Delivered(sent[i]) \in Frames
        BY DeliveredType DEF PrefixInv
      <3> QED
        BY <2>1, <3>1
    <2>3. \A i \in 1 .. n : received[i] = whole[i]
      BY <2>1 DEF PrefixInv
    <2> HIDE DEF whole
    <2>4. SubSeq(received, 1, n) = SubSeq(whole, 1, n)
      BY <2>1, <2>2, <2>3 DEF PrefixInv
    <2>5. IsPrefix(received, whole)
      BY <2>1, <2>2, <2>4 DEF IsPrefix
    <2> QED
      BY <2>5 DEF ReadsWhatWasWritten, whole
  <1> QED
    BY <1>1, <1>2, ConnInvInit, EndsInvInit, EndsInvStep, PTL DEF Spec
=============================================================================
