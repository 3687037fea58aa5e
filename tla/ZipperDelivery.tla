--------------------------- MODULE ZipperDelivery ---------------------------
(***************************************************************************)
(* Proofs about what Zipper delivers: which connections get which data     *)
(* frames, in which order and how often, and that the zipper implements    *)
(* publish and subscribe (PubSub).                                         *)
(*                                                                         *)
(* The handler of a connection takes the snapshot Route gave it through    *)
(* many steps, in which every other handler, closeServer and the peers     *)
(* move.  DeliveryInv says what stays true of a frame in the meantime.     *)
(***************************************************************************)
EXTENDS ZipperProofs

\* The handler has a data frame in hand.
BusyPc == {"deliver", "write", "dispatch"}

\* The handler came past the route rule: nothing takes it back before it.
PassedPc == RoutedPc \union {"unstore", "gone"}

\* The handler of s has yet to write the frame in its hand to c.
Owed(s, c) == c \in todo[s] \/ (pc[s] = "write" /\ toConn[s] = c)

\* The ack is sent only by a handler that added the route rule.
AckedPassed ==
    \A c \in Conns : Ack \in Written(c) => pc[c] \in PassedPc \ {"acking"}

\* What is in the hand of the handler of s is the last frame that s sent, and
\* what is left to do for it is part of what Route returned.
InHand(s) ==
    /\ pc[s] \in BusyPc =>
          /\ cur[s] \in DOMAIN frames
          /\ frames[cur[s]].from = s
          /\ todo[s] \subseteq frames[cur[s]].to
          /\ \A n \in DOMAIN frames : frames[n].from = s => n <= cur[s]
    /\ pc[s] \notin BusyPc => cur[s] = 0
    /\ pc[s] \notin {"deliver", "write"} => todo[s] = {}
    /\ pc[s] = "write" =>
          toConn[s] \in frames[cur[s]].to /\ toConn[s] \notin todo[s]
    /\ dsTodo[s] # {} => pc[s] = "dispatch" /\ hf[s].type # "UpstreamZipper"

\* Those a frame is meant for observe it for good: their handshake is settled.
Meant(n) ==
    /\ pc[frames[n].from] \in PassedPc
    /\ \A c \in frames[n].to :
          /\ pc[c] \in PassedPc
          /\ IsSfn(c)
          /\ frames[n].tag \in TagsOf(hf[c])
          /\ frames[n].target # NoTarget => frames[n].target = hf[c].target

\* Each of them got the frame or is still owed it, unless it cannot get it.
Accounted(n) ==
    \A c \in frames[n].to :
        \/ DataFrame(n) \in Written(c)
        \/ ~alive[c]
        \/ c \notin connections
        \/ connectorDone
        \/ cur[frames[n].from] = n /\ Owed(frames[n].from, c)

\* What is on a stream was meant for it and is not owed any more.
OnWire(c) ==
    \A f \in Written(c) : f.type = "Data" =>
        /\ f.n \in DOMAIN frames
        /\ c \in frames[f.n].to
        /\ cur[frames[f.n].from] = f.n => ~Owed(frames[f.n].from, c)

\* What a downstream took came from a connection that is no upstream zipper,
\* and is not to be dispatched to it again.
Dispatched(d) ==
    \A i \in DOMAIN dispatched[d] :
        /\ dispatched[d][i] \in DOMAIN frames
        /\ hf[frames[dispatched[d][i]].from].type # "UpstreamZipper"
        /\ cur[frames[dispatched[d][i]].from] = dispatched[d][i] =>
              /\ pc[frames[dispatched[d][i]].from] = "dispatch"
              /\ d \notin dsTodo[frames[dispatched[d][i]].from]

\* The strengthening under which the promises about delivery are inductive.
DeliveryInv ==
    /\ AckedPassed
    /\ \A s \in Conns : InHand(s)
    /\ \A n \in DOMAIN frames : Meant(n)
    /\ \A n \in DOMAIN frames : Accounted(n)
    /\ \A c \in Conns : OnWire(c)
    /\ InOrderAtMostOnce
    /\ \A d \in Downstreams : Dispatched(d)
    /\ DispatchedOnce

-----------------------------------------------------------------------------

\* The frames on a stream.
Frame == [type : {"HandshakeAck", "Rejected", "ConnectTo", "Data"}, n : Nat]

\* A write appends to the stream of a connection that lives and leaves every
\* other stream alone.
LEMMA WriteAppends ==
  ASSUME TypeOK, NEW c \in Conns, NEW f \in Frame, WriteFrame(c, f),
         NEW x \in Conns
  PROVE  wire'[x] = IF x = c /\ alive[c] THEN Append(wire[x], f) ELSE wire[x]
<1>1. wire \in [Conns -> Seq(Frame)]
  BY DEF TypeOK, Frame
<1>. QED
  BY <1>1 DEF WriteFrame

\* What is on a stream before and after a write.
LEMMA AppendWritten ==
  ASSUME NEW s \in Seq(Frame), NEW f \in Frame
  PROVE  /\ {Append(s, f)[i] : i \in DOMAIN Append(s, f)} =
              {s[i] : i \in DOMAIN s} \union {f}
         /\ DOMAIN Append(s, f) = 1 .. Len(s) + 1
         /\ \A i \in DOMAIN s : Append(s, f)[i] = s[i]
         /\ Append(s, f)[Len(s) + 1] = f
<1>1. /\ DOMAIN s = 1 .. Len(s)
      /\ DOMAIN Append(s, f) = 1 .. Len(s) + 1
      /\ Len(s) \in Nat
      /\ \A i \in 1 .. Len(s) : Append(s, f)[i] = s[i]
      /\ Append(s, f)[Len(s) + 1] = f
  OBVIOUS
<1>2. DOMAIN Append(s, f) = DOMAIN s \union {Len(s) + 1}
  BY <1>1
<1>. QED
  BY <1>1, <1>2

\* The set of frames on a stream after a write.
LEMMA WriteWritten ==
  ASSUME TypeOK, NEW c \in Conns, NEW f \in Frame, WriteFrame(c, f),
         NEW x \in Conns
  PROVE  Written(x)' = IF x = c /\ alive[c] THEN Written(x) \union {f}
                       ELSE Written(x)
<1>1. wire[x] \in Seq(Frame)
  BY DEF TypeOK, Frame
<1>2. CASE x = c /\ alive[c]
  <2>1. wire'[x] = Append(wire[x], f)
    BY <1>2, WriteAppends
  <2>. QED
    BY <1>1, <1>2, <2>1, AppendWritten DEF Written
<1>3. CASE ~(x = c /\ alive[c])
  <2>1. wire'[x] = wire[x]
    BY <1>3, WriteAppends
  <2>. QED
    BY <1>3, <2>1 DEF Written
<1>. QED
  BY <1>2, <1>3

-----------------------------------------------------------------------------

\* The step writes no data frame.
QuietWire ==
  \A c \in Conns :
    /\ Written(c) \subseteq Written(c)'
    /\ \A i \in DOMAIN wire'[c] :
          \/ i \in DOMAIN wire[c] /\ wire'[c][i] = wire[c][i]
          \/ wire'[c][i].type # "Data"

\* The step changes nothing about the frames that are under way, nor about those
\* whose route rule was added.
Calm ==
  /\ UNCHANGED <<routingVars, dispatched>>
  /\ connectorDone => connectorDone'
  /\ QuietWire
  /\ \A c \in Conns :
       /\ Ack \in Written(c)' =>
             Ack \in Written(c) \/ pc'[c] \in PassedPc \ {"acking"}
       /\ pc[c] \in PassedPc =>
             /\ pc'[c] \in PassedPc
             /\ pc[c] # "acking" => pc'[c] # "acking"
             /\ hf'[c] = hf[c]
             /\ ~alive[c] => ~alive'[c]
             /\ c \notin connections => c \notin connections'
       /\ pc'[c] = pc[c] \/ (pc[c] \notin BusyPc /\ pc'[c] \notin BusyPc)

\* A step that leaves the streams alone writes no data frame.
LEMMA SameWireQuiet ==
  ASSUME UNCHANGED wire
  PROVE  /\ QuietWire
         /\ \A c \in Conns : Written(c)' = Written(c)
BY DEF QuietWire, Written

\* Neither does one that writes an answer to a handshake.
LEMMA AnswerQuiet ==
  ASSUME TypeOK, NEW c \in Conns, NEW f \in {Ack, Rejected, ConnectTo},
         WriteFrame(c, f)
  PROVE  /\ QuietWire
         /\ \A x \in Conns : Written(x)' \subseteq
              Written(x) \union (IF x = c THEN {f} ELSE {})
<1>1. f \in Frame /\ f.type # "Data"
  BY DEF Frame, Ack, Rejected, ConnectTo
<1>2. ASSUME NEW x \in Conns
      PROVE  /\ Written(x) \subseteq Written(x)'
             /\ Written(x)' \subseteq
                  Written(x) \union (IF x = c THEN {f} ELSE {})
  BY <1>1, WriteWritten
<1>3. ASSUME NEW x \in Conns, NEW i \in DOMAIN wire'[x]
      PROVE  \/ i \in DOMAIN wire[x] /\ wire'[x][i] = wire[x][i]
             \/ wire'[x][i].type # "Data"
  <2>1. wire[x] \in Seq(Frame)
    BY DEF TypeOK, Frame
  <2>2. CASE wire'[x] = wire[x]
    BY <1>3, <2>2
  <2>3. CASE wire'[x] = Append(wire[x], f)
    <3>1. i \in 1 .. Len(wire[x]) + 1
      BY <1>1, <1>3, <2>1, <2>3, AppendWritten
    <3>2. DOMAIN wire[x] = 1 .. Len(wire[x]) /\ Len(wire[x]) \in Nat
      BY <2>1
    <3>3. CASE i \in DOMAIN wire[x]
      BY <1>1, <2>1, <2>3, <3>3, AppendWritten
    <3>4. CASE i = Len(wire[x]) + 1
      BY <1>1, <2>1, <2>3, <3>4, AppendWritten
    <3>. QED
      BY <3>1, <3>2, <3>3, <3>4
  <2>. QED
    BY <1>1, <2>2, <2>3, WriteAppends
<1>. QED
  BY <1>2, <1>3 DEF QuietWire

\* What the peers and the operator do is calm, unless a data frame is read.
LEMMA CalmEnvironment ==
  ASSUME TypeOK, HandlerOwnsEntries, Environment
  PROVE  \/ Calm
         \/ \E c \in Conns, tag \in Tags, target \in Targets \union {NoTarget} :
               ReadDataFrame(c, tag, target)
<1>. USE DEF PassedPc, RoutedPc, StoredPc, BusyPc
<1>0. /\ pc \in [Conns -> PcStates]
      /\ alive \in [Conns -> BOOLEAN]
      /\ hf \in [Conns -> HandshakeFrames \union {NoHandshake}]
  BY DEF TypeOK
<1>1. ASSUME NEW c \in Conns, AcceptConn(c) PROVE Calm
  BY <1>0, <1>1, SameWireQuiet DEF AcceptConn, Calm, connectorVars
<1>2. ASSUME NEW c \in Conns, Die(c) PROVE Calm
  BY <1>0, <1>2, SameWireQuiet DEF Die, Calm, connectorVars
<1>3. ASSUME NEW c \in Conns, AcceptStream(c) PROVE Calm
  <2>1. pc[c] = "accepting"
    BY <1>3 DEF AcceptStream, HandlerOwnsEntries
  <2>. QED
    BY <1>0, <1>3, <2>1, SameWireQuiet DEF AcceptStream, Calm, connectorVars
<1>4. ASSUME NEW c \in Conns, NEW h \in HandshakeFrames, AdmitHandshake(c, h)
      PROVE  Calm
  BY <1>0, <1>4, SameWireQuiet DEF AdmitHandshake, Calm, connectorVars
<1>5. ASSUME NEW c \in Conns, NEW f \in {Rejected, ConnectTo},
             WriteFrame(c, f),
             pc[c] = "handshake",
             pc' = [pc EXCEPT ![c] = "failed"],
             UNCHANGED <<connectorVars, alive, hf, routingVars, dispatched>>
      PROVE  Calm
  <2>1. QuietWire /\ \A x \in Conns : Ack \in Written(x)' => Ack \in Written(x)
    BY <1>5, AnswerQuiet DEF Ack, Rejected, ConnectTo
  <2>. QED
    BY <1>0, <1>5, <2>1 DEF Calm, connectorVars
<1>6. ASSUME NEW c \in Conns, NEW h \in HandshakeFrames, RefuseHandshake(c, h)
      PROVE  Calm
  BY <1>5, <1>6 DEF RefuseHandshake, Refusal
<1>7. ASSUME NEW c \in Conns, UnexpectedFirst(c) PROVE Calm
  BY <1>5, <1>7 DEF UnexpectedFirst
<1>8. ASSUME NEW c \in Conns, UnexpectedFrame(c) PROVE Calm
  BY <1>0, <1>8, SameWireQuiet DEF UnexpectedFrame, Calm, connectorVars
<1>9. CASE Close
  BY <1>0, <1>9, SameWireQuiet DEF Close, Calm, handlerVars
<1>10. CASE \E d \in Downstreams : DownstreamLeaves(d)
  BY <1>0, <1>10, SameWireQuiet
     DEF DownstreamLeaves, Calm, connectorVars, handlerVars
<1>. QED
  BY <1>1, <1>2, <1>3, <1>4, <1>6, <1>7, <1>8, <1>9, <1>10 DEF Environment

\* So is what Serve and closeServer do.
LEMMA CalmServe ==
  ASSUME TypeOK, HandlerOwnsEntries, Serve
  PROVE  Calm
<1>. USE DEF PassedPc, RoutedPc, StoredPc, BusyPc
<1>0. pc \in [Conns -> PcStates] /\ connections \subseteq Conns
  BY DEF TypeOK, ConnectorTypeOK
<1>1. CASE AcceptError
  BY <1>0, <1>1, SameWireQuiet
     DEF AcceptError, Calm, connectorVars, HandlerOwnsEntries
<1>2. CASE DownstreamsClosed
           \/ \E d \in Downstreams : CloseDownstream(d) \/ DownstreamClosed(d)
  BY <1>2, SameWireQuiet DEF DownstreamsClosed, CloseDownstream,
                             DownstreamClosed, Calm, connectorVars, handlerVars
<1>3. CASE CloseConnector
  BY <1>3, SameWireQuiet
     DEF CloseConnector, ConnectorCancel, Calm, connectorVars, handlerVars
<1>4. CASE ClearConnector
  BY <1>4, SameWireQuiet DEF ClearConnector, ConnectorClear, Calm, handlerVars
<1>5. CASE ReleaseRouter
  BY <1>5, SameWireQuiet DEF ReleaseRouter, Calm, connectorVars, handlerVars
<1>. QED
  BY <1>1, <1>2, <1>3, <1>4, <1>5 DEF Serve

\* What a handler does in handleFrame: the steps that are not calm.
handleFrame(c) ==
  \/ \E d \in Conns : GetConn(c, d)
  \/ WriteDataFrame(c)
  \/ RoutingDone(c)
  \/ \E d \in Downstreams : DispatchTo(c, d)
  \/ FrameDone(c)

\* And so is what a handler does outside handleFrame.
LEMMA CalmHandler ==
  ASSUME TypeOK, HandlerOwnsEntries, NEW c \in Conns, handleFrameConn(c)
  PROVE  Calm \/ handleFrame(c)
<1>. USE DEF PassedPc, RoutedPc, StoredPc, BusyPc
<1>0. pc \in [Conns -> PcStates] /\ connections \subseteq Conns
  BY DEF TypeOK, ConnectorTypeOK
<1>1. CASE HandshakeReadError(c)
  BY <1>0, <1>1, SameWireQuiet DEF HandshakeReadError, Calm, connectorVars
<1>2. CASE StoreConn(c)
  BY <1>0, <1>2, SameWireQuiet DEF StoreConn, ConnectorStore, Calm
<1>3. CASE addSfnRouteRule(c)
  BY <1>0, <1>3, SameWireQuiet DEF addSfnRouteRule, Calm, connectorVars
<1>4. CASE AckHandshake(c)
  <2>1. /\ QuietWire
        /\ \A x \in Conns \ {c} : Ack \in Written(x)' => Ack \in Written(x)
    BY <1>4, AnswerQuiet DEF AckHandshake
  <2>. QED
    BY <1>0, <1>4, <2>1 DEF AckHandshake, Calm, connectorVars
<1>5. CASE RegisterTag(c)
  BY <1>0, <1>5, SameWireQuiet DEF RegisterTag, Calm, connectorVars
<1>6. CASE StartServing(c)
  BY <1>0, <1>6, SameWireQuiet DEF StartServing, Calm, connectorVars
<1>7. CASE ReadError(c)
  BY <1>0, <1>7, SameWireQuiet DEF ReadError, Calm, connectorVars
<1>8. CASE LeaveRegister(c)
  BY <1>0, <1>8, SameWireQuiet DEF LeaveRegister, Calm, connectorVars
<1>9. CASE LeaveRouter(c)
  BY <1>0, <1>9, SameWireQuiet DEF LeaveRouter, Calm, connectorVars
<1>10. CASE LeaveConnector(c)
  BY <1>0, <1>10, SameWireQuiet DEF LeaveConnector, ConnectorRemove, Calm
<1>. QED
  BY <1>1, <1>2, <1>3, <1>4, <1>5, <1>6, <1>7, <1>8, <1>9, <1>10
     DEF handleFrameConn, handleFrame

-----------------------------------------------------------------------------

\* What a logged frame is made of.
LEMMA FrameTyped ==
  ASSUME TypeOK, NEW n \in DOMAIN frames
  PROVE  /\ n \in Nat
         /\ frames[n].from \in Conns
         /\ frames[n].to \subseteq Conns
<1>. DEFINE Logged == [from : Conns, tag : Tags,
                       target : Targets \union {NoTarget}, to : SUBSET Conns]
<1>1. frames \in Seq(Logged)
  BY DEF TypeOK
<1>2. n \in Nat /\ frames[n] \in Logged
  <2>. HIDE DEF Logged
  <2>. QED
    BY <1>1
<1>. QED
  BY <1>2

\* Nothing is under way at the start.
LEMMA InitDelivery == Init => DeliveryInv
<1>. SUFFICES ASSUME Init PROVE DeliveryInv
  OBVIOUS
<1>1. /\ \A c \in Conns : /\ wire[c] = <<>> /\ Written(c) = {}
                          /\ pc[c] = "none" /\ cur[c] = 0
                          /\ todo[c] = {} /\ dsTodo[c] = {}
      /\ frames = <<>>
      /\ \A d \in Downstreams : dispatched[d] = <<>>
  BY DEF Init, Written
<1>2. \A s \in Conns : InHand(s)
  BY <1>1 DEF InHand, BusyPc
<1>. QED
  BY <1>1, <1>2
     DEF DeliveryInv, AckedPassed, OnWire, InOrderAtMostOnce, Dispatched,
         DispatchedOnce

\* A calm step keeps the invariant.
LEMMA CalmKeeps ==
  ASSUME TypeOK, DeliveryInv, Calm
  PROVE  DeliveryInv'
<1>0. /\ frames' = frames /\ cur' = cur /\ todo' = todo /\ toConn' = toConn
      /\ dsTodo' = dsTodo /\ dispatched' = dispatched
  BY DEF Calm, routingVars
<1>1. /\ \A n \in DOMAIN frames : /\ frames[n].from \in Conns
                                  /\ frames[n].to \subseteq Conns
  BY FrameTyped
<1>2. \A c \in Conns : \A f \in Written(c)' : f.type = "Data" => f \in Written(c)
  BY DEF Calm, QuietWire, Written
<1>3. AckedPassed'
  BY DEF DeliveryInv, AckedPassed, Calm, PassedPc
<1>4. \A s \in Conns : InHand(s)'
  <2>. SUFFICES ASSUME NEW s \in Conns PROVE InHand(s)'
    OBVIOUS
  <2>1. CASE pc'[s] = pc[s]
    BY <1>0, <2>1 DEF DeliveryInv, InHand, Calm, PassedPc, RoutedPc, StoredPc
  <2>2. CASE pc[s] \notin BusyPc /\ pc'[s] \notin BusyPc
    BY <1>0, <2>2 DEF DeliveryInv, InHand, BusyPc
  <2>. QED
    BY <2>1, <2>2 DEF Calm
<1>5. \A n \in DOMAIN frames' : Meant(n)'
  BY <1>0, <1>1 DEF DeliveryInv, Meant, Calm, IsSfn, TagsOf
<1>6. ASSUME NEW s \in Conns, NEW c PROVE Owed(s, c)' <=> Owed(s, c)
  BY <1>0, <1>6 DEF Owed, Calm, BusyPc
<1>7. \A n \in DOMAIN frames' : Accounted(n)'
  <2>. SUFFICES ASSUME NEW n \in DOMAIN frames, NEW c \in frames[n].to
                PROVE  \/ DataFrame(n) \in Written(c)'
                       \/ ~alive'[c]
                       \/ c \notin connections'
                       \/ connectorDone'
                       \/ cur[frames[n].from] = n /\ Owed(frames[n].from, c)
    BY <1>0, <1>1, <1>6 DEF Accounted, DataFrame
  <2>1. c \in Conns /\ frames[n].from \in Conns /\ pc[c] \in PassedPc
    BY <1>1 DEF DeliveryInv, Meant
  <2>2. \/ DataFrame(n) \in Written(c)
        \/ ~alive[c]
        \/ c \notin connections
        \/ connectorDone
        \/ cur[frames[n].from] = n /\ Owed(frames[n].from, c)
    BY DEF DeliveryInv, Accounted
  <2>. QED
    BY <1>6, <2>1, <2>2 DEF Calm, QuietWire
<1>8. \A c \in Conns : OnWire(c)'
  BY <1>0, <1>1, <1>2, <1>6 DEF DeliveryInv, OnWire
<1>9. InOrderAtMostOnce'
  BY <1>0 DEF DeliveryInv, InOrderAtMostOnce, Calm, QuietWire
<1>10. ASSUME NEW d \in Downstreams, NEW i \in DOMAIN dispatched[d]
       PROVE  /\ dispatched[d][i] \in DOMAIN frames
              /\ frames[dispatched[d][i]].from \in Conns
              /\ hf'[frames[dispatched[d][i]].from] =
                   hf[frames[dispatched[d][i]].from]
  BY <1>1 DEF DeliveryInv, Dispatched, Meant, Calm
<1>11. \A d \in Downstreams : Dispatched(d)'
  BY <1>0, <1>10 DEF DeliveryInv, Dispatched, Calm, BusyPc
<1>12. DispatchedOnce'
  BY <1>0, <1>10 DEF DeliveryInv, DispatchedOnce
<1>. QED
  BY <1>0, <1>3, <1>4, <1>5, <1>7, <1>8, <1>9, <1>11, <1>12 DEF DeliveryInv

\* A handler in handleFrame came past its route rule.
LEMMA BusyPassed ==
  ASSUME NEW c \in Conns, pc[c] \in BusyPc \union {"read"}
  PROVE  pc[c] \in PassedPc \ {"acking"}
BY DEF BusyPc, PassedPc, RoutedPc, StoredPc

\* A step of handleFrame of c that writes nothing and logs nothing keeps what does
\* not depend on the work in hand.
LEMMA SilentKeeps ==
  ASSUME TypeOK, DeliveryInv, NEW c \in Conns,
         pc[c] \in BusyPc, pc'[c] \in BusyPc \union {"read"},
         \A x \in Conns \ {c} : pc'[x] = pc[x],
         UNCHANGED <<frames, wire, hf>>
  PROVE  /\ AckedPassed'
         /\ \A n \in DOMAIN frames' : Meant(n)'
         /\ InOrderAtMostOnce'
<1>1. /\ pc[c] \in PassedPc \ {"acking"}
      /\ pc'[c] \in PassedPc \ {"acking"}
  BY DEF BusyPc, PassedPc, RoutedPc, StoredPc
<1>2. \A x \in Conns : pc[x] \in PassedPc => pc'[x] \in PassedPc
  BY <1>1
<1>3. AckedPassed'
  BY <1>1 DEF DeliveryInv, AckedPassed, Written
<1>4. \A n \in DOMAIN frames' : Meant(n)'
  BY <1>2, FrameTyped DEF DeliveryInv, Meant, IsSfn, TagsOf
<1>5. InOrderAtMostOnce'
  BY DEF DeliveryInv, InOrderAtMostOnce
<1>. QED
  BY <1>3, <1>4, <1>5

\* connector.Get: a connection that is found is still owed the frame, one that
\* is not found is excused.
LEMMA GetConnKeeps ==
  ASSUME TypeOK, DeliveryInv, NEW c \in Conns, NEW d \in Conns, GetConn(c, d)
  PROVE  DeliveryInv'
<1>0. /\ pc[c] = "deliver" /\ d \in todo[c]
      /\ frames' = frames /\ cur' = cur /\ dsTodo' = dsTodo
      /\ wire' = wire /\ dispatched' = dispatched
      /\ hf' = hf /\ alive' = alive
      /\ connections' = connections /\ connectorDone' = connectorDone
      /\ todo'[c] = todo[c] \ {d}
      /\ \A x \in Conns \ {c} : /\ todo'[x] = todo[x]
                                /\ pc'[x] = pc[x]
                                /\ toConn'[x] = toConn[x]
      /\ \/ pc'[c] = "write" /\ toConn'[c] = d
         \/ /\ pc'[c] = "deliver" /\ toConn'[c] = toConn[c]
            /\ connectorDone \/ d \notin connections
  BY DEF GetConn, ConnectorGet, connectorVars, TypeOK
<1>1. /\ AckedPassed'
      /\ \A n \in DOMAIN frames' : Meant(n)'
      /\ InOrderAtMostOnce'
  BY <1>0, SilentKeeps DEF BusyPc
<1>2. ASSUME NEW s \in Conns PROVE InHand(s)'
  <2>1. CASE s # c
    BY <1>0, <2>1 DEF DeliveryInv, InHand
  <2>2. CASE s = c
    BY <1>0, <2>2 DEF DeliveryInv, InHand, BusyPc
  <2>. QED
    BY <2>1, <2>2
<1>3. ASSUME NEW s \in Conns, NEW x
      PROVE  /\ Owed(s, x)' => Owed(s, x)
             /\ Owed(s, x) => \/ Owed(s, x)'
                              \/ x = d /\ (connectorDone \/ d \notin connections)
  BY <1>0, <1>3 DEF Owed
<1>4. ASSUME NEW n \in DOMAIN frames' PROVE Accounted(n)'
  BY <1>0, <1>3, FrameTyped DEF DeliveryInv, Accounted, Written, DataFrame
<1>5. ASSUME NEW x \in Conns PROVE OnWire(x)'
  BY <1>0, <1>3, FrameTyped DEF DeliveryInv, OnWire, Written
<1>6. ASSUME NEW e \in Downstreams PROVE Dispatched(e)'
  BY <1>0, FrameTyped DEF DeliveryInv, Dispatched
<1>7. DispatchedOnce'
  BY <1>0 DEF DeliveryInv, DispatchedOnce
<1>. QED
  BY <1>1, <1>2, <1>4, <1>5, <1>6, <1>7 DEF DeliveryInv

\* dispatchToDownstreams starts: nobody is owed the frame any more.
LEMMA RoutingDoneKeeps ==
  ASSUME TypeOK, DeliveryInv, NEW c \in Conns, RoutingDone(c)
  PROVE  DeliveryInv'
<1>0. /\ pc[c] = "deliver" /\ todo[c] = {} /\ pc'[c] = "dispatch"
      /\ dsTodo'[c] # {} => hf[c].type # "UpstreamZipper"
      /\ frames' = frames /\ cur' = cur /\ todo' = todo /\ toConn' = toConn
      /\ wire' = wire /\ dispatched' = dispatched
      /\ hf' = hf /\ alive' = alive
      /\ connections' = connections /\ connectorDone' = connectorDone
      /\ \A x \in Conns \ {c} : dsTodo'[x] = dsTodo[x] /\ pc'[x] = pc[x]
  BY DEF RoutingDone, connectorVars, TypeOK
<1>1. /\ AckedPassed'
      /\ \A n \in DOMAIN frames' : Meant(n)'
      /\ InOrderAtMostOnce'
  BY <1>0, SilentKeeps DEF BusyPc
<1>2. ASSUME NEW s \in Conns PROVE InHand(s)'
  <2>1. CASE s # c
    BY <1>0, <2>1 DEF DeliveryInv, InHand
  <2>2. CASE s = c
    BY <1>0, <2>2 DEF DeliveryInv, InHand, BusyPc
  <2>. QED
    BY <2>1, <2>2
<1>3. ASSUME NEW s \in Conns, NEW x PROVE Owed(s, x)' <=> Owed(s, x)
  BY <1>0, <1>3 DEF Owed
<1>4. ASSUME NEW n \in DOMAIN frames' PROVE Accounted(n)'
  BY <1>0, <1>3, FrameTyped DEF DeliveryInv, Accounted, Written, DataFrame
<1>5. ASSUME NEW x \in Conns PROVE OnWire(x)'
  BY <1>0, <1>3, FrameTyped DEF DeliveryInv, OnWire, Written
<1>6. ASSUME NEW e \in Downstreams PROVE Dispatched(e)'
  BY <1>0, FrameTyped DEF DeliveryInv, Dispatched
<1>7. DispatchedOnce'
  BY <1>0 DEF DeliveryInv, DispatchedOnce
<1>. QED
  BY <1>1, <1>2, <1>4, <1>5, <1>6, <1>7 DEF DeliveryInv

\* handleFrame returns.
LEMMA FrameDoneKeeps ==
  ASSUME TypeOK, DeliveryInv, NEW c \in Conns, FrameDone(c)
  PROVE  DeliveryInv'
<1>0. /\ pc[c] = "dispatch" /\ dsTodo[c] = {} /\ pc'[c] = "read"
      /\ cur'[c] = 0
      /\ frames' = frames /\ todo' = todo /\ toConn' = toConn
      /\ dsTodo' = dsTodo
      /\ wire' = wire /\ dispatched' = dispatched
      /\ hf' = hf /\ alive' = alive
      /\ connections' = connections /\ connectorDone' = connectorDone
      /\ \A x \in Conns \ {c} : cur'[x] = cur[x] /\ pc'[x] = pc[x]
  BY DEF FrameDone, connectorVars, TypeOK
<1>1. /\ AckedPassed'
      /\ \A n \in DOMAIN frames' : Meant(n)'
      /\ InOrderAtMostOnce'
  BY <1>0, SilentKeeps DEF BusyPc
<1>2. ASSUME NEW s \in Conns PROVE InHand(s)'
  <2>1. CASE s # c
    BY <1>0, <2>1 DEF DeliveryInv, InHand
  <2>2. CASE s = c
    BY <1>0, <2>2 DEF DeliveryInv, InHand, BusyPc
  <2>. QED
    BY <2>1, <2>2
<1>3. ASSUME NEW s \in Conns, NEW x
      PROVE  /\ Owed(s, x)' <=> Owed(s, x)
             /\ Owed(s, x) => s # c
  BY <1>0, <1>3 DEF DeliveryInv, InHand, Owed
<1>4. ASSUME NEW n \in DOMAIN frames' PROVE Accounted(n)'
  BY <1>0, <1>3, FrameTyped DEF DeliveryInv, Accounted, Written, DataFrame
<1>5. ASSUME NEW x \in Conns PROVE OnWire(x)'
  BY <1>0, <1>3, FrameTyped DEF DeliveryInv, OnWire, Written
<1>6. \A n \in DOMAIN frames : n # 0
  BY DEF TypeOK
<1>7. ASSUME NEW e \in Downstreams PROVE Dispatched(e)'
  BY <1>0, <1>6, FrameTyped DEF DeliveryInv, Dispatched
<1>8. DispatchedOnce'
  BY <1>0 DEF DeliveryInv, DispatchedOnce
<1>. QED
  BY <1>1, <1>2, <1>4, <1>5, <1>7, <1>8 DEF DeliveryInv

\* A downstream is offered the frame, once.
LEMMA DispatchToKeeps ==
  ASSUME TypeOK, DeliveryInv, NEW c \in Conns, NEW d \in Downstreams,
         DispatchTo(c, d)
  PROVE  DeliveryInv'
<1>0. /\ pc[c] = "dispatch" /\ d \in dsTodo[c]
      /\ frames' = frames /\ cur' = cur /\ todo' = todo /\ toConn' = toConn
      /\ wire' = wire /\ hf' = hf /\ alive' = alive /\ pc' = pc
      /\ connections' = connections /\ connectorDone' = connectorDone
      /\ dsTodo'[c] = dsTodo[c] \ {d}
      /\ \A x \in Conns \ {c} : dsTodo'[x] = dsTodo[x]
      /\ \A e \in Downstreams \ {d} : dispatched'[e] = dispatched[e]
      /\ \/ dispatched'[d] = Append(dispatched[d], cur[c])
         \/ dispatched'[d] = dispatched[d]
      /\ \A e \in Downstreams : dispatched[e] \in Seq(Nat)
      /\ cur[c] \in Nat
  BY DEF DispatchTo, connectorVars, handlerVars, TypeOK
<1>1. /\ AckedPassed'
      /\ \A n \in DOMAIN frames' : Meant(n)'
      /\ InOrderAtMostOnce'
  BY <1>0, SilentKeeps DEF BusyPc
<1>2. ASSUME NEW s \in Conns PROVE InHand(s)'
  BY <1>0 DEF DeliveryInv, InHand
<1>3. ASSUME NEW s \in Conns, NEW x PROVE Owed(s, x)' <=> Owed(s, x)
  BY <1>0, <1>3 DEF Owed
<1>4. ASSUME NEW n \in DOMAIN frames' PROVE Accounted(n)'
  BY <1>0, <1>3, FrameTyped DEF DeliveryInv, Accounted, Written, DataFrame
<1>5. ASSUME NEW x \in Conns PROVE OnWire(x)'
  BY <1>0, <1>3, FrameTyped DEF DeliveryInv, OnWire, Written
<1>6. /\ cur[c] \in DOMAIN frames /\ frames[cur[c]].from = c
      /\ \A n \in DOMAIN frames : frames[n].from = c => n <= cur[c]
      /\ hf[c].type # "UpstreamZipper"
  BY <1>0 DEF DeliveryInv, InHand, BusyPc
<1>7. ASSUME NEW e \in Downstreams, NEW i \in DOMAIN dispatched'[e]
      PROVE  \/ i \in DOMAIN dispatched[e] /\ dispatched'[e][i] = dispatched[e][i]
             \/ /\ e = d /\ dispatched'[e][i] = cur[c]
                /\ DOMAIN dispatched[e] = 1 .. i - 1
  <2>. DEFINE q == dispatched[e]
              n == cur[c]
  <2>1. q \in Seq(Nat) /\ n \in Nat
    BY <1>0
  <2>2. CASE dispatched'[e] = q
    BY <1>7, <2>2
  <2>3. CASE e = d /\ dispatched'[e] = Append(q, n)
    <3>. HIDE DEF q, n
    <3>1. /\ i \in 1 .. Len(q) + 1 /\ DOMAIN q = 1 .. Len(q) /\ Len(q) \in Nat
          /\ \A k \in 1 .. Len(q) : Append(q, n)[k] = q[k]
          /\ Append(q, n)[Len(q) + 1] = n
      BY <1>7, <2>1, <2>3
    <3>2. CASE i \in DOMAIN q
      BY <2>3, <3>1, <3>2 DEF q
    <3>3. CASE i = Len(q) + 1
      <4>1. DOMAIN q = 1 .. i - 1 /\ dispatched'[e][i] = n
        BY <2>3, <3>1, <3>3
      <4>. QED
        BY <2>3, <4>1 DEF q, n
    <3>. QED
      BY <3>1, <3>2, <3>3
  <2>. QED
    BY <1>0, <2>2, <2>3
<1>8. ASSUME NEW e \in Downstreams, NEW i \in DOMAIN dispatched[e]
      PROVE  /\ dispatched[e][i] \in DOMAIN frames
             /\ frames[dispatched[e][i]].from \in Conns
             /\ dispatched[e][i] \in Nat
  BY FrameTyped DEF DeliveryInv, Dispatched
<1>9. ASSUME NEW e \in Downstreams PROVE Dispatched(e)'
  <2>. SUFFICES ASSUME NEW i \in DOMAIN dispatched'[e]
                PROVE  /\ dispatched'[e][i] \in DOMAIN frames
                       /\ hf[frames[dispatched'[e][i]].from].type
                            # "UpstreamZipper"
                       /\ cur[frames[dispatched'[e][i]].from] =
                            dispatched'[e][i] =>
                            /\ pc[frames[dispatched'[e][i]].from] = "dispatch"
                            /\ e \notin dsTodo'[frames[dispatched'[e][i]].from]
    BY <1>0 DEF Dispatched
  <2>1. CASE i \in DOMAIN dispatched[e] /\ dispatched'[e][i] = dispatched[e][i]
    <3>1. \A x \in Conns : dsTodo'[x] \subseteq dsTodo[x]
      BY <1>0
    <3>. QED
      BY <1>8, <2>1, <3>1 DEF DeliveryInv, Dispatched
  <2>2. CASE e = d /\ dispatched'[e][i] = cur[c]
    BY <1>0, <1>6, <2>2
  <2>. QED
    BY <1>7, <2>1, <2>2
<1>10. DispatchedOnce'
  <2>1. ASSUME NEW e \in Downstreams, NEW i \in DOMAIN dispatched'[e]
        PROVE  hf'[frames'[dispatched'[e][i]].from].type # "UpstreamZipper"
    BY <1>0, <1>9 DEF Dispatched
  <2>2. ASSUME NEW e \in Downstreams, NEW i \in DOMAIN dispatched'[e],
               NEW j \in DOMAIN dispatched'[e], i < j,
               frames[dispatched'[e][i]].from = frames[dispatched'[e][j]].from
        PROVE  dispatched'[e][i] < dispatched'[e][j]
    <3>0. i \in Nat \ {0} /\ j \in Nat \ {0}
      BY <1>0
    <3>1. CASE j \in DOMAIN dispatched[e] /\ dispatched'[e][j] = dispatched[e][j]
      <4>1. i \in DOMAIN dispatched[e] /\ dispatched'[e][i] = dispatched[e][i]
        <5>1. i \in DOMAIN dispatched[e]
          BY <1>0, <2>2, <3>0, <3>1
        <5>. QED
          BY <1>7, <3>0, <5>1
      <4>. QED
        BY <2>2, <3>1, <4>1 DEF DeliveryInv, DispatchedOnce
    <3>2. CASE /\ e = d /\ dispatched'[e][j] = cur[c]
               /\ DOMAIN dispatched[e] = 1 .. j - 1
      <4>1. i \in DOMAIN dispatched[e] /\ dispatched'[e][i] = dispatched[e][i]
        BY <1>7, <2>2, <3>0, <3>2
      <4>2. frames[dispatched[e][i]].from = c
        BY <1>6, <2>2, <3>2, <4>1
      <4>3. dispatched[e][i] # cur[c]
        BY <1>0, <3>2, <4>1, <4>2 DEF DeliveryInv, Dispatched
      <4>. QED
        BY <1>0, <1>6, <1>8, <3>2, <4>1, <4>2, <4>3
    <3>. QED
      BY <1>7, <3>1, <3>2
  <2>. QED
    BY <1>0, <2>1, <2>2 DEF DispatchedOnce
<1>. QED
  BY <1>1, <1>2, <1>4, <1>5, <1>9, <1>10 DEF DeliveryInv

\* The write to the connection that Get returned pays what was owed to it, or
\* finds it dead; nothing newer of the same sender is on the stream.
LEMMA WriteDataFrameKeeps ==
  ASSUME TypeOK, DeliveryInv, NEW c \in Conns, WriteDataFrame(c)
  PROVE  DeliveryInv'
<1>. DEFINE d == toConn[c]
            f == DataFrame(cur[c])
<1>0. /\ pc[c] = "write" /\ pc'[c] = "deliver"
      /\ frames' = frames /\ cur' = cur /\ todo' = todo /\ dsTodo' = dsTodo
      /\ dispatched' = dispatched /\ hf' = hf /\ alive' = alive
      /\ connections' = connections /\ connectorDone' = connectorDone
      /\ \A x \in Conns \ {c} : toConn'[x] = toConn[x] /\ pc'[x] = pc[x]
      /\ WriteFrame(d, f)
  BY DEF WriteDataFrame, connectorVars, TypeOK
<1>1. /\ cur[c] \in DOMAIN frames /\ frames[cur[c]].from = c
      /\ d \in frames[cur[c]].to /\ d \notin todo[c]
      /\ \A n \in DOMAIN frames : frames[n].from = c => n <= cur[c]
  BY <1>0 DEF DeliveryInv, InHand, BusyPc
<1>2. d \in Conns /\ cur[c] \in Nat /\ f \in Frame /\ f.type = "Data"
      /\ f.n = cur[c]
  BY <1>1, FrameTyped DEF DataFrame, Frame
<1>3. \A x \in Conns : Written(x)' = IF x = d /\ alive[d]
                                     THEN Written(x) \union {f} ELSE Written(x)
  BY <1>0, <1>2, WriteWritten
<1>4. \A x \in Conns : wire'[x] = IF x = d /\ alive[d]
                                  THEN Append(wire[x], f) ELSE wire[x]
  BY <1>0, <1>2, WriteAppends
<1>. HIDE DEF d, f
<1>5. \A x \in Conns : Ack \in Written(x)' => Ack \in Written(x)
  BY <1>2, <1>3 DEF Ack
<1>6. /\ pc[c] \in PassedPc \ {"acking"}
      /\ pc'[c] \in PassedPc \ {"acking"}
  BY <1>0 DEF PassedPc, RoutedPc, StoredPc
<1>7. AckedPassed'
  BY <1>0, <1>5, <1>6 DEF DeliveryInv, AckedPassed
<1>8. ASSUME NEW s \in Conns PROVE InHand(s)'
  <2>1. CASE s # c
    BY <1>0, <2>1 DEF DeliveryInv, InHand
  <2>2. CASE s = c
    BY <1>0, <2>2 DEF DeliveryInv, InHand, BusyPc
  <2>. QED
    BY <2>1, <2>2
<1>9. ASSUME NEW n \in DOMAIN frames' PROVE Meant(n)'
  BY <1>0, <1>6, FrameTyped DEF DeliveryInv, Meant, IsSfn, TagsOf
<1>10. ASSUME NEW s \in Conns, NEW x
       PROVE  /\ Owed(s, x)' => Owed(s, x) /\ ~(s = c /\ x = d)
              /\ Owed(s, x) => Owed(s, x)' \/ (s = c /\ x = d)
  BY <1>0, <1>1, <1>10 DEF Owed, d
<1>11. ASSUME NEW n \in DOMAIN frames' PROVE Accounted(n)'
  <2>. SUFFICES ASSUME NEW x \in frames[n].to
                PROVE  \/ DataFrame(n) \in Written(x)'
                       \/ ~alive[x]
                       \/ x \notin connections
                       \/ connectorDone
                       \/ cur[frames[n].from] = n /\ Owed(frames[n].from, x)'
    BY <1>0 DEF Accounted, DataFrame
  <2>1. x \in Conns /\ frames[n].from \in Conns
    BY <1>0, FrameTyped
  <2>2. \/ DataFrame(n) \in Written(x)
        \/ ~alive[x]
        \/ x \notin connections
        \/ connectorDone
        \/ cur[frames[n].from] = n /\ Owed(frames[n].from, x)
    BY <1>0 DEF DeliveryInv, Accounted
  <2>. QED
    BY <1>0, <1>3, <1>10, <2>1, <2>2 DEF f
<1>12. ASSUME NEW x \in Conns PROVE OnWire(x)'
  <2>. SUFFICES ASSUME NEW g \in Written(x)', g.type = "Data"
                PROVE  /\ g.n \in DOMAIN frames
                       /\ x \in frames[g.n].to
                       /\ cur[frames[g.n].from] = g.n =>
                            ~Owed(frames[g.n].from, x)'
    BY <1>0 DEF OnWire
  <2>1. CASE g \in Written(x)
    BY <1>0, <1>10, <2>1, FrameTyped DEF DeliveryInv, OnWire
  <2>2. CASE x = d /\ g = f
    BY <1>0, <1>1, <1>2, <1>10, <2>2
  <2>. QED
    BY <1>3, <2>1, <2>2
<1>13. InOrderAtMostOnce'
  <2>. SUFFICES ASSUME NEW x \in Conns, NEW i \in DOMAIN wire'[x],
                       NEW j \in DOMAIN wire'[x], i < j,
                       wire'[x][i].type = "Data", wire'[x][j].type = "Data",
                       frames[wire'[x][i].n].from = frames[wire'[x][j].n].from
                PROVE  wire'[x][i].n < wire'[x][j].n
    BY <1>0 DEF InOrderAtMostOnce
  <2>1. CASE wire'[x] = wire[x]
    BY <2>1 DEF DeliveryInv, InOrderAtMostOnce
  <2>2. CASE x = d /\ wire'[x] = Append(wire[x], f)
    <3>1. wire[x] \in Seq(Frame)
      BY DEF TypeOK, Frame
    <3>2. /\ i \in 1 .. Len(wire[x]) + 1 /\ j \in 1 .. Len(wire[x]) + 1
          /\ DOMAIN wire[x] = 1 .. Len(wire[x]) /\ Len(wire[x]) \in Nat
      BY <1>2, <2>2, <3>1, AppendWritten
    <3>3. i \in DOMAIN wire[x] /\ wire'[x][i] = wire[x][i]
      BY <1>2, <2>2, <3>1, <3>2, AppendWritten
    <3>4. CASE j \in DOMAIN wire[x]
      <4>1. wire'[x][j] = wire[x][j]
        BY <1>2, <2>2, <3>1, <3>4, AppendWritten
      <4>. QED
        BY <3>3, <3>4, <4>1 DEF DeliveryInv, InOrderAtMostOnce
    <3>5. CASE j = Len(wire[x]) + 1
      <4>1. wire'[x][j] = f
        BY <1>2, <2>2, <3>1, <3>5, AppendWritten
      <4>2. wire[x][i] \in Written(x) /\ wire[x][i] \in Frame
        BY <3>1, <3>3 DEF Written
      <4>3. /\ wire[x][i].n \in DOMAIN frames
            /\ frames[wire[x][i].n].from = c
        BY <1>1, <1>2, <3>3, <4>1, <4>2 DEF DeliveryInv, OnWire
      <4>4. wire[x][i].n # cur[c]
        <5>1. Owed(c, d)
          BY <1>0 DEF Owed, d
        <5>. QED
          BY <2>2, <3>3, <4>2, <4>3, <5>1 DEF DeliveryInv, OnWire
      <4>5. wire[x][i].n \in Nat /\ wire[x][i].n <= cur[c]
        BY <1>1, <4>2, <4>3 DEF Frame
      <4>. QED
        BY <1>2, <3>3, <4>1, <4>4, <4>5
    <3>. QED
      BY <3>2, <3>4, <3>5
  <2>. QED
    BY <1>4, <2>1, <2>2
<1>14. ASSUME NEW e \in Downstreams PROVE Dispatched(e)'
  BY <1>0, FrameTyped DEF DeliveryInv, Dispatched
<1>15. DispatchedOnce'
  BY <1>0 DEF DeliveryInv, DispatchedOnce
<1>. QED
  BY <1>7, <1>8, <1>9, <1>11, <1>12, <1>13, <1>14, <1>15 DEF DeliveryInv

\* ReadFrame and Route: those the frame is meant for observe it, and all of them
\* are owed it.
LEMMA ReadDataFrameKeeps ==
  ASSUME TypeOK, HandlerOwnsEntries, DeliveryInv, NEW c \in Conns,
         NEW tag \in Tags, NEW target \in Targets \union {NoTarget},
         ReadDataFrame(c, tag, target)
  PROVE  DeliveryInv'
<1>. DEFINE N == Len(frames) + 1
            Logged == [from : Conns, tag : Tags,
                       target : Targets \union {NoTarget}, to : SUBSET Conns]
            g == [from |-> c, tag |-> tag, target |-> target,
                  to |-> Route(tag, target)]
<1>0. /\ pc[c] = "read" /\ pc'[c] = "deliver"
      /\ frames' = Append(frames, g) /\ cur'[c] = N
      /\ todo'[c] = Route(tag, target)
      /\ toConn' = toConn /\ dsTodo' = dsTodo
      /\ wire' = wire /\ dispatched' = dispatched
      /\ hf' = hf /\ alive' = alive
      /\ connections' = connections /\ connectorDone' = connectorDone
      /\ \A x \in Conns \ {c} :
            cur'[x] = cur[x] /\ todo'[x] = todo[x] /\ pc'[x] = pc[x]
  BY DEF ReadDataFrame, connectorVars, TypeOK
<1>1. \A x \in Route(tag, target) :
         /\ x \in Conns /\ pc[x] \in PassedPc /\ IsSfn(x)
         /\ tag \in TagsOf(hf[x])
         /\ target # NoTarget => target = hf[x].target
  BY DEF Route, HandlerOwnsEntries, OwnsEntries, TypeOK, RouterTypeOK, PassedPc
<1>2. /\ frames \in Seq(Logged) /\ g \in Logged
      /\ g.from = c /\ g.tag = tag /\ g.target = target
      /\ g.to = Route(tag, target)
  BY <1>1 DEF TypeOK
<1>. HIDE DEF g, Logged
<1>3. /\ DOMAIN frames = 1 .. Len(frames) /\ Len(frames) \in Nat
      /\ DOMAIN frames' = DOMAIN frames \union {N}
      /\ N \in Nat \ {0} /\ N \notin DOMAIN frames
      /\ \A n \in DOMAIN frames : frames'[n] = frames[n]
      /\ frames'[N] = g
  BY <1>0, <1>2
<1>. HIDE DEF N
<1>4. /\ cur[c] = 0 /\ todo[c] = {} /\ dsTodo[c] = {}
      /\ \A n \in DOMAIN frames : n < N /\ n \in Nat
  BY <1>0, <1>3 DEF DeliveryInv, InHand, BusyPc, N
<1>5. /\ pc[c] \in PassedPc \ {"acking"}
      /\ pc'[c] \in PassedPc \ {"acking"}
  BY <1>0 DEF PassedPc, RoutedPc, StoredPc
<1>6. AckedPassed'
  BY <1>0, <1>5 DEF DeliveryInv, AckedPassed, Written
<1>7. ASSUME NEW s \in Conns PROVE InHand(s)'
  <2>1. CASE s # c
    BY <1>0, <1>2, <1>3, <2>1 DEF DeliveryInv, InHand, BusyPc
  <2>2. CASE s = c
    BY <1>0, <1>2, <1>3, <1>4, <2>2 DEF InHand, BusyPc
  <2>. QED
    BY <2>1, <2>2
<1>8. ASSUME NEW n \in DOMAIN frames' PROVE Meant(n)'
  <2>1. CASE n \in DOMAIN frames
    BY <1>0, <1>3, <1>5, <2>1, FrameTyped DEF DeliveryInv, Meant, IsSfn, TagsOf
  <2>2. CASE n = N
    BY <1>0, <1>1, <1>2, <1>3, <1>5, <2>2 DEF Meant, IsSfn, TagsOf
  <2>. QED
    BY <1>3, <2>1, <2>2
<1>9. /\ \A s \in Conns \ {c} : \A x : Owed(s, x)' <=> Owed(s, x)
      /\ \A x : ~Owed(c, x)
      /\ \A x : Owed(c, x)' <=> x \in Route(tag, target)
  BY <1>0, <1>4 DEF Owed
<1>10. ASSUME NEW n \in DOMAIN frames' PROVE Accounted(n)'
  <2>1. CASE n \in DOMAIN frames
    BY <1>0, <1>3, <1>9, <2>1, FrameTyped
       DEF DeliveryInv, Accounted, Written, DataFrame
  <2>2. CASE n = N
    BY <1>0, <1>2, <1>3, <1>9, <2>2 DEF Accounted
  <2>. QED
    BY <1>3, <2>1, <2>2
<1>11. ASSUME NEW x \in Conns PROVE OnWire(x)'
  <2>. SUFFICES ASSUME NEW f \in Written(x), f.type = "Data"
                PROVE  (/\ f.n \in DOMAIN frames
                        /\ x \in frames[f.n].to
                        /\ cur[frames[f.n].from] = f.n =>
                             ~Owed(frames[f.n].from, x))'
    BY <1>0 DEF OnWire, Written
  <2>1. /\ f.n \in DOMAIN frames
        /\ x \in frames[f.n].to
        /\ cur[frames[f.n].from] = f.n => ~Owed(frames[f.n].from, x)
    BY DEF DeliveryInv, OnWire
  <2>. QED
    BY <1>0, <1>3, <1>4, <1>9, <2>1, FrameTyped
<1>12. \A x \in Conns : \A i \in DOMAIN wire[x] :
         wire[x][i].type = "Data" => wire[x][i].n \in DOMAIN frames
  BY DEF DeliveryInv, OnWire, Written
<1>13. InOrderAtMostOnce'
  BY <1>0, <1>3, <1>12 DEF DeliveryInv, InOrderAtMostOnce
<1>14. ASSUME NEW e \in Downstreams PROVE Dispatched(e)'
  BY <1>0, <1>3, <1>4, FrameTyped DEF DeliveryInv, Dispatched
<1>15. DispatchedOnce'
  BY <1>0, <1>3 DEF DeliveryInv, Dispatched, DispatchedOnce
<1>. QED
  BY <1>6, <1>7, <1>8, <1>10, <1>11, <1>13, <1>14, <1>15 DEF DeliveryInv

-----------------------------------------------------------------------------

\* No interleaving of the peers, the accept loop, closeServer and the handlers
\* breaks what DeliveryInv says of the frames under way.
THEOREM Delivery == Spec => [](TypeOK /\ HandlerOwnsEntries /\ DeliveryInv)
<1>1. Init => DeliveryInv
  BY InitDelivery
<1>2. TypeOK /\ HandlerOwnsEntries /\ DeliveryInv /\ [Next]_vars => DeliveryInv'
  <2>. SUFFICES ASSUME TypeOK, HandlerOwnsEntries, DeliveryInv, [Next]_vars
                PROVE  DeliveryInv'
    OBVIOUS
  <2>1. ASSUME NEW c \in Conns, handleFrame(c) PROVE DeliveryInv'
    BY <2>1, GetConnKeeps, WriteDataFrameKeeps, RoutingDoneKeeps,
       DispatchToKeeps, FrameDoneKeeps DEF handleFrame
  <2>2. ASSUME NEW c \in Conns, handleFrameConn(c) PROVE DeliveryInv'
    BY <2>1, <2>2, CalmHandler, CalmKeeps
  <2>3. CASE Environment
    BY <2>3, CalmEnvironment, CalmKeeps, ReadDataFrameKeeps
  <2>4. CASE Serve
    BY <2>4, CalmServe, CalmKeeps
  <2>5. CASE UNCHANGED vars
    <3>1. Calm
      BY <2>5, SameWireQuiet DEF vars, handlerVars, connectorVars, Calm
    <3>. QED
      BY <3>1, CalmKeeps
  <2>. QED
    BY <2>2, <2>3, <2>4, <2>5 DEF Next
<1>. QED
  BY <1>1, <1>2, Ownership, PTL DEF Spec

\* A stream function that was sent its ack is found by Route under each of its
\* tags, with its target and without one, and its connection is in the connector
\* while that is open (server.go handshake and handleFrameConn).
THEOREM AckMeansRouted == Spec => []AckedIsRouted
<1>1. TypeOK /\ HandlerOwnsEntries /\ DeliveryInv => AckedIsRouted
  <2>. SUFFICES ASSUME TypeOK, HandlerOwnsEntries, DeliveryInv,
                       NEW c \in Conns,
                       Ack \in Written(c), IsSfn(c),
                       pc[c] \notin {"unstore", "gone"}, srv # "down"
                PROVE  /\ \A t \in TagsOf(hf[c]) : /\ c \in Route(t, NoTarget)
                                                   /\ c \in Route(t, hf[c].target)
                       /\ c \in connections \/ connectorDone
    BY DEF AckedIsRouted
  <2>1. pc[c] \in RoutedPc
    BY DEF DeliveryInv, AckedPassed, PassedPc
  <2>2. OwnsEntries(c)
    BY DEF HandlerOwnsEntries
  <2>. QED
    BY <2>1, <2>2 DEF OwnsEntries, RoutedPc, Route
<1>. QED
  BY <1>1, Delivery, PTL

\* A data frame reaches only stream functions that observe its tag and want its
\* target, however late the write comes (server.go routingDataFrame).
THEOREM ObserversOnly == Spec => []OnlyObserversReceive
<1>1. TypeOK /\ DeliveryInv => OnlyObserversReceive
  BY DEF DeliveryInv, OnWire, Written, Meant, OnlyObserversReceive
<1>. QED
  BY <1>1, Delivery, PTL

\* What one connection sends reaches another one at most once and in order,
\* although every handler writes to the stream (server.go routingDataFrame).
THEOREM OrderKept == Spec => []InOrderAtMostOnce
<1>1. DeliveryInv => InOrderAtMostOnce
  BY DEF DeliveryInv
<1>. QED
  BY <1>1, Delivery, PTL

\* Once handleFrame has returned for a frame, everybody Route named has it on its
\* stream, except those that died or were removed meanwhile (server.go
\* routingDataFrame goes on after a miss or a failed write).
THEOREM EverybodyServed == Spec => []NothingLost
<1>1. TypeOK /\ DeliveryInv => NothingLost
  BY DEF DeliveryInv, Accounted, NothingLost
<1>. QED
  BY <1>1, Delivery, PTL

\* A downstream zipper gets a frame at most once, in order per sender, and none
\* that came from an upstream zipper (server.go dispatchToDownstreams).
THEOREM LoopProtection == Spec => []DispatchedOnce
<1>1. DeliveryInv => DispatchedOnce
  BY DEF DeliveryInv
<1>. QED
  BY <1>1, Delivery, PTL

-----------------------------------------------------------------------------
(***************************************************************************)
(* The refinement of PubSub.                                               *)
(***************************************************************************)

\* The deliveries PubSub sees.
Deliveries == {p \in (1 .. Len(frames)) \X Conns :
                 DataFrame(p[1]) \in Written(p[2])}

\* The subscriptions PubSub sees.
Subscriptions == [c \in Conns |-> {t \in Tags : c \in data[t]}]

\* A step that writes no data frame and reads none delivers nothing.
LEMMA SameDeliveries ==
  ASSUME QuietWire, UNCHANGED frames
  PROVE  Deliveries' = Deliveries
<1>1. ASSUME NEW c \in Conns, NEW n
      PROVE  DataFrame(n) \in Written(c)' <=> DataFrame(n) \in Written(c)
  BY DEF QuietWire, Written, DataFrame
<1>. QED
  BY <1>1 DEF Deliveries, DataFrame

\* If it leaves the router alone too, PubSub sees nothing.
LEMMA Unseen ==
  ASSUME QuietWire, UNCHANGED <<frames, routerVars>>
  PROVE  UNCHANGED Abstract!vars
BY SameDeliveries DEF Abstract!vars, Deliveries, routerVars

\* A stream function is subscribed when its route rule is added.
LEMMA AddSubscribes ==
  ASSUME TypeOK, HandlerOwnsEntries, NEW c \in Conns, addSfnRouteRule(c)
  PROVE  Abstract!Next \/ UNCHANGED Abstract!vars
<1>1. pc[c] = "adding" /\ UNCHANGED <<frames, wire, hf>>
  BY DEF addSfnRouteRule, routingVars
<1>2. QuietWire
  BY <1>1, SameWireQuiet
<1>3. CASE ~IsSfn(c)
  BY <1>1, <1>2, <1>3, Unseen DEF addSfnRouteRule
<1>4. CASE IsSfn(c)
  <2>1. hf[c] \in HandshakeFrames /\ targets[c] = NoTarget
        /\ \A t \in Tags : c \notin data[t]
    BY <1>1 DEF HandlerOwnsEntries, OwnsEntries, StoredPc, RoutedPc
  <2>2. PICK tags \in SUBSET Tags, target \in Targets \union {NoTarget} :
           tags = TagsOf(hf[c]) /\ target = hf[c].target
    BY <2>1, TagsOfHandshake, ZipperAssumption DEF Handshake
  <2>3. RouterAdd(c, tags, target)
    BY <1>4, <2>2 DEF addSfnRouteRule, RouterAdd
  <2>4. /\ targets \in [Conns -> Targets \union {NoTarget}]
        /\ data \in [Tags -> SUBSET Conns]
    BY DEF TypeOK, RouterTypeOK
  <2>5. targets' = [targets EXCEPT ![c] = target]
    BY <2>1, <2>3, <2>4 DEF RouterAdd
  <2>6. Subscriptions' = [Subscriptions EXCEPT ![c] = tags]
    <3>1. ASSUME NEW x \in Conns
          PROVE  {t \in Tags : x \in data'[t]} =
                   IF x = c THEN tags ELSE {t \in Tags : x \in data[t]}
      BY <2>1, <2>2, <2>3, <2>4 DEF RouterAdd
    <3>. QED
      BY <3>1 DEF Subscriptions
  <2>7. Subscriptions[c] = {}
    BY <2>1 DEF Subscriptions
  <2>8. Abstract!Subscribe(c, tags, target)
    BY <1>1, <1>2, <2>1, <2>5, <2>6, <2>7, SameDeliveries
       DEF Abstract!Subscribe, Subscriptions, Deliveries
  <2>. QED
    BY <2>2, <2>8 DEF Abstract!Next
<1>. QED
  BY <1>3, <1>4

\* A connection is unsubscribed when its handler takes the route away.
LEMMA LeaveUnsubscribes ==
  ASSUME TypeOK, NEW c \in Conns, LeaveRouter(c)
  PROVE  Abstract!Next \/ UNCHANGED Abstract!vars
<1>1. UNCHANGED <<frames, wire>>
  BY DEF LeaveRouter, routingVars
<1>2. QuietWire
  BY <1>1, SameWireQuiet
<1>3. CASE ~IsSfn(c)
  BY <1>1, <1>2, <1>3, Unseen DEF LeaveRouter
<1>4. CASE IsSfn(c)
  <2>1. /\ targets' = [targets EXCEPT ![c] = NoTarget]
        /\ data' = [t \in Tags |-> data[t] \ {c}]
    BY <1>4 DEF LeaveRouter, RouterRemove
  <2>2. /\ targets \in [Conns -> Targets \union {NoTarget}]
        /\ data \in [Tags -> SUBSET Conns]
    BY DEF TypeOK, RouterTypeOK
  <2>3. targets' = [x \in Conns |-> IF x \in {c} THEN NoTarget ELSE targets[x]]
    BY <2>1, <2>2
  <2>4. Subscriptions' =
          [x \in Conns |-> IF x \in {c} THEN {} ELSE Subscriptions[x]]
    BY <2>1, <2>2 DEF Subscriptions
  <2>5. Abstract!Unsubscribe({c})
    BY <1>1, <1>2, <2>3, <2>4, SameDeliveries
       DEF Abstract!Unsubscribe, Subscriptions, Deliveries
  <2>. QED
    BY <2>5 DEF Abstract!Next
<1>. QED
  BY <1>3, <1>4

\* All are when closeServer releases the router.
LEMMA ReleaseUnsubscribes ==
  ASSUME TypeOK, ReleaseRouter
  PROVE  Abstract!Next
<1>1. UNCHANGED <<frames, wire>>
  BY DEF ReleaseRouter, routingVars
<1>2. QuietWire
  BY <1>1, SameWireQuiet
<1>3. /\ targets' = [c \in Conns |-> NoTarget]
      /\ data' = [t \in Tags |-> {}]
  BY DEF ReleaseRouter, RouterRelease
<1>4. targets' = [c \in Conns |-> IF c \in Conns THEN NoTarget ELSE targets[c]]
  BY <1>3
<1>5. Subscriptions' =
        [c \in Conns |-> IF c \in Conns THEN {} ELSE Subscriptions[c]]
  BY <1>3 DEF Subscriptions
<1>6. Abstract!Unsubscribe(Conns)
  BY <1>1, <1>2, <1>4, <1>5, SameDeliveries
     DEF Abstract!Unsubscribe, Subscriptions, Deliveries
<1>. QED
  BY <1>6 DEF Abstract!Next

\* Reading a data frame publishes it to those whom Route finds.
LEMMA ReadPublishes ==
  ASSUME TypeOK, DeliveryInv, NEW c \in Conns, NEW tag \in Tags,
         NEW target \in Targets \union {NoTarget},
         ReadDataFrame(c, tag, target)
  PROVE  Abstract!Next
<1>1. /\ UNCHANGED <<targets, data, wire>>
      /\ frames' = Append(frames, [from |-> c, tag |-> tag, target |-> target,
                                   to |-> Route(tag, target)])
  BY DEF ReadDataFrame, routerVars
<1>2. Route(tag, target) =
        {x \in Conns : /\ tag \in {t \in Tags : x \in data[t]}
                       /\ target \in {NoTarget, targets[x]}}
  BY DEF Route, TypeOK, RouterTypeOK
<1>3. Abstract!Subscribers(tag, target) = Route(tag, target)
  BY <1>2 DEF Abstract!Subscribers
<1>4. Deliveries' = Deliveries
  <2>1. /\ Len(frames) \in Nat /\ DOMAIN frames = 1 .. Len(frames)
        /\ Len(frames') = Len(frames) + 1
    BY <1>1 DEF TypeOK
  <2>2. ASSUME NEW n \in 1 .. Len(frames'), NEW x \in Conns,
               DataFrame(n) \in Written(x)
        PROVE  n \in 1 .. Len(frames)
    BY <2>1, <2>2 DEF DeliveryInv, OnWire, DataFrame
  <2>3. \A x \in Conns : Written(x)' = Written(x)
    BY <1>1 DEF Written
  <2>4. 1 .. Len(frames) \subseteq 1 .. Len(frames')
    BY <2>1
  <2>. QED
    BY <2>2, <2>3, <2>4 DEF Deliveries, DataFrame
<1>5. Subscriptions' = Subscriptions
  BY <1>1 DEF Subscriptions
<1>6. Abstract!Publish(c, tag, target)
  BY <1>1, <1>3, <1>4, <1>5 DEF Abstract!Publish, Deliveries, Subscriptions
<1>. QED
  BY <1>6 DEF Abstract!Next

\* Writing a data frame delivers it, after everything older of its sender.
LEMMA WriteDelivers ==
  ASSUME TypeOK, DeliveryInv, NEW c \in Conns, WriteDataFrame(c)
  PROVE  Abstract!Next \/ UNCHANGED Abstract!vars
<1>. DEFINE d == toConn[c]
            n == cur[c]
<1>1. /\ UNCHANGED <<targets, data, frames>>
      /\ WriteFrame(d, DataFrame(n))
      /\ pc[c] = "write"
  BY DEF WriteDataFrame, routerVars
<1>2. /\ n \in DOMAIN frames /\ frames[n].from = c
      /\ d \in frames[n].to
      /\ \A m \in DOMAIN frames : frames[m].from = c => m <= n
      /\ Owed(c, d)
  BY <1>1 DEF DeliveryInv, InHand, BusyPc, Owed
<1>3. d \in Conns /\ n \in Nat /\ DataFrame(n) \in Frame
      /\ DOMAIN frames = 1 .. Len(frames)
  BY <1>2, FrameTyped DEF DataFrame, Frame, TypeOK
<1>. HIDE DEF d, n
<1>4. \A x \in Conns : Written(x)' =
         IF x = d /\ alive[d] THEN Written(x) \union {DataFrame(n)}
         ELSE Written(x)
  BY <1>1, <1>3, WriteWritten
<1>5. Subscriptions' = Subscriptions
  BY <1>1 DEF Subscriptions
<1>6. CASE ~alive[d]
  <2>1. Deliveries' = Deliveries
    BY <1>1, <1>4, <1>6 DEF Deliveries, DataFrame
  <2>. QED
    BY <1>1, <1>5, <2>1 DEF Abstract!vars, Deliveries, Subscriptions
<1>7. CASE alive[d]
  <2>1. Deliveries' = Deliveries \union {<<n, d>>}
    <3>1. ASSUME NEW m \in 1 .. Len(frames), NEW x \in Conns
          PROVE  DataFrame(m) \in Written(x)' <=>
                   DataFrame(m) \in Written(x) \/ (m = n /\ x = d)
      BY <1>4, <1>7 DEF DataFrame
    <3>. QED
      BY <1>1, <1>2, <1>3, <3>1 DEF Deliveries, DataFrame
  <2>2. ASSUME NEW m \in DOMAIN frames, <<m, d>> \in Deliveries,
               frames[m].from = frames[n].from
        PROVE  m < n
    <3>1. DataFrame(m) \in Written(d)
      BY <2>2 DEF Deliveries
    <3>2. m # n
      BY <1>2, <1>3, <3>1 DEF DeliveryInv, OnWire, DataFrame, n
    <3>. QED
      BY <1>2, <1>3, <2>2, <3>2, FrameTyped
  <2>3. Abstract!Deliver(n, d)
    BY <1>1, <1>2, <1>5, <2>1, <2>2
       DEF Abstract!Deliver, Deliveries, Subscriptions
  <2>. QED
    BY <1>2, <1>3, <2>3 DEF Abstract!Next
<1>. QED
  BY <1>6, <1>7

\* The zipper implements publish and subscribe: whatever the handlers, the accept
\* loop and closeServer interleave, a connection is subscribed and unsubscribed
\* at one moment, a frame goes to those who were subscribed when it was read, and
\* each gets the frames of one sender once and in order (server.go, router.go).
THEOREM Refinement == Spec => ImplementsPubSub
<1>1. Init => Abstract!Init
  <2>. SUFFICES ASSUME Init PROVE Abstract!Init
    OBVIOUS
  <2>1. /\ frames = <<>> /\ targets = [c \in Conns |-> NoTarget]
        /\ data = [t \in Tags |-> {}]
    BY DEF Init, RouterInit
  <2>2. Subscriptions = [c \in Conns |-> {}]
    BY <2>1 DEF Subscriptions
  <2>3. Deliveries = {}
    BY <2>1 DEF Deliveries
  <2>. QED
    BY <2>1, <2>2, <2>3 DEF Abstract!Init, Subscriptions, Deliveries
<1>2. TypeOK /\ HandlerOwnsEntries /\ DeliveryInv /\ [Next]_vars
        => [Abstract!Next]_(Abstract!vars)
  <2>. SUFFICES ASSUME TypeOK, HandlerOwnsEntries, DeliveryInv, [Next]_vars
                PROVE  Abstract!Next \/ UNCHANGED Abstract!vars
    OBVIOUS
  <2>1. CASE Calm /\ UNCHANGED routerVars
    BY <2>1, Unseen DEF Calm, routingVars
  <2>2. CASE wire' = wire /\ UNCHANGED <<frames, routerVars>>
    BY <2>2, Unseen, SameWireQuiet
  <2>3. ASSUME NEW c \in Conns, handleFrameConn(c)
        PROVE  Abstract!Next \/ UNCHANGED Abstract!vars
    <3>1. CASE handleFrame(c)
      BY <2>2, <3>1, WriteDelivers
         DEF handleFrame, GetConn, RoutingDone, DispatchTo, FrameDone
    <3>2. CASE Calm /\ (addSfnRouteRule(c) \/ LeaveRouter(c))
      BY <3>2, AddSubscribes, LeaveUnsubscribes
    <3>3. CASE Calm /\ UNCHANGED routerVars
      BY <2>1, <3>3
    <3>4. \/ addSfnRouteRule(c) \/ LeaveRouter(c) \/ handleFrame(c)
          \/ UNCHANGED routerVars
      BY <2>3 DEF handleFrameConn, handleFrame, HandshakeReadError, StoreConn,
                  AckHandshake, RegisterTag, StartServing, ReadError,
                  LeaveRegister, LeaveConnector
    <3>. QED
      BY <2>3, <3>1, <3>2, <3>3, <3>4, CalmHandler
  <2>4. CASE Environment
    <3>1. CASE Calm
      <4>1. UNCHANGED routerVars
        BY <2>4 DEF Environment, AcceptConn, Die, AcceptStream, AdmitHandshake,
                    RefuseHandshake, UnexpectedFirst, ReadDataFrame,
                    UnexpectedFrame, Close, DownstreamLeaves
      <4>. QED
        BY <2>1, <3>1, <4>1
    <3>. QED
      BY <2>4, <3>1, CalmEnvironment, ReadPublishes
  <2>5. CASE Serve
    <3>1. CASE ReleaseRouter
      BY <3>1, ReleaseUnsubscribes
    <3>2. CASE ~ReleaseRouter
      <4>1. UNCHANGED routerVars
        BY <2>5, <3>2 DEF Serve, AcceptError, CloseDownstream, DownstreamClosed,
                          DownstreamsClosed, CloseConnector, ClearConnector
      <4>. QED
        BY <2>1, <2>5, <4>1, CalmServe
    <3>. QED
      BY <3>1, <3>2
  <2>6. CASE UNCHANGED vars
    BY <2>2, <2>6 DEF vars, routingVars
  <2>. QED
    BY <2>3, <2>4, <2>5, <2>6 DEF Next
<1>. QED
  BY <1>1, <1>2, Delivery, PTL DEF Spec, ImplementsPubSub, Abstract!Spec
=============================================================================
