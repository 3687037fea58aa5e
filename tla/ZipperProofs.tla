---------------------------- MODULE ZipperProofs ----------------------------
(***************************************************************************)
(* Proofs about Zipper, for any number of connections, tags, targets,      *)
(* downstreams and frames.                                                 *)
(***************************************************************************)
EXTENDS Zipper, TLAPS

\* The initial state has the right types: every map is empty and every
\* handler has yet to start.
LEMMA InitTypeOK == Init => TypeOK
<1>. SUFFICES ASSUME Init PROVE TypeOK
  OBVIOUS
<1>1. RouterTypeOK /\ ConnectorTypeOK /\ RegisterTypeOK
  BY DEF Init, RouterInit, ConnectorInit, RegisterInit, RouterTypeOK,
         ConnectorTypeOK, RegisterTypeOK
<1>2. /\ srv \in SrvStates
      /\ accepting \in Conns \union {NoConn}
      /\ ctxDone \in BOOLEAN
      /\ downstream \in [Downstreams -> {"up", "left", "closed"}]
      /\ closing \subseteq Downstreams
      /\ pc \in [Conns -> PcStates]
      /\ alive \in [Conns -> BOOLEAN]
      /\ hf \in [Conns -> HandshakeFrames \union {NoHandshake}]
      /\ registered \in [Conns -> Nat]
  BY DEF Init, SrvStates, PcStates
<1>3. frames = <<>> /\ cur = [c \in Conns |-> 0]
  BY DEF Init
<1>4. /\ todo \in [Conns -> SUBSET Conns]
      /\ toConn \in [Conns -> Conns \union {NoConn}]
      /\ dsTodo \in [Conns -> SUBSET Downstreams]
  BY DEF Init
<1>5. /\ wire = [c \in Conns |-> <<>>]
      /\ dispatched = [d \in Downstreams |-> <<>>]
  BY DEF Init
<1>. QED
  BY <1>1, <1>2, <1>3, <1>4, <1>5 DEF TypeOK

\* Environment steps keep the types.
LEMMA TypeOKEnvironment ==
  ASSUME TypeOK, Environment
  PROVE  TypeOK'
<1>. USE DomainAssumption, ZipperAssumption
         DEF TypeOK, RouterTypeOK, ConnectorTypeOK, RegisterTypeOK,
             SrvStates, PcStates, downstreamVars
<1>1. ASSUME NEW c \in Conns, AcceptConn(c) PROVE TypeOK'
  BY <1>1 DEF AcceptConn, routerVars, connectorVars, routingVars
<1>2. ASSUME NEW c \in Conns, Die(c) PROVE TypeOK'
  BY <1>2 DEF Die, routerVars, connectorVars, acceptorVars, routingVars
<1>3. ASSUME NEW c \in Conns, AcceptStream(c) PROVE TypeOK'
  BY <1>3 DEF AcceptStream, routerVars, connectorVars, routingVars
<1>4. ASSUME NEW c \in Conns, NEW h \in HandshakeFrames, AdmitHandshake(c, h)
      PROVE  TypeOK'
  BY <1>4 DEF AdmitHandshake, routerVars, connectorVars, acceptorVars,
              routingVars
<1>5. ASSUME NEW c \in Conns, NEW h \in HandshakeFrames, RefuseHandshake(c, h)
      PROVE  TypeOK'
  BY <1>5 DEF RefuseHandshake, WriteFrame, Refusal, Rejected, ConnectTo,
              routerVars, connectorVars, acceptorVars, routingVars
<1>6. ASSUME NEW c \in Conns, UnexpectedFirst(c) PROVE TypeOK'
  BY <1>6 DEF UnexpectedFirst, WriteFrame, Rejected, routerVars,
              connectorVars, acceptorVars, routingVars
<1>7. ASSUME NEW c \in Conns, NEW tag \in Tags,
             NEW target \in Targets \union {NoTarget},
             ReadDataFrame(c, tag, target)
      PROVE  TypeOK'
  BY <1>7 DEF ReadDataFrame, Route, routerVars, connectorVars, acceptorVars
<1>8. ASSUME NEW c \in Conns, UnexpectedFrame(c) PROVE TypeOK'
  BY <1>8 DEF UnexpectedFrame, routerVars, connectorVars, acceptorVars,
              routingVars
<1>9. CASE Close
  BY <1>9 DEF Close, routerVars, handlerVars, routingVars
<1>10. ASSUME NEW d \in Downstreams, DownstreamLeaves(d) PROVE TypeOK'
  BY <1>10 DEF DownstreamLeaves, routerVars, connectorVars, handlerVars,
               routingVars
<1>. QED
  BY <1>1, <1>2, <1>3, <1>4, <1>5, <1>6, <1>7, <1>8, <1>9, <1>10
     DEF Environment

\* The steps of Serve and closeServer keep the types.
LEMMA TypeOKServe ==
  ASSUME TypeOK, Serve
  PROVE  TypeOK'
<1>. USE DEF TypeOK, RouterTypeOK, ConnectorTypeOK, RegisterTypeOK, SrvStates,
             PcStates, downstreamVars
<1>1. CASE AcceptError
  BY <1>1 DEF AcceptError, routerVars, connectorVars, routingVars
<1>2. CASE DownstreamsClosed
  BY <1>2 DEF DownstreamsClosed, routerVars, connectorVars, handlerVars,
              routingVars
<1>6. ASSUME NEW d \in Downstreams, CloseDownstream(d) PROVE TypeOK'
  BY <1>6 DEF CloseDownstream, routerVars, connectorVars, handlerVars,
              routingVars
<1>7. ASSUME NEW d \in Downstreams, DownstreamClosed(d) PROVE TypeOK'
  BY <1>7 DEF DownstreamClosed, routerVars, connectorVars, handlerVars,
              routingVars
<1>3. CASE CloseConnector
  BY <1>3 DEF CloseConnector, ConnectorCancel, routerVars, connectorVars,
              handlerVars, routingVars
<1>4. CASE ClearConnector
  BY <1>4 DEF ClearConnector, ConnectorClear, routerVars, handlerVars,
              routingVars
<1>5. CASE ReleaseRouter
  BY <1>5 DEF ReleaseRouter, RouterRelease, connectorVars, handlerVars,
              routingVars
<1>. QED
  BY <1>1, <1>2, <1>3, <1>4, <1>5, <1>6, <1>7 DEF Serve

\* A tag a handler registers is one of those in its handshake frame.
LEMMA RegisteredTag ==
  ASSUME TypeOK, NEW c \in Conns, hf[c] \in HandshakeFrames, MustRegister(c)
  PROVE  /\ hf[c].tags[registered[c] + 1] \in TagsOf(hf[c])
         /\ hf[c].tags[registered[c] + 1] \in Tags
<1>1. hf[c].tags \in Seq(Tags) /\ registered[c] \in Nat
  BY ZipperAssumption DEF TypeOK, Handshake
<1>2. registered[c] + 1 \in 1 .. Len(hf[c].tags)
  BY <1>1 DEF MustRegister
<1>. QED
  BY <1>1, <1>2 DEF TagsOf

\* The steps of a handler keep the types, provided that the handler of a stored
\* connection has its handshake frame.
LEMMA TypeOKHandler ==
  ASSUME TypeOK, HandlerOwnsEntries, NEW c \in Conns, handleFrameConn(c)
  PROVE  TypeOK'
<1>. USE DEF TypeOK, RouterTypeOK, ConnectorTypeOK, RegisterTypeOK, SrvStates,
             PcStates, downstreamVars
<1>1. CASE HandshakeReadError(c)
  BY <1>1 DEF HandshakeReadError, routerVars, connectorVars, acceptorVars,
              routingVars
<1>2. CASE StoreConn(c)
  BY <1>2 DEF StoreConn, ConnectorStore, routerVars, acceptorVars, routingVars
<1>3. CASE addSfnRouteRule(c)
  <2>1. hf[c] \in HandshakeFrames
    BY <1>3 DEF addSfnRouteRule, HandlerOwnsEntries, OwnsEntries, StoredPc
  <2>2. hf[c].target \in Targets \union {NoTarget}
    BY <2>1, ZipperAssumption DEF Handshake
  <2>3. RouterTypeOK'
    <3>1. CASE IsSfn(c)
      <4>. DEFINE wanted == hf[c].target
                  tags == TagsOf(hf[c])
      <4>1. /\ targets' = IF wanted = NoTarget THEN targets
                         ELSE [targets EXCEPT ![c] = wanted]
            /\ data' = [t \in Tags |-> IF t \in tags THEN data[t] \union {c}
                                      ELSE data[t]]
        BY <1>3, <3>1 DEF addSfnRouteRule, RouterAdd
      <4>2. wanted \in Targets \union {NoTarget}
        BY <2>2
      <4>. HIDE DEF wanted, tags
      <4>. QED
        BY <4>1, <4>2
    <3>2. CASE ~IsSfn(c)
      BY <1>3, <3>2 DEF addSfnRouteRule, routerVars
    <3>. QED
      BY <3>1, <3>2
  <2>. QED
    BY <1>3, <2>3 DEF addSfnRouteRule, connectorVars, acceptorVars,
                      routingVars
<1>4. CASE AckHandshake(c)
  BY <1>4 DEF AckHandshake, WriteFrame, Ack, routerVars, connectorVars,
              acceptorVars, routingVars
<1>5. CASE RegisterTag(c)
  <2>1. hf[c] \in HandshakeFrames
    BY <1>5 DEF RegisterTag, HandlerOwnsEntries, OwnsEntries, StoredPc
  <2>2. hf[c].tags[registered[c] + 1] \in Tags
    BY <1>5, <2>1, RegisteredTag DEF RegisterTag
  <2>. QED
    BY <1>5, <2>2 DEF RegisterTag, RegisterFunction, routerVars,
                      connectorVars, acceptorVars, routingVars
<1>6. CASE StartServing(c)
  BY <1>6 DEF StartServing, routerVars, connectorVars, acceptorVars,
              routingVars
<1>7. ASSUME NEW d \in Conns, GetConn(c, d) PROVE TypeOK'
  BY <1>7 DEF GetConn, routerVars, connectorVars, acceptorVars
<1>8. CASE WriteDataFrame(c)
  <2>. DEFINE Frame == [type : {"HandshakeAck", "Rejected", "ConnectTo",
                                "Data"}, n : Nat]
              d == toConn[c]
              f == DataFrame(cur[c])
  <2>2. wire' = IF alive[d] THEN [wire EXCEPT ![d] = Append(@, f)] ELSE wire
    BY <1>8 DEF WriteDataFrame, WriteFrame
  <2>3. wire \in [Conns -> Seq(Frame)] /\ f \in Frame
    BY DEF DataFrame
  <2>4. wire' \in [Conns -> Seq(Frame)]
    <3>1. ASSUME NEW x \in Conns PROVE Append(wire[x], f) \in Seq(Frame)
      BY <2>3
    <3>2. CASE wire' = [wire EXCEPT ![d] = Append(@, f)]
      <4>. HIDE DEF Frame, d, f
      <4>1. wire' = [x \in Conns |-> IF x = d THEN Append(wire[x], f)
                                     ELSE wire[x]]
        BY <2>3, <3>2
      <4>. QED
        BY <2>3, <3>1, <4>1
    <3>. QED
      BY <2>2, <2>3, <3>2
  <2>1. wire' \in [Conns -> Seq([type : {"HandshakeAck", "Rejected",
                                        "ConnectTo", "Data"}, n : Nat])]
    BY <2>4
  <2>. QED
    BY <1>8, <2>1 DEF WriteDataFrame, routerVars, connectorVars, acceptorVars
<1>9. CASE RoutingDone(c)
  BY <1>9 DEF RoutingDone, routerVars, connectorVars, acceptorVars
<1>10. ASSUME NEW d \in Downstreams, DispatchTo(c, d) PROVE TypeOK'
  <2>1. dispatched' \in [Downstreams -> Seq(Nat)]
    <3>1. CASE UNCHANGED dispatched
      BY <3>1
    <3>2. CASE dispatched' = [dispatched EXCEPT ![d] = Append(@, cur[c])]
      <4>1. cur[c] \in Nat /\ dispatched \in [Downstreams -> Seq(Nat)]
        OBVIOUS
      <4>. QED
        BY <3>2, <4>1
    <3>. QED
      BY <1>10, <3>1, <3>2 DEF DispatchTo
  <2>2. dsTodo' \in [Conns -> SUBSET Downstreams]
    BY <1>10 DEF DispatchTo
  <2>. QED
    BY <1>10, <2>1, <2>2 DEF DispatchTo, routerVars, connectorVars,
                             acceptorVars, handlerVars
<1>11. CASE FrameDone(c)
  BY <1>11 DEF FrameDone, routerVars, connectorVars, acceptorVars
<1>12. CASE ReadError(c)
  BY <1>12 DEF ReadError, routerVars, connectorVars, acceptorVars, routingVars
<1>13. CASE LeaveRegister(c)
  BY <1>13 DEF LeaveRegister, UnregisterFunction, routerVars, connectorVars,
               acceptorVars, routingVars
<1>14. CASE LeaveRouter(c)
  <2>1. RouterTypeOK'
    <3>1. CASE IsSfn(c)
      <4>1. /\ targets' = [targets EXCEPT ![c] = NoTarget]
            /\ data' = [t \in Tags |-> data[t] \ {c}]
        BY <1>14, <3>1 DEF LeaveRouter, RouterRemove
      <4>. QED
        BY <4>1
    <3>2. CASE ~IsSfn(c)
      BY <1>14, <3>2 DEF LeaveRouter, routerVars
    <3>. QED
      BY <3>1, <3>2
  <2>. QED
    BY <1>14, <2>1 DEF LeaveRouter, connectorVars, acceptorVars, routingVars
<1>15. CASE LeaveConnector(c)
  BY <1>15 DEF LeaveConnector, ConnectorRemove, routerVars, acceptorVars,
               routingVars
<1>. QED
  BY <1>1, <1>2, <1>3, <1>4, <1>5, <1>6, <1>7, <1>8, <1>9, <1>10, <1>11,
     <1>12, <1>13, <1>14, <1>15 DEF handleFrameConn

-----------------------------------------------------------------------------

\* The tags of a handshake frame are tags.
LEMMA TagsOfHandshake ==
  ASSUME NEW h \in HandshakeFrames
  PROVE  TagsOf(h) \subseteq Tags
BY ZipperAssumption DEF TagsOf, Handshake

\* Nothing in the step takes away what the handler of x relies on.
Undisturbed(x) ==
  /\ hf'[x] = hf[x]
  /\ pc'[x] \in StoredPc \union {"storing"} =>
        pc[x] \in StoredPc \union {"storing"}
  /\ pc'[x] \in StoredPc <=> pc[x] \in StoredPc
  /\ pc'[x] \in RoutedPc <=> pc[x] \in RoutedPc
  /\ pc[x] \in RegisteredPc => pc'[x] \in RegisteredPc
  /\ targets'[x] = targets[x]
  /\ functions'[x] = functions[x]
  /\ \A t \in Tags : x \in data'[t] <=> x \in data[t]
  /\ x \in connections => x \in connections' \/ connectorDone'
  /\ x \in connections' => x \in connections \/ connectorDone'
  /\ connectorDone => connectorDone'
  /\ srv = "down" => srv' = "down"

LEMMA UndisturbedOwns ==
  ASSUME NEW x \in Conns, OwnsEntries(x), Undisturbed(x)
  PROVE  OwnsEntries(x)'
<1>1. pc[x] \in RoutedPc => TagsOf(hf[x]) \subseteq Tags
  BY TagsOfHandshake DEF OwnsEntries, RoutedPc
<1>2. /\ (pc[x] \in StoredPc \union {"storing"} => hf[x] \in HandshakeFrames)'
      /\ (pc[x] \in StoredPc => x \in connections \/ connectorDone)'
      /\ (x \in connections => pc[x] \in StoredPc \/ connectorDone)'
  BY DEF OwnsEntries, Undisturbed
<1>3. /\ (targets[x] # NoTarget =>
            pc[x] \in RoutedPc /\ IsSfn(x) /\ targets[x] = hf[x].target)'
      /\ (\A t \in Tags : x \in data[t] =>
            pc[x] \in RoutedPc /\ IsSfn(x) /\ t \in TagsOf(hf[x]))'
      /\ (functions[x] # NoTag =>
            /\ pc[x] \in RegisteredPc
            /\ IsSfn(x)
            /\ HasDefinition(x)
            /\ functions[x] \in TagsOf(hf[x]))'
  BY DEF OwnsEntries, Undisturbed, IsSfn, HasDefinition, TagsOf
<1>4. (srv # "down" /\ pc[x] \in RoutedPc /\ IsSfn(x) =>
            /\ targets[x] = hf[x].target
            /\ \A t \in TagsOf(hf[x]) : x \in data[t])'
  BY <1>1 DEF OwnsEntries, Undisturbed, IsSfn, TagsOf
<1>. QED
  BY <1>2, <1>3, <1>4 DEF OwnsEntries

\* Nothing is stored, routed or registered at the start.
LEMMA InitOwns == Init => HandlerOwnsEntries
<1>. SUFFICES ASSUME Init PROVE HandlerOwnsEntries
  OBVIOUS
<1>1. srv # "clearConnector" /\ accepting \notin Conns
  BY ZipperAssumption DEF Init
<1>2. ASSUME NEW c \in Conns PROVE OwnsEntries(c)
  BY DEF Init, RouterInit, ConnectorInit, RegisterInit, OwnsEntries,
         StoredPc, RoutedPc, RegisteredPc
<1>. QED
  BY <1>1, <1>2 DEF HandlerOwnsEntries

\* Only the handshake of the connection itself matters to what its handler owns
\* (AdmitHandshake), and Close only ends the connector.
LEMMA OwnsEnvironment ==
  ASSUME TypeOK, HandlerOwnsEntries, Environment
  PROVE  HandlerOwnsEntries'
<1>. USE DEF TypeOK, RouterTypeOK, ConnectorTypeOK, RegisterTypeOK
<1>0. /\ srv = "clearConnector" => connectorDone
      /\ accepting \in Conns => pc[accepting] = "accepting"
      /\ \A x \in Conns : OwnsEntries(x)
  BY DEF HandlerOwnsEntries
<1>. SUFFICES /\ (srv = "clearConnector" => connectorDone)'
              /\ (accepting \in Conns => pc[accepting] = "accepting")'
              /\ \A x \in Conns : OwnsEntries(x)'
  BY DEF HandlerOwnsEntries
<1>1. ASSUME NEW c \in Conns, AcceptConn(c)
      PROVE  /\ (srv = "clearConnector" => connectorDone)'
             /\ (accepting \in Conns => pc[accepting] = "accepting")'
             /\ \A x \in Conns : Undisturbed(x)
  BY <1>0, <1>1 DEF AcceptConn, Undisturbed, routerVars, connectorVars,
                    StoredPc, RoutedPc, RegisteredPc
<1>2. ASSUME NEW c \in Conns, Die(c)
      PROVE  /\ (srv = "clearConnector" => connectorDone)'
             /\ (accepting \in Conns => pc[accepting] = "accepting")'
             /\ \A x \in Conns : Undisturbed(x)
  BY <1>0, <1>2 DEF Die, Undisturbed, routerVars, connectorVars, acceptorVars
<1>3. ASSUME NEW c \in Conns, AcceptStream(c)
      PROVE  /\ (srv = "clearConnector" => connectorDone)'
             /\ (accepting \in Conns => pc[accepting] = "accepting")'
             /\ \A x \in Conns : Undisturbed(x)
  BY <1>0, <1>3, ZipperAssumption
     DEF AcceptStream, Undisturbed, routerVars, connectorVars, StoredPc,
         RoutedPc, RegisteredPc
<1>4. ASSUME NEW c \in Conns, NEW h \in HandshakeFrames, AdmitHandshake(c, h)
      PROVE  /\ (srv = "clearConnector" => connectorDone)'
             /\ (accepting \in Conns => pc[accepting] = "accepting")'
             /\ \A x \in Conns : OwnsEntries(x)'
  <2>1. /\ pc[c] = "handshake"
        /\ pc' = [pc EXCEPT ![c] = "storing"]
        /\ hf' = [hf EXCEPT ![c] = h]
        /\ UNCHANGED <<routerVars, connectorVars, functions, acceptorVars>>
    BY <1>4 DEF AdmitHandshake
  <2>2. \A x \in Conns \ {c} : Undisturbed(x)
    BY <2>1 DEF Undisturbed, routerVars, connectorVars, acceptorVars
  <2>3. OwnsEntries(c)'
    BY <1>0, <2>1 DEF OwnsEntries, routerVars, connectorVars, acceptorVars,
                      StoredPc, RoutedPc, RegisteredPc
  <2>4. /\ (srv = "clearConnector" => connectorDone)'
        /\ (accepting \in Conns => pc[accepting] = "accepting")'
    BY <1>0, <2>1 DEF connectorVars, acceptorVars
  <2>. QED
    BY <1>0, <2>2, <2>3, <2>4, UndisturbedOwns
<1>9. ASSUME NEW c \in Conns, NEW h \in HandshakeFrames, RefuseHandshake(c, h)
      PROVE  /\ (srv = "clearConnector" => connectorDone)'
             /\ (accepting \in Conns => pc[accepting] = "accepting")'
             /\ \A x \in Conns : Undisturbed(x)
  BY <1>0, <1>9 DEF RefuseHandshake, Undisturbed, routerVars, connectorVars,
                    acceptorVars, StoredPc, RoutedPc, RegisteredPc
<1>5. ASSUME NEW c \in Conns, UnexpectedFirst(c)
      PROVE  /\ (srv = "clearConnector" => connectorDone)'
             /\ (accepting \in Conns => pc[accepting] = "accepting")'
             /\ \A x \in Conns : Undisturbed(x)
  BY <1>0, <1>5 DEF UnexpectedFirst, Undisturbed, routerVars, connectorVars,
                    acceptorVars, StoredPc, RoutedPc, RegisteredPc
<1>6. ASSUME NEW c \in Conns, NEW tag \in Tags,
             NEW target \in Targets \union {NoTarget},
             ReadDataFrame(c, tag, target)
      PROVE  /\ (srv = "clearConnector" => connectorDone)'
             /\ (accepting \in Conns => pc[accepting] = "accepting")'
             /\ \A x \in Conns : Undisturbed(x)
  BY <1>0, <1>6 DEF ReadDataFrame, Undisturbed, routerVars, connectorVars,
                    acceptorVars, StoredPc, RoutedPc, RegisteredPc
<1>7. ASSUME NEW c \in Conns, UnexpectedFrame(c)
      PROVE  /\ (srv = "clearConnector" => connectorDone)'
             /\ (accepting \in Conns => pc[accepting] = "accepting")'
             /\ \A x \in Conns : Undisturbed(x)
  BY <1>0, <1>7 DEF UnexpectedFrame, Undisturbed, routerVars, connectorVars,
                    acceptorVars, StoredPc, RoutedPc, RegisteredPc
<1>8. ASSUME Close
      PROVE  /\ (srv = "clearConnector" => connectorDone)'
             /\ (accepting \in Conns => pc[accepting] = "accepting")'
             /\ \A x \in Conns : Undisturbed(x)
  BY <1>0, <1>8 DEF Close, Undisturbed, routerVars, handlerVars
<1>10. ASSUME NEW d \in Downstreams, DownstreamLeaves(d)
       PROVE  /\ (srv = "clearConnector" => connectorDone)'
              /\ (accepting \in Conns => pc[accepting] = "accepting")'
              /\ \A x \in Conns : Undisturbed(x)
  BY <1>0, <1>10 DEF DownstreamLeaves, Undisturbed, routerVars, connectorVars,
                     handlerVars
<1>. QED
  BY <1>0, <1>1, <1>2, <1>3, <1>4, <1>5, <1>6, <1>7, <1>8, <1>9, <1>10,
     UndisturbedOwns DEF Environment

\* closeServer ends the connector before it clears it, and the router is emptied
\* in the step that takes the server down.
LEMMA OwnsServe ==
  ASSUME TypeOK, HandlerOwnsEntries, Serve
  PROVE  HandlerOwnsEntries'
<1>. USE DEF TypeOK, RouterTypeOK, ConnectorTypeOK, RegisterTypeOK
<1>0. /\ srv = "clearConnector" => connectorDone
      /\ accepting \in Conns => pc[accepting] = "accepting"
      /\ \A x \in Conns : OwnsEntries(x)
  BY DEF HandlerOwnsEntries
<1>. SUFFICES /\ (srv = "clearConnector" => connectorDone)'
              /\ (accepting \in Conns => pc[accepting] = "accepting")'
              /\ \A x \in Conns : OwnsEntries(x)'
  BY DEF HandlerOwnsEntries
<1>1. ASSUME AcceptError
      PROVE  /\ (srv = "clearConnector" => connectorDone)'
             /\ (accepting \in Conns => pc[accepting] = "accepting")'
             /\ \A x \in Conns : Undisturbed(x)
  BY <1>0, <1>1, ZipperAssumption
     DEF AcceptError, Undisturbed, routerVars, connectorVars, StoredPc,
         RoutedPc, RegisteredPc
<1>2. ASSUME DownstreamsClosed
             \/ \E d \in Downstreams : CloseDownstream(d) \/ DownstreamClosed(d)
      PROVE  /\ (srv = "clearConnector" => connectorDone)'
             /\ (accepting \in Conns => pc[accepting] = "accepting")'
             /\ \A x \in Conns : Undisturbed(x)
  BY <1>0, <1>2 DEF DownstreamsClosed, CloseDownstream, DownstreamClosed,
                    Undisturbed, routerVars, connectorVars, handlerVars
<1>3. ASSUME CloseConnector
      PROVE  /\ (srv = "clearConnector" => connectorDone)'
             /\ (accepting \in Conns => pc[accepting] = "accepting")'
             /\ \A x \in Conns : Undisturbed(x)
  BY <1>0, <1>3 DEF CloseConnector, ConnectorCancel, Undisturbed, routerVars,
                    connectorVars, handlerVars
<1>4. ASSUME ClearConnector
      PROVE  /\ (srv = "clearConnector" => connectorDone)'
             /\ (accepting \in Conns => pc[accepting] = "accepting")'
             /\ \A x \in Conns : Undisturbed(x)
  BY <1>0, <1>4 DEF ClearConnector, ConnectorClear, Undisturbed, routerVars,
                    handlerVars
<1>5. ASSUME ReleaseRouter
      PROVE  /\ (srv = "clearConnector" => connectorDone)'
             /\ (accepting \in Conns => pc[accepting] = "accepting")'
             /\ \A x \in Conns : OwnsEntries(x)'
  <2>1. /\ srv' = "down"
        /\ targets' = [c \in Conns |-> NoTarget]
        /\ data' = [t \in Tags |-> {}]
        /\ UNCHANGED <<pc, hf, connections, connectorDone, functions, accepting>>
    BY <1>5 DEF ReleaseRouter, RouterRelease, connectorVars, handlerVars
  <2>2. ASSUME NEW x \in Conns PROVE OwnsEntries(x)'
    BY <1>0, <2>1 DEF OwnsEntries, IsSfn, HasDefinition, TagsOf
  <2>. QED
    BY <1>0, <2>1, <2>2
<1>. QED
  BY <1>0, <1>1, <1>2, <1>3, <1>4, <1>5, UndisturbedOwns DEF Serve

\* The steps of the handler of c leave every other connection undisturbed; those
\* that work on the maps are the ones that change what c owns.
LEMMA OwnsHandler ==
  ASSUME TypeOK, HandlerOwnsEntries, NEW c \in Conns, handleFrameConn(c)
  PROVE  HandlerOwnsEntries'
<1>. USE DEF TypeOK, RouterTypeOK, ConnectorTypeOK, RegisterTypeOK
<1>0. /\ srv = "clearConnector" => connectorDone
      /\ accepting \in Conns => pc[accepting] = "accepting"
      /\ OwnsEntries(c)
      /\ \A x \in Conns : OwnsEntries(x)
  BY DEF HandlerOwnsEntries
<1>1. UNCHANGED <<acceptorVars, hf, connectorDone>>
  BY DEF handleFrameConn, HandshakeReadError, StoreConn, ConnectorStore,
         addSfnRouteRule, AckHandshake, RegisterTag, StartServing, GetConn,
         WriteDataFrame, RoutingDone, DispatchTo, FrameDone, ReadError,
         LeaveRegister, LeaveRouter, LeaveConnector, ConnectorRemove,
         connectorVars, handlerVars
<1>2. \A x \in Conns \ {c} : pc'[x] = pc[x]
  BY DEF handleFrameConn, HandshakeReadError, StoreConn, addSfnRouteRule,
         AckHandshake, RegisterTag, StartServing, GetConn, WriteDataFrame,
         RoutingDone, DispatchTo, FrameDone, ReadError, LeaveRegister,
         LeaveRouter, LeaveConnector, handlerVars
<1>3. pc[c] # "accepting"
  BY DEF handleFrameConn, HandshakeReadError, StoreConn, addSfnRouteRule,
         AckHandshake, RegisterTag, StartServing, GetConn, WriteDataFrame,
         RoutingDone, DispatchTo, FrameDone, ReadError, LeaveRegister,
         LeaveRouter, LeaveConnector
<1>4. /\ (srv = "clearConnector" => connectorDone)'
      /\ (accepting \in Conns => pc[accepting] = "accepting")'
  BY <1>0, <1>1, <1>2, <1>3 DEF acceptorVars
<1>5. \A x \in Conns \ {c} : OwnsEntries(x)'
  <2>. SUFFICES ASSUME NEW x \in Conns \ {c} PROVE Undisturbed(x)
    BY <1>0, UndisturbedOwns
  <2>1. /\ targets'[x] = targets[x]
        /\ \A t \in Tags : x \in data'[t] <=> x \in data[t]
    <3>1. CASE addSfnRouteRule(c)
      <4>1. UNCHANGED routerVars
            \/ \E tags, wanted : RouterAdd(c, tags, wanted)
        BY <3>1 DEF addSfnRouteRule
      <4>2. ASSUME NEW tags, NEW wanted, RouterAdd(c, tags, wanted)
            PROVE  /\ targets'[x] = targets[x]
                   /\ \A t \in Tags : x \in data'[t] <=> x \in data[t]
        <5>1. targets'[x] = targets[x]
          BY <4>2 DEF RouterAdd
        <5>2. ASSUME NEW t \in Tags PROVE x \in data'[t] <=> x \in data[t]
          BY <4>2 DEF RouterAdd
        <5>. QED
          BY <5>1, <5>2
      <4>. QED
        BY <4>1, <4>2 DEF routerVars
    <3>2. CASE LeaveRouter(c)
      BY <3>2 DEF LeaveRouter, RouterRemove, routerVars
    <3>3. CASE UNCHANGED routerVars
      BY <3>3 DEF routerVars
    <3>. QED
      BY <3>1, <3>2, <3>3
         DEF handleFrameConn, HandshakeReadError, StoreConn, AckHandshake,
             RegisterTag, StartServing, GetConn, WriteDataFrame, RoutingDone,
             DispatchTo, FrameDone, ReadError, LeaveRegister, LeaveConnector
  <2>2. functions'[x] = functions[x]
    BY DEF handleFrameConn, HandshakeReadError, StoreConn, addSfnRouteRule,
           AckHandshake, RegisterTag, RegisterFunction, StartServing, GetConn,
           WriteDataFrame, RoutingDone, DispatchTo, FrameDone, ReadError,
           LeaveRegister, UnregisterFunction, LeaveRouter, LeaveConnector
  <2>3. x \in connections' <=> x \in connections
    BY DEF handleFrameConn, HandshakeReadError, StoreConn, ConnectorStore,
           addSfnRouteRule, AckHandshake, RegisterTag, StartServing, GetConn,
           WriteDataFrame, RoutingDone, DispatchTo, FrameDone, ReadError,
           LeaveRegister, LeaveRouter, LeaveConnector, ConnectorRemove,
           connectorVars
  <2>. QED
    BY <1>1, <1>2, <2>1, <2>2, <2>3 DEF Undisturbed, acceptorVars
<1>6. OwnsEntries(c)'
  <2>1. CASE \/ HandshakeReadError(c)
             \/ AckHandshake(c)
             \/ StartServing(c)
             \/ \E d \in Conns : GetConn(c, d)
             \/ WriteDataFrame(c)
             \/ RoutingDone(c)
             \/ \E d \in Downstreams : DispatchTo(c, d)
             \/ FrameDone(c)
             \/ ReadError(c)
    <3>1. UNCHANGED <<routerVars, connectorVars, functions>>
      BY <2>1 DEF HandshakeReadError, AckHandshake, StartServing, GetConn,
                  WriteDataFrame, RoutingDone, DispatchTo, FrameDone, ReadError
    <3>2. /\ pc'[c] \in StoredPc \union {"storing"} =>
                pc[c] \in StoredPc \union {"storing"}
          /\ pc'[c] \in StoredPc <=> pc[c] \in StoredPc
          /\ pc'[c] \in RoutedPc <=> pc[c] \in RoutedPc
          /\ pc[c] \in RegisteredPc => pc'[c] \in RegisteredPc
      BY <2>1 DEF HandshakeReadError, AckHandshake, StartServing, GetConn,
                  WriteDataFrame, RoutingDone, DispatchTo, FrameDone,
                  ReadError, handlerVars, StoredPc, RoutedPc, RegisteredPc
    <3>3. Undisturbed(c)
      BY <1>1, <3>1, <3>2 DEF Undisturbed, routerVars, connectorVars,
                              acceptorVars
    <3>. QED
      BY <1>0, <3>3, UndisturbedOwns
  <2>2. CASE StoreConn(c)
    BY <1>0, <1>1, <2>2
       DEF StoreConn, ConnectorStore, OwnsEntries, IsSfn, HasDefinition,
           routerVars, StoredPc, RoutedPc, RegisteredPc
  <2>3. CASE addSfnRouteRule(c)
    <3>1. pc[c] = "adding" /\ pc' = [pc EXCEPT ![c] = "acking"]
      BY <2>3 DEF addSfnRouteRule
    <3>2. /\ hf[c] \in HandshakeFrames
          /\ TagsOf(hf[c]) \subseteq Tags
          /\ targets[c] = NoTarget
          /\ \A t \in Tags : c \notin data[t]
          /\ functions[c] = NoTag
          /\ c \in connections \/ connectorDone
      BY <1>0, <3>1, TagsOfHandshake
         DEF OwnsEntries, StoredPc, RoutedPc, RegisteredPc
    <3>3. UNCHANGED <<connectorVars, functions>>
      BY <2>3 DEF addSfnRouteRule
    <3>4. CASE IsSfn(c)
      <4>1. RouterAdd(c, TagsOf(hf[c]), hf[c].target)
        BY <2>3, <3>4 DEF addSfnRouteRule
      <4>2. /\ targets'[c] = hf[c].target
            /\ \A t \in TagsOf(hf[c]) : c \in data'[t]
        BY <3>2, <4>1 DEF RouterAdd
      <4>3. \A t \in Tags : c \in data'[t] => t \in TagsOf(hf[c])
        <5>1. ASSUME NEW tags, RouterAdd(c, tags, hf[c].target)
              PROVE  \A t \in Tags : c \in data'[t] => t \in tags
          BY <3>2, <5>1 DEF RouterAdd
        <5>. QED
          BY <4>1, <5>1
      <4>. QED
        BY <1>1, <3>1, <3>2, <3>3, <3>4, <4>2, <4>3
           DEF OwnsEntries, IsSfn, TagsOf, connectorVars, StoredPc, RoutedPc,
               RegisteredPc
    <3>5. CASE ~IsSfn(c)
      <4>1. UNCHANGED routerVars
        BY <2>3, <3>5 DEF addSfnRouteRule
      <4>. QED
        BY <1>1, <3>1, <3>2, <3>3, <3>5, <4>1
           DEF OwnsEntries, IsSfn, connectorVars, routerVars, StoredPc,
               RoutedPc, RegisteredPc
    <3>. QED
      BY <3>4, <3>5
  <2>4. CASE RegisterTag(c)
    <3>1. /\ pc[c] = "registering" /\ UNCHANGED pc
          /\ MustRegister(c)
          /\ functions'[c] = hf[c].tags[registered[c] + 1]
          /\ UNCHANGED <<routerVars, connectorVars>>
      BY <2>4 DEF RegisterTag, RegisterFunction
    <3>2. hf[c] \in HandshakeFrames
      BY <1>0, <3>1 DEF OwnsEntries, StoredPc
    <3>3. hf[c].tags[registered[c] + 1] \in TagsOf(hf[c])
      BY <3>1, <3>2, RegisteredTag
    <3>4. IsSfn(c) /\ HasDefinition(c)
      BY <3>1 DEF MustRegister, HasDefinition
    <3>5. /\ srv' = srv /\ hf' = hf /\ connectorDone' = connectorDone
          /\ connections' = connections /\ targets' = targets /\ data' = data
          /\ pc' = pc
      BY <1>1, <3>1 DEF acceptorVars, routerVars, connectorVars
    <3>. HIDE DEF TypeOK, RouterTypeOK, ConnectorTypeOK, RegisterTypeOK
    <3>. QED
      BY <1>0, <3>1, <3>3, <3>4, <3>5
         DEF OwnsEntries, IsSfn, HasDefinition, TagsOf, RegisteredPc, RoutedPc,
             StoredPc
  <2>5. CASE LeaveRegister(c)
    <3>1. /\ pc[c] = "unregister" /\ pc'[c] = "unroute"
          /\ UNCHANGED <<routerVars, connectorVars>>
      BY <2>5 DEF LeaveRegister
    <3>2. functions'[c] = NoTag
      BY <1>0, <2>5 DEF LeaveRegister, UnregisterFunction, OwnsEntries
    <3>. QED
      BY <1>0, <1>1, <3>1, <3>2
         DEF OwnsEntries, IsSfn, TagsOf, routerVars, connectorVars,
             acceptorVars, RegisteredPc, RoutedPc, StoredPc
  <2>6. CASE LeaveRouter(c)
    <3>1. /\ pc[c] = "unroute" /\ pc'[c] = "unstore"
          /\ UNCHANGED <<functions, connectorVars>>
      BY <2>6 DEF LeaveRouter
    <3>2. /\ targets'[c] = NoTarget
          /\ \A t \in Tags : c \notin data'[t]
      BY <1>0, <2>6 DEF LeaveRouter, RouterRemove, OwnsEntries, routerVars
    <3>3. functions[c] = NoTag
      BY <1>0, <3>1 DEF OwnsEntries, RegisteredPc
    <3>. QED
      BY <1>0, <1>1, <3>1, <3>2, <3>3
         DEF OwnsEntries, connectorVars, RegisteredPc, RoutedPc, StoredPc
  <2>7. CASE LeaveConnector(c)
    <3>1. /\ pc[c] = "unstore" /\ pc'[c] = "gone"
          /\ UNCHANGED <<functions, routerVars>>
          /\ c \in connections' => connectorDone
      BY <2>7 DEF LeaveConnector, ConnectorRemove
    <3>. QED
      BY <1>0, <1>1, <3>1
         DEF OwnsEntries, routerVars, RegisteredPc, RoutedPc, StoredPc
  <2>. QED
    BY <2>1, <2>2, <2>3, <2>4, <2>5, <2>6, <2>7 DEF handleFrameConn
<1>. QED
  BY <1>4, <1>5, <1>6 DEF HandlerOwnsEntries

-----------------------------------------------------------------------------

\* A stuttering step changes nothing.
LEMMA StutterInv ==
  ASSUME TypeOK, HandlerOwnsEntries, UNCHANGED vars
  PROVE  TypeOK' /\ HandlerOwnsEntries'
<1>. USE DEF vars, routerVars, connectorVars, acceptorVars, handlerVars,
             routingVars, downstreamVars
<1>1. TypeOK'
  BY DEF TypeOK, RouterTypeOK, ConnectorTypeOK, RegisterTypeOK
<1>2. ASSUME NEW c \in Conns PROVE OwnsEntries(c)'
  BY DEF HandlerOwnsEntries, OwnsEntries, IsSfn, HasDefinition, TagsOf
<1>3. HandlerOwnsEntries'
  BY <1>2 DEF HandlerOwnsEntries
<1>. QED
  BY <1>1, <1>3

\* No interleaving of the accept loop, closeServer and the handlers breaks the
\* types or the ownership of the entries.
THEOREM Ownership == Spec => [](TypeOK /\ HandlerOwnsEntries)
<1>1. Init => TypeOK /\ HandlerOwnsEntries
  BY InitTypeOK, InitOwns
<1>2. TypeOK /\ HandlerOwnsEntries /\ [Next]_vars
        => TypeOK' /\ HandlerOwnsEntries'
  BY TypeOKEnvironment, TypeOKServe, TypeOKHandler, OwnsEnvironment, OwnsServe,
     OwnsHandler, StutterInv DEF Next
<1>. QED
  BY <1>1, <1>2, PTL DEF Spec

\* Every reachable state has the right types (TypeOK of the routing run).
THEOREM TypeCorrect == Spec => []TypeOK
BY Ownership, PTL

\* What the register offers to the LLM is routed, and what the router returns is
\* in the connector, because each handler enters the three in one order and
\* leaves them in the opposite one (server.go handleFrameConn, ai.go
\* ConnMiddleware).
THEOREM LayersHold == Spec => []Layered
<1>1. TypeOK /\ HandlerOwnsEntries => Layered
  <2>. SUFFICES ASSUME TypeOK, HandlerOwnsEntries PROVE Layered
    OBVIOUS
  <2>0. \A c \in Conns : OwnsEntries(c)
    BY DEF HandlerOwnsEntries
  <2>1. RegisteredIsRouted
    <3>. SUFFICES ASSUME NEW c \in Conns, functions[c] # NoTag, srv # "down"
                  PROVE  c \in data[functions[c]]
      BY DEF RegisteredIsRouted
    <3>1. /\ pc[c] \in RegisteredPc
          /\ IsSfn(c)
          /\ functions[c] \in TagsOf(hf[c])
      BY <2>0 DEF OwnsEntries
    <3>. QED
      BY <2>0, <3>1 DEF OwnsEntries, RegisteredPc
  <2>2. RoutedIsConnected
    <3>. SUFFICES ASSUME NEW t \in Tags, ~connectorDone, NEW c \in data[t]
                  PROVE  c \in connections
      BY DEF RoutedIsConnected
    <3>1. c \in Conns
      BY DEF TypeOK, RouterTypeOK
    <3>. QED
      BY <2>0, <3>1 DEF OwnsEntries, RoutedPc
  <2>. QED
    BY <2>1, <2>2 DEF Layered
<1>. QED
  BY <1>1, Ownership, PTL

\* A handler that has returned, after a read error, an unexpected frame or a
\* refused handshake, leaves no entry of its connection in the register or the
\* router, and none in a connector that is still open (server.go
\* handleFrameConn).
THEOREM NothingLeftBehind == Spec => []GoneLeavesNothing
<1>1. TypeOK /\ HandlerOwnsEntries => GoneLeavesNothing
  <2>. SUFFICES ASSUME HandlerOwnsEntries, NEW c \in Conns, pc[c] \in Ended
                PROVE  /\ functions[c] = NoTag
                       /\ targets[c] = NoTarget
                       /\ \A t \in Tags : c \notin data[t]
                       /\ c \notin connections \/ connectorDone
    BY DEF GoneLeavesNothing
  <2>1. pc[c] \notin StoredPc
    BY DEF Ended, StoredPc
  <2>. QED
    BY <2>1 DEF HandlerOwnsEntries, OwnsEntries, RoutedPc, RegisteredPc
<1>. QED
  BY <1>1, Ownership, PTL
=============================================================================
