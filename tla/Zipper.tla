------------------------------- MODULE Zipper -------------------------------
(***************************************************************************)
(* The server side of YoMo, core/server.go with the QUIC listener, the     *)
(* connector, the router and the AI connection middleware it drives.       *)
(*                                                                         *)
(* One goroutine accepts connections (Serve); each accepted connection is  *)
(* handled by a goroutine of its own (handleFrameConn), which is the       *)
(* program counter pc[c]: handshake, store, route rule, ack, middleware,   *)
(* read loop, and the three removals on the way out.  Every data frame is  *)
(* routed by the goroutine of the connection it came from, so the          *)
(* goroutines meet in the router, the connector, the function register and *)
(* the streams they write to.                                              *)
(*                                                                         *)
(* The peers are the environment: they dial, open their stream, send any   *)
(* frame, read at their own pace and die at any time.                      *)
(***************************************************************************)
EXTENDS Router, Connector, Register, Integers, Sequences

CONSTANTS
    NoConn,             \* no connection
    HandshakeFrames,    \* the handshakes peers send
    NoHandshake,        \* no handshake frame yet
    Downstreams,        \* the downstream zippers added before Serve
    MaxFrames,          \* bound on the data frames peers send
    MayStop             \* the environment may make Serve or a downstream return

ClientTypes == {"StreamFunction", "Source", "UpstreamZipper"}

\* A handshake frame: who connects, what it observes (in the order of the
\* frame), the wanted target, whether it carries a function definition and
\* whether that is valid JSON, and how the server's version negotiation and
\* authentication judge it.  "none" is nil and also the empty definition that the
\* wire makes of nil (module FrameConn): the server stores that, it is no JSON
\* for the middleware, and the removal at the end finds nothing.
Handshake ==
    [type : ClientTypes, tags : Seq(Tags), target : Targets \union {NoTarget},
     def : {"none", "valid", "invalid"},
     version : {"ok", "reject", "connectTo"}, auth : BOOLEAN]

ASSUME ZipperAssumption ==
    /\ NoConn \notin Conns
    /\ NoHandshake \notin HandshakeFrames
    /\ HandshakeFrames \subseteq Handshake
    /\ MaxFrames \in Nat
    /\ MayStop \in BOOLEAN

VARIABLES
    srv,        \* control of Serve and closeServer
    accepting,  \* the connection whose stream Accept waits for
    ctxDone,    \* the server's context is cancelled (Server.Close was called)
    downstream, \* downstream -> whether its client is in use
    closing,    \* the downstream whose Close closeServer waits for, if any
    pc,         \* control of handleFrameConn(c)
    alive,      \* the QUIC connection is usable
    hf,         \* the handshake frame that was admitted
    registered, \* how many tags ConnMiddleware has registered
    frames,     \* every data frame read, with the result of Route
    cur,        \* the frame (its index) the goroutine works on, or 0
    todo,       \* connIDs of Route's result not looked at yet
    toConn,     \* the connection Get returned, about to be written to
    dsTodo,     \* downstreams the frame is still to be dispatched to
    wire,       \* connection -> every frame written to its stream
    dispatched  \* downstream -> the data frames its client accepted

downstreamVars == <<downstream, closing>>
acceptorVars == <<srv, accepting, ctxDone, downstreamVars>>
routingVars == <<frames, cur, todo, toConn, dsTodo>>
handlerVars == <<pc, alive, hf, registered>>
vars == <<routerVars, connectorVars, functions, acceptorVars, handlerVars,
          routingVars, wire, dispatched>>

Ack == [type |-> "HandshakeAck", n |-> 0]
Rejected == [type |-> "Rejected", n |-> 0]
ConnectTo == [type |-> "ConnectTo", n |-> 0]
DataFrame(n) == [type |-> "Data", n |-> n]

TagsOf(h) == {h.tags[i] : i \in 1 .. Len(h.tags)}
IsSfn(c) == hf[c].type = "StreamFunction"
HasDefinition(c) == hf[c].def # "none"

SrvStates == {"accept", "stream", "closeDownstreams", "closeConnector",
              "clearConnector", "release", "down"}

\* Before the handler starts; inside a handshake; serving; on the way out.
PcStates == {"none", "accepting",
             "handshake", "storing", "adding", "acking", "registering",
             "read", "deliver", "write", "dispatch",
             "unregister", "unroute", "unstore",
             "gone", "failed"}

TypeOK ==
    /\ RouterTypeOK
    /\ ConnectorTypeOK
    /\ RegisterTypeOK
    /\ srv \in SrvStates
    /\ accepting \in Conns \union {NoConn}
    /\ ctxDone \in BOOLEAN
    /\ downstream \in [Downstreams -> {"up", "left", "closed"}]
    /\ closing \subseteq Downstreams
    /\ pc \in [Conns -> PcStates]
    /\ alive \in [Conns -> BOOLEAN]
    /\ hf \in [Conns -> HandshakeFrames \union {NoHandshake}]
    /\ registered \in [Conns -> Nat]
    /\ frames \in Seq([from : Conns, tag : Tags,
                       target : Targets \union {NoTarget},
                       to : SUBSET Conns])
    /\ cur \in [Conns -> Nat]
    /\ todo \in [Conns -> SUBSET Conns]
    /\ toConn \in [Conns -> Conns \union {NoConn}]
    /\ dsTodo \in [Conns -> SUBSET Downstreams]
    /\ wire \in [Conns -> Seq([type : {"HandshakeAck", "Rejected",
                                       "ConnectTo", "Data"}, n : Nat])]
    /\ dispatched \in [Downstreams -> Seq(Nat)]

Init ==
    /\ RouterInit
    /\ ConnectorInit
    /\ RegisterInit
    /\ srv = "accept"
    /\ accepting = NoConn
    /\ ctxDone = FALSE
    /\ downstream = [d \in Downstreams |-> "up"]
    /\ closing = {}
    /\ pc = [c \in Conns |-> "none"]
    /\ alive = [c \in Conns |-> FALSE]
    /\ hf = [c \in Conns |-> NoHandshake]
    /\ registered = [c \in Conns |-> 0]
    /\ frames = <<>>
    /\ cur = [c \in Conns |-> 0]
    /\ todo = [c \in Conns |-> {}]
    /\ toConn = [c \in Conns |-> NoConn]
    /\ dsTodo = [c \in Conns |-> {}]
    /\ wire = [c \in Conns |-> <<>>]
    /\ dispatched = [d \in Downstreams |-> <<>>]

-----------------------------------------------------------------------------
(***************************************************************************)
(* The peers and the network.                                              *)
(***************************************************************************)

\* A write to a connection that died returns an error, which every caller on
\* this side ignores or logs.
WriteFrame(c, f) ==
    wire' = IF alive[c] THEN [wire EXCEPT ![c] = Append(@, f)] ELSE wire

\* The peer closes the connection, crashes or becomes unreachable.
Die(c) ==
    /\ alive[c]
    /\ pc[c] = "accepting" => MayStop
    /\ alive' = [alive EXCEPT ![c] = FALSE]
    /\ UNCHANGED <<routerVars, connectorVars, functions, acceptorVars, pc, hf,
                   registered, routingVars, wire, dispatched>>

-----------------------------------------------------------------------------
(***************************************************************************)
(* Serve: the accept loop, and closeServer, which it defers.               *)
(***************************************************************************)

\* Listener.Accept, first half: a peer's QUIC connection is established.
AcceptConn(c) ==
    /\ srv = "accept"
    /\ pc[c] = "none"
    /\ srv' = "stream"
    /\ accepting' = c
    /\ pc' = [pc EXCEPT ![c] = "accepting"]
    /\ alive' = [alive EXCEPT ![c] = TRUE]
    /\ UNCHANGED <<routerVars, connectorVars, functions, ctxDone,
                   downstreamVars, hf, registered, routingVars, wire, dispatched>>

\* Second half: the peer has opened its stream; the handler starts.
AcceptStream(c) ==
    /\ srv = "stream"
    /\ accepting = c
    /\ alive[c]
    /\ srv' = "accept"
    /\ accepting' = NoConn
    /\ pc' = [pc EXCEPT ![c] = "handshake"]
    /\ UNCHANGED <<routerVars, connectorVars, functions, ctxDone,
                   downstreamVars, alive, hf, registered, routingVars, wire, dispatched>>

\* Mutant: the wait for a stream does not look at the context.
AcceptErrorDeaf ==
    /\ \/ srv = "accept" /\ ctxDone
       \/ srv = "stream" /\ ~alive[accepting]
    /\ srv' = "closeDownstreams"
    /\ accepting' = NoConn
    /\ pc' = [c \in Conns |-> IF c = accepting THEN "failed" ELSE pc[c]]
    /\ UNCHANGED <<routerVars, connectorVars, functions, ctxDone,
                   downstreamVars, alive, hf, registered, routingVars, wire, dispatched>>

\* Accept returns an error, because the server's context was cancelled or
\* because the connection died before it opened a stream: Serve returns.
AcceptError ==
    /\ \/ srv = "accept" /\ ctxDone
       \/ srv = "stream" /\ (ctxDone \/ ~alive[accepting])
    /\ srv' = "closeDownstreams"
    /\ accepting' = NoConn
    /\ pc' = [c \in Conns |-> IF c = accepting THEN "failed" ELSE pc[c]]
    /\ UNCHANGED <<routerVars, connectorVars, functions, ctxDone,
                   downstreamVars, alive, hf, registered, routingVars, wire, dispatched>>

\* Server.Close: the context of a default connector is a child of the
\* server's, so it ends too.
Close ==
    /\ MayStop
    /\ ~ctxDone
    /\ ctxDone' = TRUE
    /\ connectorDone' = TRUE
    /\ UNCHANGED <<routerVars, connections, functions, srv, accepting,
                   downstreamVars, handlerVars, routingVars, wire, dispatched>>

\* The client of a downstream stops for good and will never return from Close:
\* the other zipper closed the connection or sent a Goaway (Client.CloseReturns).
\* Connections it loses otherwise it dials again.
DownstreamLeaves(d) ==
    /\ MayStop
    /\ downstream[d] = "up"
    /\ downstream' = [downstream EXCEPT ![d] = "left"]
    /\ UNCHANGED <<routerVars, connectorVars, functions, srv, accepting, ctxDone,
                   closing, handlerVars, routingVars, wire, dispatched>>

\* closeServer: ds.Close() of one downstream after the other, in any order ...
CloseDownstream(d) ==
    /\ srv = "closeDownstreams"
    /\ closing = {}
    /\ downstream[d] # "closed"
    /\ closing' = {d}
    /\ UNCHANGED <<routerVars, connectorVars, functions, srv, accepting, ctxDone,
                   downstream, handlerVars, routingVars, wire, dispatched>>

\* ... which returns when the loop of its client closes done or reConnect ...
DownstreamClosed(d) ==
    /\ d \in closing
    /\ downstream[d] = "up"
    /\ downstream' = [downstream EXCEPT ![d] = "closed"]
    /\ closing' = {}
    /\ UNCHANGED <<routerVars, connectorVars, functions, srv, accepting, ctxDone,
                   handlerVars, routingVars, wire, dispatched>>

\* ... until none is left.
DownstreamsClosed ==
    /\ srv = "closeDownstreams"
    /\ closing = {}
    /\ \A d \in Downstreams : downstream[d] = "closed"
    /\ srv' = "closeConnector"
    /\ UNCHANGED <<routerVars, connectorVars, functions, accepting, ctxDone,
                   downstreamVars, handlerVars, routingVars, wire, dispatched>>

\* connector.Close(): returns at once when the context has already ended.
CloseConnector ==
    /\ srv = "closeConnector"
    /\ IF connectorDone
         THEN srv' = "release" /\ UNCHANGED connectorVars
         ELSE srv' = "clearConnector" /\ ConnectorCancel
    /\ UNCHANGED <<routerVars, functions, accepting, ctxDone, downstreamVars,
                   handlerVars, routingVars, wire, dispatched>>

ClearConnector ==
    /\ srv = "clearConnector"
    /\ srv' = "release"
    /\ ConnectorClear
    /\ UNCHANGED <<routerVars, functions, accepting, ctxDone, downstreamVars,
                   handlerVars, routingVars, wire, dispatched>>

\* listener.Close(), which may kill connections (Die) and changes nothing
\* here, and router.Release(), the last thing Serve does.
ReleaseRouter ==
    /\ srv = "release"
    /\ srv' = "down"
    /\ RouterRelease
    /\ UNCHANGED <<connectorVars, functions, accepting, ctxDone, downstreamVars,
                   handlerVars, routingVars, wire, dispatched>>

-----------------------------------------------------------------------------
(***************************************************************************)
(* handleFrameConn: the handshake.                                         *)
(***************************************************************************)

\* Version negotiation and authentication accept the handshake.
Admitted(h) == h.version = "ok" /\ h.auth

\* Mutant: a refused peer is evicted, as if it had been connected.
RefusalGoaway(h) ==
    IF h.version = "connectTo" THEN ConnectTo ELSE [type |-> "Goaway", n |-> 0]

\* What a refused peer is told.  The connector refuses once its context ended.
Refusal(h) == IF h.version = "connectTo" THEN ConnectTo ELSE Rejected

\* The first frame is a handshake that passes, and the check at the start of
\* connector.Store finds the connector open.
AdmitHandshake(c, h) ==
    /\ pc[c] = "handshake"
    /\ alive[c]
    /\ Admitted(h)
    /\ ~connectorDone
    /\ pc' = [pc EXCEPT ![c] = "storing"]
    /\ hf' = [hf EXCEPT ![c] = h]
    /\ UNCHANGED <<routerVars, connectorVars, functions, acceptorVars, alive,
                   registered, routingVars, wire, dispatched>>

\* It is a handshake the server refuses.
RefuseHandshake(c, h) ==
    /\ pc[c] = "handshake"
    /\ alive[c]
    /\ ~Admitted(h) \/ connectorDone
    /\ WriteFrame(c, Refusal(h))
    /\ pc' = [pc EXCEPT ![c] = "failed"]
    /\ UNCHANGED <<routerVars, connectorVars, functions, acceptorVars, alive,
                   hf, registered, routingVars, dispatched>>

\* It is a frame of another type.
UnexpectedFirst(c) ==
    /\ pc[c] = "handshake"
    /\ alive[c]
    /\ WriteFrame(c, Rejected)
    /\ pc' = [pc EXCEPT ![c] = "failed"]
    /\ UNCHANGED <<routerVars, connectorVars, functions, acceptorVars, alive,
                   hf, registered, routingVars, dispatched>>

HandshakeReadError(c) ==
    /\ pc[c] = "handshake"
    /\ ~alive[c]
    /\ pc' = [pc EXCEPT ![c] = "failed"]
    /\ UNCHANGED <<routerVars, connectorVars, functions, acceptorVars, alive,
                   hf, registered, routingVars, wire,
                   dispatched>>

\* createConnection: connector.Store writes the entry.
StoreConn(c) ==
    /\ pc[c] = "storing"
    /\ ConnectorStore(c)
    /\ pc' = [pc EXCEPT ![c] = "adding"]
    /\ UNCHANGED <<routerVars, functions, acceptorVars, alive, hf, registered,
                   routingVars, wire, dispatched>>

addSfnRouteRule(c) ==
    /\ pc[c] = "adding"
    /\ IF IsSfn(c) THEN RouterAdd(c, TagsOf(hf[c]), hf[c].target)
       ELSE UNCHANGED routerVars
    /\ pc' = [pc EXCEPT ![c] = "acking"]
    /\ UNCHANGED <<connectorVars, functions, acceptorVars, alive, hf,
                   registered, routingVars, wire, dispatched>>

\* The ack; a failure to write it is ignored.
AckHandshake(c) ==
    /\ pc[c] = "acking"
    /\ WriteFrame(c, Ack)
    /\ pc' = [pc EXCEPT ![c] = "registering"]
    /\ UNCHANGED <<routerVars, connectorVars, functions, acceptorVars, alive,
                   hf, registered, routingVars, dispatched>>

-----------------------------------------------------------------------------
(***************************************************************************)
(* ConnMiddleware of the AI bridge, wrapped around handleConn.             *)
(***************************************************************************)

MustRegister(c) ==
    /\ IsSfn(c)
    /\ hf[c].def = "valid"
    /\ registered[c] < Len(hf[c].tags)

\* One turn of its loop over the observed tags.
RegisterTag(c) ==
    /\ pc[c] = "registering"
    /\ MustRegister(c)
    /\ registered' = [registered EXCEPT ![c] = @ + 1]
    /\ RegisterFunction(c, hf[c].tags[registered[c] + 1])
    /\ UNCHANGED <<routerVars, connectorVars, acceptorVars, pc, alive, hf,
                   routingVars, wire, dispatched>>

\* The loop is over, or was never entered, or the definition is not JSON: the
\* deferred call of next starts handleConn in every case.
StartServing(c) ==
    /\ pc[c] = "registering"
    /\ ~MustRegister(c)
    /\ pc' = [pc EXCEPT ![c] = "read"]
    /\ UNCHANGED <<routerVars, connectorVars, functions, acceptorVars, alive,
                   hf, registered, routingVars, wire,
                   dispatched>>

-----------------------------------------------------------------------------
(***************************************************************************)
(* handleConn: the read loop, and handleFrame for every data frame.        *)
(***************************************************************************)

\* A data frame is read, its metadata decoded, and Route takes its snapshot.
ReadDataFrame(c, tag, target) ==
    /\ pc[c] = "read"
    /\ alive[c]
    /\ Len(frames) < MaxFrames
    /\ frames' = Append(frames, [from |-> c, tag |-> tag, target |-> target,
                                 to |-> Route(tag, target)])
    /\ cur' = [cur EXCEPT ![c] = Len(frames) + 1]
    /\ todo' = [todo EXCEPT ![c] = Route(tag, target)]
    /\ pc' = [pc EXCEPT ![c] = "deliver"]
    /\ UNCHANGED <<routerVars, connectorVars, functions, acceptorVars, alive,
                   hf, registered, toConn, dsTodo, wire,
                   dispatched>>

\* Mutant: a miss ends the loop over the ids.
GetConnBreaks(c, d) ==
    /\ pc[c] = "deliver"
    /\ d \in todo[c]
    /\ IF ConnectorGet(d)
         THEN /\ pc' = [pc EXCEPT ![c] = "write"]
              /\ toConn' = [toConn EXCEPT ![c] = d]
              /\ todo' = [todo EXCEPT ![c] = @ \ {d}]
         ELSE /\ todo' = [todo EXCEPT ![c] = {}]
              /\ UNCHANGED <<pc, toConn>>
    /\ UNCHANGED <<routerVars, connectorVars, functions, acceptorVars, alive,
                   hf, registered, frames, cur, dsTodo, wire, dispatched>>

\* connector.Get for one of the ids; an error or a miss skips it.
GetConn(c, d) ==
    /\ pc[c] = "deliver"
    /\ d \in todo[c]
    /\ todo' = [todo EXCEPT ![c] = @ \ {d}]
    /\ IF ConnectorGet(d)
         THEN /\ pc' = [pc EXCEPT ![c] = "write"]
              /\ toConn' = [toConn EXCEPT ![c] = d]
         ELSE UNCHANGED <<pc, toConn>>
    /\ UNCHANGED <<routerVars, connectorVars, functions, acceptorVars, alive,
                   hf, registered, frames, cur, dsTodo, wire,
                   dispatched>>

\* Mutant: the id is put back after the write.
WriteDataFrameAgain(c) ==
    /\ pc[c] = "write"
    /\ WriteFrame(toConn[c], DataFrame(cur[c]))
    /\ pc' = [pc EXCEPT ![c] = "deliver"]
    /\ todo' = [todo EXCEPT ![c] = @ \union {toConn[c]}]
    /\ toConn' = [toConn EXCEPT ![c] = NoConn]
    /\ UNCHANGED <<routerVars, connectorVars, functions, acceptorVars, alive,
                   hf, registered, frames, cur, dsTodo, dispatched>>

\* The data frame is written to the connection Get returned.
WriteDataFrame(c) ==
    /\ pc[c] = "write"
    /\ WriteFrame(toConn[c], DataFrame(cur[c]))
    /\ pc' = [pc EXCEPT ![c] = "deliver"]
    /\ toConn' = [toConn EXCEPT ![c] = NoConn]
    /\ UNCHANGED <<routerVars, connectorVars, functions, acceptorVars, alive,
                   hf, registered, frames, cur, todo, dsTodo,
                   dispatched>>

\* Mutant: no loop protection.
RoutingDoneLoops(c) ==
    /\ pc[c] = "deliver"
    /\ todo[c] = {}
    /\ pc' = [pc EXCEPT ![c] = "dispatch"]
    /\ dsTodo' = [dsTodo EXCEPT ![c] = Downstreams]
    /\ UNCHANGED <<routerVars, connectorVars, functions, acceptorVars, alive,
                   hf, registered, frames, cur, todo, toConn, wire,
                   dispatched>>

\* routingDataFrame returns; dispatchToDownstreams starts, and returns at once
\* for a frame that came from an upstream zipper.
RoutingDone(c) ==
    /\ pc[c] = "deliver"
    /\ todo[c] = {}
    /\ pc' = [pc EXCEPT ![c] = "dispatch"]
    /\ dsTodo' = [dsTodo EXCEPT ![c] =
                     IF hf[c].type = "UpstreamZipper" THEN {} ELSE Downstreams]
    /\ UNCHANGED <<routerVars, connectorVars, functions, acceptorVars, alive,
                   hf, registered, frames, cur, todo, toConn,
                   wire, dispatched>>

\* ds.WriteFrame for one downstream: its client takes the frame, or returns an
\* error that is only logged.  One that has left or is closed can only return an
\* error.
DispatchTo(c, d) ==
    /\ pc[c] = "dispatch"
    /\ d \in dsTodo[c]
    /\ dsTodo' = [dsTodo EXCEPT ![c] = @ \ {d}]
    /\ \/ /\ downstream[d] = "up"
          /\ dispatched' = [dispatched EXCEPT ![d] = Append(@, cur[c])]
       \/ UNCHANGED dispatched
    /\ UNCHANGED <<routerVars, connectorVars, functions, acceptorVars,
                   handlerVars, frames, cur, todo, toConn, wire>>

\* handleFrame returned: back to ReadFrame.
FrameDone(c) ==
    /\ pc[c] = "dispatch"
    /\ dsTodo[c] = {}
    /\ pc' = [pc EXCEPT ![c] = "read"]
    /\ cur' = [cur EXCEPT ![c] = 0]
    /\ UNCHANGED <<routerVars, connectorVars, functions, acceptorVars, alive,
                   hf, registered, frames, todo, toConn, dsTodo,
                   wire, dispatched>>

\* Mutant: the loop goes on after a read error.
ReadErrorIgnored(c) ==
    /\ pc[c] = "read"
    /\ ~alive[c]
    /\ UNCHANGED vars

\* handleConn returns: the read failed ...
ReadError(c) ==
    /\ pc[c] = "read"
    /\ ~alive[c]
    /\ pc' = [pc EXCEPT ![c] = "unregister"]
    /\ UNCHANGED <<routerVars, connectorVars, functions, acceptorVars, alive,
                   hf, registered, routingVars, wire,
                   dispatched>>

\* ... or the peer sent a frame that is not a data frame, or one with metadata
\* that does not decode.  The connection itself is left open.
UnexpectedFrame(c) ==
    /\ pc[c] = "read"
    /\ alive[c]
    /\ pc' = [pc EXCEPT ![c] = "unregister"]
    /\ UNCHANGED <<routerVars, connectorVars, functions, acceptorVars, alive,
                   hf, registered, routingVars, wire,
                   dispatched>>

-----------------------------------------------------------------------------
(***************************************************************************)
(* The way out: the middleware, then the end of handleFrameConn.           *)
(***************************************************************************)

\* Mutant: the function stays registered.
LeaveRegisterForgets(c) ==
    /\ pc[c] = "unregister"
    /\ pc' = [pc EXCEPT ![c] = "unroute"]
    /\ UNCHANGED <<routerVars, connectorVars, functions, acceptorVars, alive,
                   hf, registered, routingVars, wire, dispatched>>

LeaveRegister(c) ==
    /\ pc[c] = "unregister"
    /\ IF HasDefinition(c) THEN UnregisterFunction(c) ELSE UNCHANGED functions
    /\ pc' = [pc EXCEPT ![c] = "unroute"]
    /\ UNCHANGED <<routerVars, connectorVars, acceptorVars, alive, hf,
                   registered, routingVars, wire, dispatched>>

\* Mutant: functions the LLM knows are left to the middleware.
LeaveRouterPartly(c) ==
    /\ pc[c] = "unroute"
    /\ IF HasDefinition(c) THEN UNCHANGED routerVars ELSE RouterRemove(c)
    /\ pc' = [pc EXCEPT ![c] = "unstore"]
    /\ UNCHANGED <<connectorVars, functions, acceptorVars, alive, hf,
                   registered, routingVars, wire, dispatched>>

LeaveRouter(c) ==
    /\ pc[c] = "unroute"
    /\ IF IsSfn(c) THEN RouterRemove(c) ELSE UNCHANGED routerVars
    /\ pc' = [pc EXCEPT ![c] = "unstore"]
    /\ UNCHANGED <<connectorVars, functions, acceptorVars, alive, hf,
                   registered, routingVars, wire, dispatched>>

LeaveConnector(c) ==
    /\ pc[c] = "unstore"
    /\ ConnectorRemove(c)
    /\ pc' = [pc EXCEPT ![c] = "gone"]
    /\ UNCHANGED <<routerVars, functions, acceptorVars, alive, hf, registered,
                   routingVars, wire, dispatched>>

-----------------------------------------------------------------------------

\* What the peers and the operator decide.
Environment ==
    \/ \E c \in Conns :
          \/ AcceptConn(c)
          \/ Die(c)
          \/ AcceptStream(c)
          \/ \E h \in HandshakeFrames :
                AdmitHandshake(c, h) \/ RefuseHandshake(c, h)
          \/ UnexpectedFirst(c)
          \/ \E tag \in Tags, target \in Targets \union {NoTarget} :
                ReadDataFrame(c, tag, target)
          \/ UnexpectedFrame(c)
    \/ Close
    \/ \E d \in Downstreams : DownstreamLeaves(d)

\* What the accepting goroutine does by itself.
Serve ==
    \/ AcceptError
    \/ \E d \in Downstreams : CloseDownstream(d) \/ DownstreamClosed(d)
    \/ DownstreamsClosed
    \/ CloseConnector
    \/ ClearConnector
    \/ ReleaseRouter

\* What the goroutine of c does by itself.
handleFrameConn(c) ==
    \/ HandshakeReadError(c)
    \/ StoreConn(c)
    \/ addSfnRouteRule(c)
    \/ AckHandshake(c)
    \/ RegisterTag(c)
    \/ StartServing(c)
    \/ \E d \in Conns : GetConn(c, d)
    \/ WriteDataFrame(c)
    \/ RoutingDone(c)
    \/ \E d \in Downstreams : DispatchTo(c, d)
    \/ FrameDone(c)
    \/ ReadError(c)
    \/ LeaveRegister(c)
    \/ LeaveRouter(c)
    \/ LeaveConnector(c)

Next ==
    \/ Environment
    \/ Serve
    \/ \E c \in Conns : handleFrameConn(c)

Spec == Init /\ [][Next]_vars

\* The Go scheduler runs every goroutine that can run; a write to a stream
\* returns because a peer that lives keeps reading it.
Fairness ==
    /\ WF_vars(Serve)
    /\ \A c \in Conns : WF_vars(handleFrameConn(c))

FairSpec == Spec /\ Fairness

-----------------------------------------------------------------------------
(***************************************************************************)
(* Properties.                                                             *)
(***************************************************************************)

Written(c) == {wire[c][i] : i \in DOMAIN wire[c]}

Ended == {"gone", "failed"}

\* A stream function that was sent its handshake ack can be reached: until the
\* handler takes its route away, or the server releases the router, Route finds
\* it under every tag it observes, with its target and without one, and the
\* connector holds the connection unless it was closed.  (handleFrameConn acks
\* only after handshake stored the connection and added the route rule.)
AckedIsRouted ==
    \A c \in Conns :
        /\ Ack \in Written(c)
        /\ IsSfn(c)
        /\ pc[c] \notin {"unstore", "gone"}
        /\ srv # "down"
        => /\ \A t \in TagsOf(hf[c]) :
                c \in Route(t, NoTarget) /\ c \in Route(t, hf[c].target)
           /\ c \in connections \/ connectorDone

\* The function register, the router and the connector are entered in one order
\* and left in the opposite one: what the LLM is offered (ListToolCalls) can be
\* routed to, and what Route returns is in the connector, at every moment of
\* every interleaving.
RegisteredIsRouted ==
    \A c \in Conns :
        functions[c] # NoTag /\ srv # "down" => c \in data[functions[c]]

RoutedIsConnected ==
    \A t \in Tags : data[t] \subseteq connections \/ connectorDone

Layered == RegisteredIsRouted /\ RoutedIsConnected

\* When the handler of a connection has returned, whichever way, no map mentions
\* the connection any more; only a closed connector may keep its entry.
GoneLeavesNothing ==
    \A c \in Conns :
        pc[c] \in Ended =>
            /\ functions[c] = NoTag
            /\ targets[c] = NoTarget
            /\ \A t \in Tags : c \notin data[t]
            /\ c \notin connections \/ connectorDone

\* How far a handler has come: its connection is stored, routed, registered.
StoredPc == {"adding", "acking", "registering", "read", "deliver", "write",
             "dispatch", "unregister", "unroute", "unstore"}
RoutedPc == StoredPc \ {"adding", "unstore"}
RegisteredPc == RoutedPc \ {"acking", "unroute"}

\* What the connector, the router and the register hold of a connection is what
\* its handler has put there and not taken away.
OwnsEntries(c) ==
    /\ pc[c] \in StoredPc \union {"storing"} => hf[c] \in HandshakeFrames
    /\ pc[c] \in StoredPc => c \in connections \/ connectorDone
    /\ c \in connections => pc[c] \in StoredPc \/ connectorDone
    /\ targets[c] # NoTarget =>
          pc[c] \in RoutedPc /\ IsSfn(c) /\ targets[c] = hf[c].target
    /\ \A t \in Tags : c \in data[t] =>
          pc[c] \in RoutedPc /\ IsSfn(c) /\ t \in TagsOf(hf[c])
    /\ functions[c] # NoTag =>
          /\ pc[c] \in RegisteredPc
          /\ IsSfn(c)
          /\ HasDefinition(c)
          /\ functions[c] \in TagsOf(hf[c])
    /\ srv # "down" /\ pc[c] \in RoutedPc /\ IsSfn(c) =>
          /\ targets[c] = hf[c].target
          /\ \A t \in TagsOf(hf[c]) : c \in data[t]

\* The strengthening that makes Layered and GoneLeavesNothing inductive: every
\* handler owns its entries, no matter what the other handlers and closeServer do
\* meanwhile.
HandlerOwnsEntries ==
    /\ srv = "clearConnector" => connectorDone
    /\ accepting \in Conns => pc[accepting] = "accepting"
    /\ \A c \in Conns : OwnsEntries(c)

\* A data frame is written only to stream functions that observe its tag and,
\* when it names a target, asked for that target, although the route was looked
\* up several steps before the write.
OnlyObserversReceive ==
    \A c \in Conns : \A i \in DOMAIN wire[c] :
        wire[c][i].type = "Data" =>
            LET f == frames[wire[c][i].n]
            IN  /\ IsSfn(c)
                /\ f.tag \in TagsOf(hf[c])
                /\ f.target # NoTarget => f.target = hf[c].target

\* Frames from one connection reach another connection at most once and in the
\* order in which they were read, however many handlers write to it.
InOrderAtMostOnce ==
    \A c \in Conns : \A i, j \in DOMAIN wire[c] :
        /\ i < j
        /\ wire[c][i].type = "Data" /\ wire[c][j].type = "Data"
        /\ frames[wire[c][i].n].from = frames[wire[c][j].n].from
        => wire[c][i].n < wire[c][j].n

\* When handleFrame has returned for a frame, every connection that Route named
\* was written to, unless it died, was removed or the connector was closed.
NothingLost ==
    \A n \in DOMAIN frames : cur[frames[n].from] # n =>
        \A c \in frames[n].to :
            \/ DataFrame(n) \in Written(c)
            \/ ~alive[c]
            \/ c \notin connections
            \/ connectorDone

\* Loop protection: a downstream is sent every frame at most once, in order per
\* connection, and never one that came from an upstream zipper.
DispatchedOnce ==
    \A d \in Downstreams :
        /\ \A i \in DOMAIN dispatched[d] :
              hf[frames[dispatched[d][i]].from].type # "UpstreamZipper"
        /\ \A i, j \in DOMAIN dispatched[d] :
              /\ i < j
              /\ frames[dispatched[d][i]].from = frames[dispatched[d][j]].from
              => dispatched[d][i] < dispatched[d][j]

Abstract == INSTANCE PubSub WITH
    subs <- [c \in Conns |-> {t \in Tags : c \in data[t]}],
    wants <- targets,
    log <- frames,
    delivered <- {p \in (1 .. Len(frames)) \X Conns :
                    DataFrame(p[1]) \in Written(p[2])}

\* The zipper implements publish and subscribe: whatever the handlers interleave,
\* the route rules change as if subscriptions began and ended at one moment, and
\* a write is the delivery of a frame to one of those subscribed when it was
\* read.
ImplementsPubSub == Abstract!Spec

\* The handler of a connection that died finishes what it is doing and removes
\* every trace of the connection.
DeadIsForgotten ==
    \A c \in Conns :
        pc[c] # "none" /\ ~alive[c] ~> pc[c] \in Ended

\* closeServer waits for a downstream whose client has stopped for good.
ClosingForever == \E d \in closing : downstream[d] = "left"

\* Server.Close makes Serve return, even while Accept waits for the stream of a
\* silent peer.  One thing keeps it, for ever, before the connector, the listener
\* and the router are closed: a downstream that closed its connection or sent a
\* Goaway, at any time before.
CloseStops == ctxDone ~> srv = "down" \/ ClosingForever

\* frame.go says of the handshake ack that it "is used to ack handshake, If
\* handshake successful, The server will send HandshakeAckFrame to the client":
\* the answer to a handshake is the first frame on the stream.
AckFirst ==
    \A c \in Conns : wire[c] # <<>> => Head(wire[c]).type # "Data"
=============================================================================
