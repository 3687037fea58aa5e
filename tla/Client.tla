------------------------------- MODULE Client -------------------------------
(***************************************************************************)
(* The client side of YoMo (core/client.go), which every source, stream    *)
(* function and downstream zipper is built on.                             *)
(*                                                                         *)
(* One goroutine (loop) connects, serves the connection and reconnects:    *)
(* first inside Connect, then as runBackground.  Each connection it serves *)
(* has a reader goroutine; all of them send into the one channel rdCh of   *)
(* the client.  Callers of WriteFrame meet the loop on the unbuffered      *)
(* channel wrCh, and callers of Close and Wait wait for the channels done  *)
(* and reConnect.  The zipper and the network are the environment.         *)
(***************************************************************************)
EXTENDS Integers, Sequences, FiniteSets

CONSTANTS
    Writers,        \* callers of WriteFrame, one frame each
    MaxConns,       \* bound on the connections the client makes
    MaxBreaks,      \* bound on the connections that break
    MaxReads,       \* bound on the frames its readers read
    Reconnect,      \* the option WithReConnect
    NonBlockWrite,  \* the option WithNonBlockWrite
    Faults          \* what the environment may do

AllFaults == {"dialFails", "rejected", "connectTo", "lost", "remote",
              "goaway", "close", "closeEarly", "signal", "undecodable",
              "badDefinition"}

ASSUME ClientAssumption ==
    /\ MaxConns \in Nat \ {0}
    /\ MaxBreaks \in Nat
    /\ MaxReads \in Nat
    /\ Reconnect \in BOOLEAN
    /\ NonBlockWrite \in BOOLEAN
    /\ Faults \subseteq AllFaults

VARIABLES
    loop,       \* control of the goroutine that connects and serves
    background, \* it runs runBackground, not Connect
    conn,       \* the connection it serves (an index), or 0
    badDef,     \* the function definition the options give cannot be parsed
    nconn,      \* connections made so far
    link,       \* connection -> its state
    reader,     \* connection -> what its reader goroutine is at
    got,        \* the type of frame handleFrame works on
    reads,      \* frames read so far
    garbled,    \* connections on which a frame was read that does not decode
    ctxDone,    \* c.ctx is cancelled
    done,       \* the channel done is closed
    reConnect,  \* the channel reConnect is closed
    panicked,   \* a channel was closed twice: the program is dead
    writer,     \* caller of WriteFrame -> what it is at
    onWire,     \* frames written to a connection, in order
    closer,     \* the caller of Close
    waiter      \* the caller of Wait

linkVars == <<badDef, nconn, link, reader, reads, garbled>>
chanVars == <<done, reConnect, panicked>>
callerVars == <<closer, waiter>>
vars == <<loop, background, conn, linkVars, got, ctxDone, chanVars, writer,
          onWire, callerVars>>

Links == 1 .. MaxConns

TypeOK ==
    /\ loop \in {"dial", "handshake", "serve", "handle", "closing", "stopped"}
    /\ background \in BOOLEAN
    /\ conn \in 0 .. MaxConns
    /\ badDef \in BOOLEAN
    /\ nconn \in 0 .. MaxConns
    /\ link \in [Links -> {"none", "open", "lost", "remote", "local"}]
    /\ reader \in [Links -> {"none", "reading", "data", "goaway", "error",
                             "ended"}]
    /\ got \in {"none", "data", "goaway"}
    /\ reads \in Nat
    /\ garbled \subseteq Links
    /\ {ctxDone, done, reConnect, panicked} \subseteq BOOLEAN
    /\ writer \in [Writers -> {"idle", "blocked", "ok", "error"}]
    /\ onWire \in Seq(Writers)
    /\ closer \in {"idle", "waiting", "returned"}
    /\ waiter \in {"idle", "waiting", "returned"}

\* NewClient, and the program calls Connect.  What parseAIFunctionDefinition
\* makes of the options is the same at every attempt.
Init ==
    /\ loop = "dial"
    /\ background = FALSE
    /\ conn = 0
    /\ badDef \in {"badDefinition" \in Faults, FALSE}
    /\ nconn = 0
    /\ link = [k \in Links |-> "none"]
    /\ reader = [k \in Links |-> "none"]
    /\ got = "none"
    /\ reads = 0
    /\ garbled = {}
    /\ ctxDone = FALSE
    /\ done = FALSE
    /\ reConnect = FALSE
    /\ panicked = FALSE
    /\ writer = [w \in Writers |-> "idle"]
    /\ onWire = <<>>
    /\ closer = "idle"
    /\ waiter = "idle"

-----------------------------------------------------------------------------
(***************************************************************************)
(* connect and handleConnectResult.                                        *)
(***************************************************************************)

\* close(c.reConnect): closing it a second time panics.
CloseReConnect ==
    /\ reConnect' = TRUE
    /\ panicked' = reConnect
    /\ UNCHANGED done

\* close(c.done), likewise.
CloseDone ==
    /\ done' = TRUE
    /\ panicked' = done
    /\ UNCHANGED reConnect

\* Connect starts runBackground, or runBackground goes on: serveConn starts the
\* reader of the new connection.
StartServing ==
    /\ loop' = "serve"
    /\ background' = TRUE
    /\ conn' = nconn
    /\ reader' = [reader EXCEPT ![nconn] = "reading"]

StopTrying(next) ==
    /\ loop' = next
    /\ UNCHANGED <<background, conn, reader>>

\* Mutant: a redirection closes reConnect as well.
handleConnectResultCloses(outcome) ==
    IF outcome \in {"rejected", "connectTo"} \/ ctxDone
      THEN /\ CloseReConnect
           /\ StopTrying(IF outcome = "connectTo" THEN "dial" ELSE "stopped")
      ELSE /\ IF outcome = "ok" THEN StartServing ELSE StopTrying("dial")
           /\ UNCHANGED chanVars

\* handleConnectResult, and what its caller does with the answer.
handleConnectResult(outcome) ==
    CASE ctxDone ->
            /\ CloseReConnect
            /\ IF outcome = "ok" THEN StartServing ELSE StopTrying("stopped")
      [] ~ctxDone /\ outcome = "ok" ->
            StartServing /\ UNCHANGED chanVars
      [] ~ctxDone /\ outcome = "rejected" ->
            CloseReConnect /\ StopTrying("stopped")
      [] ~ctxDone /\ outcome = "connectTo" ->
            StopTrying("dial") /\ UNCHANGED chanVars
      [] ~ctxDone /\ outcome = "failed" ->
            /\ StopTrying(IF Reconnect \/ background THEN "dial" ELSE "stopped")
            /\ UNCHANGED chanVars

\* DialAddr succeeds.  runBackground dials with c.ctx, Connect with the
\* caller's context.
DialOk ==
    /\ loop = "dial"
    /\ ~(background /\ ctxDone)
    /\ nconn < MaxConns
    /\ nconn' = nconn + 1
    /\ link' = [link EXCEPT ![nconn + 1] = "open"]
    /\ loop' = "handshake"
    /\ UNCHANGED <<background, conn, badDef, reader, reads, garbled, got,
                   ctxDone, chanVars, writer, onWire, callerVars>>

DialFailed ==
    /\ loop = "dial"
    /\ "dialFails" \in Faults \/ (background /\ ctxDone)
    /\ handleConnectResult("failed")
    /\ UNCHANGED <<badDef, nconn, link, reads, garbled, got, ctxDone, writer,
                   onWire, callerVars>>

\* The handshake is written and the first frame read: the ack ...
HandshakeOk ==
    /\ loop = "handshake"
    /\ ~badDef /\ link[nconn] = "open"
    /\ handleConnectResult("ok")
    /\ UNCHANGED <<badDef, nconn, link, reads, garbled, got, ctxDone, writer,
                   onWire, callerVars>>

\* Mutant: the refused connection is not closed.
HandshakeRefusedLeaks(outcome) ==
    /\ loop = "handshake"
    /\ ~badDef /\ link[nconn] = "open"
    /\ outcome \in Faults \intersect {"rejected", "connectTo"}
    /\ handleConnectResult(outcome)
    /\ UNCHANGED <<badDef, nconn, link, reads, garbled, got, ctxDone, writer,
                   onWire, callerVars>>

\* ... or another frame, after which the client closes the connection: a
\* ConnectTo frame, or one that counts as a rejection.
HandshakeRefused(outcome) ==
    /\ loop = "handshake"
    /\ ~badDef /\ link[nconn] = "open"
    /\ outcome \in Faults \intersect {"rejected", "connectTo"}
    /\ link' = [link EXCEPT ![nconn] = "local"]
    /\ handleConnectResult(outcome)
    /\ UNCHANGED <<badDef, nconn, reads, garbled, got, ctxDone, writer, onWire,
                   callerVars>>

\* ... or an error: of a connection that has ended, of a first frame that does
\* not decode, or, before anything is written, of handshakeWithDefinition.  The
\* last two leave the connection open.
HandshakeFailed ==
    /\ loop = "handshake"
    /\ \/ /\ badDef \/ link[nconn] \in {"lost", "remote"}
          /\ UNCHANGED garbled
       \/ /\ ~badDef /\ link[nconn] = "open" /\ "undecodable" \in Faults
          /\ garbled' = garbled \union {nconn}
    /\ handleConnectResult("failed")
    /\ UNCHANGED <<badDef, nconn, link, reads, got, ctxDone, writer, onWire,
                   callerVars>>

-----------------------------------------------------------------------------
(***************************************************************************)
(* serveConn, handleConn and the readers.                                  *)
(***************************************************************************)

\* Mutant: every error ends the client.
ServeReturnedStops(how) ==
    /\ loop' = "stopped"
    /\ ctxDone' = (ctxDone \/ how = "remote")

\* serveConn returned an error of a connection in state how.  A connection that
\* was closed (ErrConnClosed) ends runBackground, and cancels the context when
\* the zipper closed it; any other error makes it dial again, that of an open
\* connection included.
ServeReturned(how) ==
    /\ loop' = IF how \in {"lost", "open"} THEN "dial" ELSE "stopped"
    /\ ctxDone' = (ctxDone \/ how = "remote")

\* Mutant: done is not closed.
ServeCancelledSilently ==
    /\ loop = "serve"
    /\ ctxDone
    /\ link' = [link EXCEPT ![conn] = IF @ = "open" THEN "local" ELSE @]
    /\ loop' = "stopped"
    /\ UNCHANGED <<background, conn, badDef, nconn, reader, reads, garbled, got,
                   ctxDone, chanVars, writer, onWire, callerVars>>

\* case <-c.ctx.Done(): the connection and done are closed.  The error it
\* returns is the cause, so the loop goes on to dial.
ServeCancelled ==
    /\ loop = "serve"
    /\ ctxDone
    /\ link' = [link EXCEPT ![conn] = IF @ = "open" THEN "local" ELSE @]
    /\ CloseDone
    /\ loop' = "dial"
    /\ UNCHANGED <<background, conn, badDef, nconn, reader, reads, garbled, got,
                   ctxDone, writer, onWire, callerVars>>

\* Mutant: the frame is written before its caller is released.
ServeWriteUnanswered(w) ==
    /\ loop = "serve"
    /\ writer[w] = "blocked"
    /\ link[conn] = "open"
    /\ onWire' = Append(onWire, w)
    /\ UNCHANGED <<loop, ctxDone, writer, background, conn, linkVars, got,
                   chanVars, callerVars>>

\* Mutant: a failed write does not end serveConn.
ServeWriteGoesOn(w) ==
    /\ loop = "serve"
    /\ writer[w] = "blocked"
    /\ writer' = [writer EXCEPT ![w] = "ok"]
    /\ onWire' = IF link[conn] = "open" THEN Append(onWire, w) ELSE onWire
    /\ UNCHANGED <<loop, ctxDone, background, conn, linkVars, got, chanVars,
                   callerVars>>

\* case f := <-c.wrCh: the caller of WriteFrame returns nil, then the frame is
\* written.
ServeWrite(w) ==
    /\ loop = "serve"
    /\ writer[w] = "blocked"
    /\ writer' = [writer EXCEPT ![w] = "ok"]
    /\ IF link[conn] = "open"
         THEN onWire' = Append(onWire, w) /\ UNCHANGED <<loop, ctxDone>>
         ELSE ServeReturned(link[conn]) /\ UNCHANGED onWire
    /\ UNCHANGED <<background, conn, linkVars, got, chanVars, callerVars>>

\* case out := <-c.rdCh, from whichever reader is sending: an error ...
ServeReadError(k) ==
    /\ loop = "serve"
    /\ reader[k] = "error"
    /\ reader' = [reader EXCEPT ![k] = "ended"]
    /\ ServeReturned(IF k \in garbled THEN "open" ELSE link[k])
    /\ UNCHANGED <<background, conn, badDef, nconn, link, reads, garbled, got,
                   chanVars, writer, onWire, callerVars>>

\* ... or a frame.
ServeFrame(k) ==
    /\ loop = "serve"
    /\ reader[k] \in {"data", "goaway"}
    /\ got' = reader[k]
    /\ reader' = [reader EXCEPT ![k] = "reading"]
    /\ loop' = "handle"
    /\ UNCHANGED <<background, conn, badDef, nconn, link, reads, garbled,
                   ctxDone, chanVars, writer, onWire, callerVars>>

\* handleFrame of a data frame: the processor returns.
HandleData ==
    /\ loop = "handle"
    /\ got = "data"
    /\ got' = "none"
    /\ loop' = "serve"
    /\ UNCHANGED <<background, conn, linkVars, ctxDone, chanVars, writer,
                   onWire, callerVars>>

\* handleFrame of a Goaway or Rejected frame calls Close, on the goroutine of
\* serveConn: the context is cancelled ...
HandleGoaway ==
    /\ loop = "handle"
    /\ got = "goaway"
    /\ got' = "none"
    /\ ctxDone' = TRUE
    /\ loop' = "closing"
    /\ UNCHANGED <<background, conn, linkVars, chanVars, writer, onWire,
                   callerVars>>

\* ... and the select of Close waits.
HandleGoawayDone ==
    /\ loop = "closing"
    /\ done \/ reConnect
    /\ loop' = "serve"
    /\ UNCHANGED <<background, conn, linkVars, got, ctxDone, chanVars, writer,
                   onWire, callerVars>>

\* A reader reads a frame and starts to send it to rdCh ...
ReaderFrame(k, type) ==
    /\ reader[k] = "reading"
    /\ link[k] = "open"
    /\ reads < MaxReads
    /\ type = "data" \/ "goaway" \in Faults
    /\ reads' = reads + 1
    /\ reader' = [reader EXCEPT ![k] = type]
    /\ UNCHANGED <<loop, background, conn, badDef, nconn, link, garbled, got,
                   ctxDone, chanVars, writer, onWire, callerVars>>

\* ... or an error: of the frame, which does not decode ...
ReaderUndecodable(k) ==
    /\ reader[k] = "reading"
    /\ link[k] = "open"
    /\ reads < MaxReads
    /\ "undecodable" \in Faults
    /\ reads' = reads + 1
    /\ garbled' = garbled \union {k}
    /\ reader' = [reader EXCEPT ![k] = "error"]
    /\ UNCHANGED <<loop, background, conn, badDef, nconn, link, got, ctxDone,
                   chanVars, writer, onWire, callerVars>>

\* ... or of a connection that has ended.
ReaderError(k) ==
    /\ reader[k] = "reading"
    /\ link[k] \in {"lost", "remote", "local"}
    /\ reader' = [reader EXCEPT ![k] = "error"]
    /\ UNCHANGED <<loop, background, conn, badDef, nconn, link, reads, garbled,
                   got, ctxDone, chanVars, writer, onWire, callerVars>>

-----------------------------------------------------------------------------
(***************************************************************************)
(* The callers: WriteFrame, Close and Wait.                                *)
(***************************************************************************)

WriteFrame(w) ==
    /\ writer[w] = "idle"
    /\ writer' = [writer EXCEPT ![w] = "blocked"]
    /\ UNCHANGED <<loop, background, conn, linkVars, got, ctxDone, chanVars,
                   onWire, callerVars>>

\* The select of WriteFrame: the context is cancelled, or, in non-blocking mode,
\* a second has passed.
WriteGivesUp(w) ==
    /\ writer[w] = "blocked"
    /\ ctxDone \/ NonBlockWrite
    /\ writer' = [writer EXCEPT ![w] = "error"]
    /\ UNCHANGED <<loop, background, conn, linkVars, got, ctxDone, chanVars,
                   onWire, callerVars>>

\* Close, of a client whose Connect returned nil, or at any time.
Close ==
    /\ closer = "idle"
    /\ ("close" \in Faults /\ background) \/ "closeEarly" \in Faults
    /\ closer' = "waiting"
    /\ ctxDone' = TRUE
    /\ UNCHANGED <<loop, background, conn, linkVars, got, chanVars, writer,
                   onWire, waiter>>

CloseReturn ==
    /\ closer = "waiting"
    /\ done \/ reConnect
    /\ closer' = "returned"
    /\ UNCHANGED <<loop, background, conn, linkVars, got, ctxDone, chanVars,
                   writer, onWire, waiter>>

Wait ==
    /\ waiter = "idle"
    /\ background
    /\ waiter' = "waiting"
    /\ UNCHANGED <<loop, background, conn, linkVars, got, ctxDone, chanVars,
                   writer, onWire, closer>>

WaitReturn ==
    /\ waiter = "waiting"
    /\ done \/ reConnect
    /\ waiter' = "returned"
    /\ UNCHANGED <<loop, background, conn, linkVars, got, ctxDone, chanVars,
                   writer, onWire, closer>>

\* Wait is interrupted by SIGINT or SIGTERM.
WaitSignal ==
    /\ "signal" \in Faults
    /\ waiter = "waiting"
    /\ waiter' = "returned"
    /\ ctxDone' = TRUE
    /\ UNCHANGED <<loop, background, conn, linkVars, got, chanVars, writer,
                   onWire, closer>>

-----------------------------------------------------------------------------

Broken == {k \in Links : link[k] \in {"lost", "remote"}}

\* A connection is lost, or closed by the zipper.
Break(k, how) ==
    /\ link[k] = "open"
    /\ Cardinality(Broken) < MaxBreaks
    /\ how \in Faults \intersect {"lost", "remote"}
    /\ link' = [link EXCEPT ![k] = how]
    /\ UNCHANGED <<loop, background, conn, badDef, nconn, reader, reads, garbled,
                   got, ctxDone, chanVars, writer, onWire, callerVars>>

Environment ==
    \/ \E k \in Links : \E how \in {"lost", "remote"} : Break(k, how)
    \/ \E k \in Links : \E type \in {"data", "goaway"} : ReaderFrame(k, type)
    \/ \E k \in Links : ReaderUndecodable(k)
    \/ \E outcome \in {"rejected", "connectTo"} : HandshakeRefused(outcome)
    \/ \E w \in Writers : WriteFrame(w)
    \/ Close \/ Wait \/ WaitSignal

\* The goroutine that connects and serves.
runBackground ==
    \/ DialOk \/ DialFailed
    \/ HandshakeOk \/ HandshakeFailed
    \/ ServeCancelled
    \/ \E w \in Writers : ServeWrite(w)
    \/ \E k \in Links : ServeReadError(k) \/ ServeFrame(k)
    \/ HandleData \/ HandleGoaway \/ HandleGoawayDone

Callers ==
    \/ \E w \in Writers : WriteGivesUp(w)
    \/ CloseReturn \/ WaitReturn

Next ==
    /\ ~panicked
    /\ \/ Environment
       \/ runBackground
       \/ \E k \in Links : ReaderError(k)
       \/ Callers

Spec == Init /\ [][Next]_vars

\* Goroutines that can run do run.  The zipper answers a handshake it received
\* on a connection that stays open, processors return, and a client that dials
\* again and again reaches its zipper some day.
Fairness ==
    /\ WF_vars(~panicked /\ runBackground)
    /\ SF_vars(~panicked /\ DialOk)
    /\ \A k \in Links : WF_vars(~panicked /\ ReaderError(k))
    /\ WF_vars(~panicked /\ CloseReturn)
    /\ WF_vars(~panicked /\ WaitReturn)
    /\ \A w \in Writers : WF_vars(~panicked /\ WriteGivesUp(w))

FairSpec == Spec /\ Fairness

-----------------------------------------------------------------------------
(***************************************************************************)
(* Properties.                                                             *)
(***************************************************************************)

Count(w) == Cardinality({i \in DOMAIN onWire : onWire[i] = w})

\* What WriteFrame answers is true of the wire: a frame is written at most once,
\* whatever reconnections happen, and one whose WriteFrame returned an error is
\* never written.
WriteOutcome ==
    \A w \in Writers : Count(w) = 0 \/ (Count(w) = 1 /\ writer[w] = "ok")

LostFrames == {w \in Writers : writer[w] = "ok" /\ Count(w) = 0}

\* WriteFrame answers nil before the frame is written, so a frame can be lost;
\* but every connection that breaks loses at most one.
LossBounded == Cardinality(LostFrames) <= Cardinality(Broken)

\* A connection the client made stays open behind its back, with nobody to close
\* it, only after an error that told it nothing about that connection: an earlier
\* one was lost (the reader of that one still had its error to deliver), a frame
\* on it did not decode, or the client had no definition to shake hands with.
AbandonedOnlyAfterError ==
    \A k \in Links :
        /\ link[k] = "open"
        /\ k # nconn
        => \/ \E j \in 1 .. k - 1 : link[j] = "lost"
           \/ k \in garbled
           \/ badDef

\* Only a client that is being shut down can panic by closing reConnect or done
\* twice: rejections, redirections and reconnections close each at most once.
PanicOnlyInShutdown == panicked => ctxDone

\* The ways in which the loop leaves the callers of Close and Wait behind: Close
\* was called by handleFrame on the goroutine it waits for, the zipper closed
\* the connection, or Connect failed and nobody asked for a retry.
ClosingItself == loop = "closing"
RemoteClosed == loop = "stopped" /\ \E k \in Links : link[k] = "remote"
NeverConnected == loop = "stopped" /\ ~background

\* Close returns, whatever connections are lost meanwhile: the loop sees the
\* cancelled context and closes done, or gives up and closes reConnect.  What
\* can keep it are exactly the three cases above and the panic of
\* PanicOnlyInShutdown, which ends the program.
CloseReturns ==
    closer = "waiting"
        ~> \/ closer = "returned" \/ panicked
           \/ ClosingItself \/ RemoteClosed \/ NeverConnected

\* Whichever connection is lost, the one in use or one the client has left
\* behind, a client that nobody stops comes to serve an open connection: unless
\* it is rejected, closed by the zipper, stuck in a Goaway or at the bound.
Reconnects ==
    \A k \in Links :
        link[k] = "lost"
            ~> \/ ctxDone \/ (loop = "serve" /\ link[conn] = "open")
               \/ ClosingItself \/ RemoteClosed \/ NeverConnected
               \/ (loop = "stopped" /\ reConnect) \/ nconn = MaxConns

\* "Receiving from the done channel to guarantee the connection is closed"
\* (client.go).
DoneMeansClosed == done => \A k \in Links : link[k] # "open"
=============================================================================
