---------------------------- MODULE ClientProofs ----------------------------
(***************************************************************************)
(* Proofs about Client, for any number of callers, connections, breaks and *)
(* frames, for every option and whatever the environment may do.           *)
(***************************************************************************)
EXTENDS Client, FiniteSetTheorems, TLAPS

\* The loop has a connection of its own, the last one that was made.
Attached == loop \notin {"dial", "stopped"}

LostUpTo(k) == \E j \in 1 .. k : link[j] = "lost"

\* Why a connection may be left open.
Excused(k) == LostUpTo(k - 1) \/ k \in garbled \/ badDef

\* The connection the loop works on, and what is known of the other ones.
ConnInv ==
    /\ Attached =>
          /\ nconn >= 1
          /\ link[nconn] \in {"open", "lost", "remote"}
    /\ loop \in {"serve", "handle", "closing"} => conn = nconn
    /\ \A k \in Links : reader[k] # "none" => k <= nconn
    /\ \A k \in Links : k > nconn => link[k] = "none"
    /\ loop = "dial" => \A k \in Links : link[k] = "open" => Excused(k)

\* The reader of a connection that still reads from it, or has something to send.
Active(k) == reader[k] \notin {"none", "ended"}

\* A reader outlives the loop's interest in its connection only when that one or
\* an earlier one was lost, or when the client is shut down.
ReaderInv ==
    /\ loop \in {"serve", "handle", "closing"} => background
    /\ loop = "handshake" => reader[nconn] = "none"
    /\ \A k \in Links : Active(k) /\ k < nconn => LostUpTo(k)
    /\ loop = "dial" =>
          \A k \in Links : Active(k) => LostUpTo(k) \/ (background /\ ctxDone)

\* A reader fails on a connection that has ended, or on a frame.
ErrorInv ==
    \A k \in Links :
        reader[k] = "error" =>
            k \in garbled \/ link[k] \in {"lost", "remote", "local"}

\* The channels are closed for a reason: done by a loop that saw the cancelled
\* context, reConnect by a loop that did or that stopped.
ChannelInv ==
    /\ panicked => ctxDone
    /\ done => ctxDone
    /\ reConnect => ctxDone \/ loop = "stopped"

\* A frame is on the wire once, and only if its caller was told so.
WireInv ==
    /\ \A i \in DOMAIN onWire : writer[onWire[i]] = "ok"
    /\ \A i, j \in DOMAIN onWire : onWire[i] = onWire[j] => i = j

\* The broken connections the loop is done with.
Spent == {k \in Broken : k < nconn \/ ~Attached}

\* The frames that were accepted and never written.
Dropped ==
    {w \in Writers : /\ writer[w] = "ok"
                     /\ \A i \in DOMAIN onWire : onWire[i] # w}

\* The loop is done with one broken connection per frame that was dropped.
LossInv ==
    /\ IsFiniteSet(Dropped)
    /\ Cardinality(Dropped) <= Cardinality(Spent)

\* The invariant that carries the theorems about the client.
ClientInv ==
    /\ TypeOK
    /\ ConnInv
    /\ AbandonedOnlyAfterError
    /\ ReaderInv
    /\ ErrorInv
    /\ ChannelInv
    /\ WireInv
    /\ LossInv

-----------------------------------------------------------------------------

\* What handleConnectResult leaves the loop with: a connection to serve, another
\* attempt or the end.
LEMMA ConnectResult ==
  ASSUME TypeOK, NEW outcome \in {"ok", "rejected", "connectTo", "failed"},
         handleConnectResult(outcome)
  PROVE  /\ \/ outcome = "ok" /\ StartServing
            \/ outcome # "ok" /\ StopTrying("dial") /\ UNCHANGED chanVars
            \/ outcome # "ok" /\ StopTrying("stopped")
         /\ \/ UNCHANGED chanVars
            \/ CloseReConnect /\ ctxDone
            \/ CloseReConnect /\ StopTrying("stopped")
<1>1. ctxDone \in BOOLEAN
  BY DEF TypeOK
<1>2. CASE ctxDone
  <2>1. /\ CloseReConnect
        /\ IF outcome = "ok" THEN StartServing ELSE StopTrying("stopped")
    BY <1>2 DEF handleConnectResult
  <2>. QED
    BY <1>2, <2>1
<1>3. CASE ~ctxDone /\ outcome = "ok"
  BY <1>3 DEF handleConnectResult
<1>4. CASE ~ctxDone /\ outcome = "rejected"
  BY <1>4 DEF handleConnectResult
<1>5. CASE ~ctxDone /\ outcome = "connectTo"
  BY <1>5 DEF handleConnectResult
<1>6. CASE ~ctxDone /\ outcome = "failed"
  BY <1>6 DEF handleConnectResult, StopTrying
<1>. QED
  BY <1>1, <1>2, <1>3, <1>4, <1>5, <1>6

\* The initial state has the right types.
LEMMA InitTypeOK == Init => TypeOK
<1>. SUFFICES ASSUME Init PROVE TypeOK
  OBVIOUS
<1>1. onWire \in Seq(Writers)
  BY DEF Init
<1>2. {ctxDone, done, reConnect, panicked} \subseteq BOOLEAN
  BY DEF Init
<1>3. 0 \in 0 .. MaxConns
  BY ClientAssumption
<1>4. badDef \in BOOLEAN /\ garbled \subseteq Links
  <2>1. \/ badDef = ("badDefinition" \in Faults)
        \/ badDef = FALSE
    BY DEF Init
  <2>2. ("badDefinition" \in Faults) \in BOOLEAN /\ FALSE \in BOOLEAN
    OBVIOUS
  <2>3. badDef \in BOOLEAN
    BY <2>1, <2>2, Zenon
  <2>. QED
    BY <2>3 DEF Init
<1>. QED
  BY <1>1, <1>2, <1>3, <1>4 DEF Init, TypeOK

\* So has every step of the loop: the connection it serves is one it made.
LEMMA TypeOKLoop ==
  ASSUME TypeOK, ConnInv, runBackground
  PROVE  TypeOK'
<1>. USE ClientAssumption DEF TypeOK, Links
<1>0. ASSUME NEW outcome \in {"ok", "rejected", "connectTo", "failed"},
             handleConnectResult(outcome), loop = "dial" => outcome # "ok",
             loop \in {"dial", "handshake"},
             UNCHANGED <<badDef, nconn, reads, got, ctxDone, writer, onWire,
                         callerVars>>,
             garbled' \subseteq Links,
             link' \in [Links -> {"none", "open", "lost", "remote", "local"}]
      PROVE  TypeOK'
  <2>1. \/ StartServing /\ loop = "handshake"
        \/ StopTrying("dial") \/ StopTrying("stopped")
    BY <1>0, ConnectResult
  <2>2. nconn \in Links \/ loop = "dial"
    BY <1>0 DEF ConnInv, Attached
  <2>3. {done', reConnect', panicked'} \subseteq BOOLEAN
    BY <1>0, ConnectResult DEF CloseReConnect, chanVars
  <2>4. /\ loop' \in {"serve", "dial", "stopped"}
        /\ background' \in BOOLEAN
        /\ conn' \in 0 .. MaxConns
        /\ reader' \in [Links -> {"none", "reading", "data", "goaway",
                                  "error", "ended"}]
    <3>1. CASE StartServing /\ nconn \in Links
      BY <3>1 DEF StartServing
    <3>2. CASE StopTrying("dial") \/ StopTrying("stopped")
      BY <3>2 DEF StopTrying
    <3>. QED
      BY <2>1, <2>2, <3>1, <3>2
  <2>. QED
    BY <1>0, <2>3, <2>4 DEF callerVars
<1>1. CASE DialOk
  BY <1>1 DEF DialOk, chanVars, callerVars
<1>2. CASE DialFailed
  BY <1>0, <1>2 DEF DialFailed
<1>3. CASE HandshakeOk
  BY <1>0, <1>3 DEF HandshakeOk
<1>4. CASE HandshakeFailed
  <2>1. nconn \in Links
    <3>1. loop = "handshake"
      BY <1>4 DEF HandshakeFailed
    <3>. QED
      BY <3>1 DEF ConnInv, Attached
  <2>2. garbled' \subseteq Links
    BY <1>4, <2>1 DEF HandshakeFailed
  <2>. QED
    BY <1>0, <1>4, <2>2 DEF HandshakeFailed
<1>5. CASE ServeCancelled
  BY <1>5 DEF ServeCancelled, CloseDone, chanVars, callerVars
<1>6. ASSUME NEW w \in Writers, ServeWrite(w) PROVE TypeOK'
  <2>1. onWire' \in Seq(Writers)
    <3>1. onWire' = Append(onWire, w) \/ onWire' = onWire
      BY <1>6 DEF ServeWrite, ServeReturned
    <3>2. onWire \in Seq(Writers)
      OBVIOUS
    <3>. HIDE DEF TypeOK, Links
    <3>. QED
      BY <3>1, <3>2
  <2>2. /\ loop' \in {"serve", "dial", "stopped"}
        /\ ctxDone' \in BOOLEAN
    BY <1>6 DEF ServeWrite, ServeReturned
  <2>. QED
    BY <1>6, <2>1, <2>2 DEF ServeWrite, linkVars, chanVars, callerVars
<1>7. ASSUME NEW k \in Links, ServeReadError(k) PROVE TypeOK'
  BY <1>7 DEF ServeReadError, ServeReturned, chanVars, callerVars
<1>8. ASSUME NEW k \in Links, ServeFrame(k) PROVE TypeOK'
  BY <1>8 DEF ServeFrame, chanVars, callerVars
<1>9. CASE HandleData
  BY <1>9 DEF HandleData, linkVars, chanVars, callerVars
<1>10. CASE HandleGoaway
  BY <1>10 DEF HandleGoaway, linkVars, chanVars, callerVars
<1>11. CASE HandleGoawayDone
  BY <1>11 DEF HandleGoawayDone, linkVars, chanVars, callerVars
<1>. QED
  BY <1>1, <1>2, <1>3, <1>4, <1>5, <1>6, <1>7, <1>8, <1>9, <1>10, <1>11
     DEF runBackground

\* And every step of the others.
LEMMA TypeOKOthers ==
  ASSUME TypeOK, ConnInv,
         Environment \/ Callers \/ \E k \in Links : ReaderError(k)
  PROVE  TypeOK'
<1>. USE ClientAssumption DEF TypeOK, Links, chanVars, callerVars
<1>1. ASSUME NEW k \in Links, NEW how \in {"lost", "remote"}, Break(k, how)
      PROVE  TypeOK'
  BY <1>1 DEF Break
<1>2. ASSUME NEW k \in Links, NEW type \in {"data", "goaway"},
             ReaderFrame(k, type)
      PROVE  TypeOK'
  BY <1>2 DEF ReaderFrame
<1>3. ASSUME NEW outcome \in {"rejected", "connectTo"},
             HandshakeRefused(outcome)
      PROVE  TypeOK'
  <2>1. StopTrying("dial") \/ StopTrying("stopped")
    BY <1>3, ConnectResult DEF HandshakeRefused
  <2>2. {done', reConnect', panicked'} \subseteq BOOLEAN
    BY <1>3, ConnectResult DEF HandshakeRefused, CloseReConnect
  <2>. QED
    BY <1>3, <2>1, <2>2 DEF HandshakeRefused, StopTrying
<1>4. ASSUME NEW w \in Writers, WriteFrame(w) PROVE TypeOK'
  BY <1>4 DEF WriteFrame, linkVars
<1>5. CASE Close
  BY <1>5 DEF Close, linkVars
<1>6. CASE Wait
  BY <1>6 DEF Wait, linkVars
<1>7. CASE WaitSignal
  BY <1>7 DEF WaitSignal, linkVars
<1>8. ASSUME NEW k \in Links, ReaderError(k) PROVE TypeOK'
  BY <1>8 DEF ReaderError
<1>9. ASSUME NEW w \in Writers, WriteGivesUp(w) PROVE TypeOK'
  BY <1>9 DEF WriteGivesUp, linkVars
<1>10. CASE CloseReturn
  BY <1>10 DEF CloseReturn, linkVars
<1>11. CASE WaitReturn
  BY <1>11 DEF WaitReturn, linkVars
<1>12. ASSUME NEW k \in Links, ReaderUndecodable(k) PROVE TypeOK'
  BY <1>12 DEF ReaderUndecodable
<1>. QED
  BY <1>1, <1>2, <1>3, <1>4, <1>5, <1>6, <1>7, <1>8, <1>9, <1>10, <1>11,
     <1>12 DEF Environment, Callers

-----------------------------------------------------------------------------

\* The initial state has no connection and nothing to write.
LEMMA InitClientInv == Init => ClientInv
<1>. SUFFICES ASSUME Init PROVE ClientInv
  OBVIOUS
<1>1. TypeOK
  BY InitTypeOK
<1>2. ConnInv /\ AbandonedOnlyAfterError /\ ReaderInv /\ ErrorInv
      /\ ChannelInv
  BY DEF Init, ConnInv, AbandonedOnlyAfterError, ReaderInv, ErrorInv,
         ChannelInv, Attached, Active
<1>3. WireInv
  BY DEF Init, WireInv
<1>4. LossInv
  <2>1. Dropped = {} /\ Spent = {}
    BY DEF Init, Dropped, Spent, Broken
  <2>. QED
    BY <2>1, FS_EmptySet DEF LossInv
<1>. QED
  BY <1>1, <1>2, <1>3, <1>4 DEF ClientInv

\* What excuses an open connection stays: no step mends a lost connection, and
\* what a reader could not decode is not forgotten.
LEMMA ExcusesStay ==
  ASSUME TypeOK, ConnInv, Next, NEW k \in Links
  PROVE  /\ LostUpTo(k) => LostUpTo(k)'
         /\ Excused(k) => Excused(k)'
<1>. USE ClientAssumption DEF Links
<1>0. /\ nconn \in 0 .. MaxConns /\ MaxConns \in Nat
      /\ link \in [Links -> {"none", "open", "lost", "remote", "local"}]
  BY DEF TypeOK
<1>1. \A j \in Links : link[j] = "lost" => link'[j] = "lost"
  <2>1. ASSUME NEW x \in Links, link[x] # "lost", NEW v,
               link' = [link EXCEPT ![x] = v]
        PROVE  \A j \in Links : link[j] = "lost" => link'[j] = "lost"
    BY <1>0, <2>1
  <2>2. CASE DialOk
    <3>1. /\ nconn + 1 \in Links /\ link[nconn + 1] = "none"
          /\ link' = [link EXCEPT ![nconn + 1] = "open"]
      BY <1>0, <2>2 DEF DialOk, ConnInv
    <3>. QED
      BY <2>1, <3>1
  <2>3. CASE ServeCancelled
    <3>1. /\ nconn \in Links /\ conn = nconn
          /\ link' = [link EXCEPT ![nconn] = IF @ = "open" THEN "local" ELSE @]
      BY <1>0, <2>3 DEF ServeCancelled, ConnInv, Attached
    <3>. QED
      BY <1>0, <3>1
  <2>4. ASSUME NEW outcome \in {"rejected", "connectTo"},
               HandshakeRefused(outcome)
        PROVE  \A j \in Links : link[j] = "lost" => link'[j] = "lost"
    <3>1. /\ nconn \in Links /\ link[nconn] = "open"
          /\ link' = [link EXCEPT ![nconn] = "local"]
      BY <1>0, <2>4 DEF HandshakeRefused, ConnInv, Attached
    <3>. QED
      BY <2>1, <3>1
  <2>5. ASSUME NEW x \in Links, NEW how \in {"lost", "remote"}, Break(x, how)
        PROVE  \A j \in Links : link[j] = "lost" => link'[j] = "lost"
    BY <2>1, <2>5 DEF Break
  <2>6. CASE link' = link
    BY <2>6
  <2>. QED
    BY <2>2, <2>3, <2>4, <2>5, <2>6
       DEF Next, Environment, runBackground, Callers, DialFailed, HandshakeOk,
           HandshakeFailed, ServeWrite, ServeReadError, ServeFrame, HandleData,
           HandleGoaway, HandleGoawayDone, ReaderFrame, ReaderUndecodable,
           ReaderError, Close, Wait, WaitSignal, CloseReturn, WaitReturn,
           WriteFrame, WriteGivesUp, linkVars
<1>2. garbled \subseteq garbled' /\ badDef' = badDef
  BY DEF Next, Environment, runBackground, Callers, DialOk, DialFailed,
         HandshakeOk, HandshakeFailed, HandshakeRefused, ServeCancelled,
         ServeWrite, ServeReadError, ServeFrame, HandleData, HandleGoaway,
         HandleGoawayDone, ReaderFrame, ReaderUndecodable, ReaderError, Break,
         Close, Wait, WaitSignal, CloseReturn, WaitReturn, WriteFrame,
         WriteGivesUp, linkVars
<1>3. LostUpTo(k) => LostUpTo(k)'
  BY <1>1 DEF LostUpTo
<1>4. LostUpTo(k - 1) => LostUpTo(k - 1)'
  BY <1>1 DEF LostUpTo
<1>. QED
  BY <1>2, <1>3, <1>4 DEF Excused

\* No ended connection comes back.
LEMMA ErrorKeeps ==
  ASSUME TypeOK, ConnInv, ErrorInv, Next
  PROVE  ErrorInv'
<1>. USE ClientAssumption DEF Links
<1>0. /\ nconn \in 0 .. MaxConns /\ MaxConns \in Nat
      /\ link \in [Links -> {"none", "open", "lost", "remote", "local"}]
      /\ reader \in [Links -> {"none", "reading", "data", "goaway", "error",
                               "ended"}]
  BY DEF TypeOK
<1>1. ASSUME garbled \subseteq garbled',
             \A x \in Links : reader'[x] = "error" => reader[x] = "error",
             \A x \in Links : link[x] \in {"lost", "remote", "local"}
                                  => link'[x] \in {"lost", "remote", "local"}
      PROVE  ErrorInv'
  BY <1>1 DEF ErrorInv
<1>2. CASE DialOk
  <2>1. /\ nconn + 1 \in Links /\ link[nconn + 1] = "none"
        /\ link' = [link EXCEPT ![nconn + 1] = "open"]
        /\ reader' = reader /\ garbled' = garbled
    BY <1>0, <1>2 DEF DialOk, ConnInv
  <2>. QED
    BY <1>0, <1>1, <2>1
<1>3. ASSUME NEW outcome \in {"ok", "rejected", "connectTo", "failed"},
             handleConnectResult(outcome), outcome = "ok" => loop = "handshake"
      PROVE  \A x \in Links : reader'[x] = "error" => reader[x] = "error"
  <2>1. CASE outcome = "ok"
    <3>1. nconn \in Links /\ reader' = [reader EXCEPT ![nconn] = "reading"]
      BY <1>0, <1>3, <2>1, ConnectResult DEF StartServing, ConnInv, Attached
    <3>. QED
      BY <1>0, <3>1
  <2>2. CASE outcome # "ok"
    BY <1>3, <2>2, ConnectResult DEF StopTrying
  <2>. QED
    BY <2>1, <2>2
<1>4. CASE DialFailed
  <2>1. \A x \in Links : reader'[x] = "error" => reader[x] = "error"
    BY <1>3, <1>4 DEF DialFailed
  <2>. QED
    BY <1>1, <1>4, <2>1 DEF DialFailed
<1>5. CASE HandshakeOk
  <2>1. \A x \in Links : reader'[x] = "error" => reader[x] = "error"
    BY <1>3, <1>5 DEF HandshakeOk
  <2>. QED
    BY <1>1, <1>5, <2>1 DEF HandshakeOk
<1>6. CASE HandshakeFailed
  <2>1. \A x \in Links : reader'[x] = "error" => reader[x] = "error"
    BY <1>3, <1>6 DEF HandshakeFailed
  <2>2. link' = link /\ garbled \subseteq garbled'
    BY <1>6 DEF HandshakeFailed
  <2>. QED
    BY <1>1, <2>1, <2>2
<1>7. ASSUME NEW outcome \in {"rejected", "connectTo"},
             HandshakeRefused(outcome)
      PROVE  ErrorInv'
  <2>1. \A x \in Links : reader'[x] = "error" => reader[x] = "error"
    BY <1>3, <1>7 DEF HandshakeRefused
  <2>2. /\ nconn \in Links /\ garbled' = garbled
        /\ link' = [link EXCEPT ![nconn] = "local"]
    BY <1>0, <1>7 DEF HandshakeRefused, ConnInv, Attached
  <2>. QED
    BY <1>0, <1>1, <2>1, <2>2
<1>8. CASE ServeCancelled
  BY <1>0, <1>1, <1>8 DEF ServeCancelled, ConnInv
<1>9. ASSUME NEW k \in Links, ServeReadError(k) PROVE ErrorInv'
  BY <1>0, <1>1, <1>9 DEF ServeReadError
<1>10. ASSUME NEW k \in Links, ServeFrame(k) PROVE ErrorInv'
  BY <1>0, <1>1, <1>10 DEF ServeFrame
<1>11. ASSUME NEW k \in Links, NEW type \in {"data", "goaway"},
              ReaderFrame(k, type)
       PROVE  ErrorInv'
  BY <1>0, <1>1, <1>11 DEF ReaderFrame
<1>12. ASSUME NEW k \in Links, ReaderUndecodable(k) PROVE ErrorInv'
  BY <1>0, <1>12 DEF ReaderUndecodable, ErrorInv
<1>13. ASSUME NEW k \in Links, ReaderError(k) PROVE ErrorInv'
  BY <1>0, <1>13 DEF ReaderError, ErrorInv
<1>14. ASSUME NEW k \in Links, NEW how \in {"lost", "remote"}, Break(k, how)
       PROVE  ErrorInv'
  BY <1>0, <1>1, <1>14 DEF Break
<1>15. CASE UNCHANGED <<link, reader, garbled>>
  BY <1>1, <1>15
<1>. QED
  BY <1>2, <1>4, <1>5, <1>6, <1>7, <1>8, <1>9, <1>10, <1>11, <1>12, <1>13,
     <1>14, <1>15
     DEF Next, Environment, runBackground, Callers, ServeWrite, HandleData,
         HandleGoaway, HandleGoawayDone, Close, Wait, WaitSignal, CloseReturn,
         WaitReturn, WriteFrame, WriteGivesUp, linkVars

\* The property, in the words of the invariant.
LEMMA Abandoned ==
  AbandonedOnlyAfterError <=>
      \A k \in Links : link[k] = "open" /\ k # nconn => Excused(k)
BY DEF AbandonedOnlyAfterError, Excused, LostUpTo

\* The loop leaves a connection open behind its back, and its reader reading,
\* only for a reason.
LEMMA ConnLoop ==
  ASSUME TypeOK, ConnInv, AbandonedOnlyAfterError, ReaderInv, ErrorInv, Next,
         runBackground
  PROVE  ConnInv' /\ AbandonedOnlyAfterError' /\ ReaderInv'
<1>. USE ClientAssumption DEF Links, Attached
<1>. DEFINE Left == \A k \in Links : link[k] = "open" /\ k # nconn => Excused(k)
<1>0. /\ nconn \in 0 .. MaxConns /\ MaxConns \in Nat
      /\ link \in [Links -> {"none", "open", "lost", "remote", "local"}]
      /\ reader \in [Links -> {"none", "reading", "data", "goaway", "error",
                               "ended"}]
      /\ loop \in {"dial", "handshake", "serve", "handle", "closing",
                   "stopped"}
      /\ background \in BOOLEAN
      /\ garbled \subseteq Links
  BY DEF TypeOK
<1>a. Left
  BY Abandoned
<1>b. Left' => AbandonedOnlyAfterError'
  BY DEF AbandonedOnlyAfterError, Excused, LostUpTo
<1>c. \A k \in Links : /\ LostUpTo(k) => LostUpTo(k)'
                       /\ Excused(k) => Excused(k)'
  BY ExcusesStay
<1>1. CASE DialOk
  <2>1. /\ loop = "dial" /\ loop' = "handshake"
        /\ ~(background /\ ctxDone)
        /\ nconn' = nconn + 1 /\ nconn + 1 \in Links
        /\ link' = [link EXCEPT ![nconn + 1] = "open"]
        /\ conn' = conn /\ reader' = reader
    BY <1>0, <1>1 DEF DialOk
  <2>2. Left'
    <3>. SUFFICES ASSUME NEW k \in Links, link'[k] = "open", k # nconn'
                  PROVE  Excused(k)'
      BY DEF Left
    <3>1. link[k] = "open"
      BY <1>0, <2>1
    <3>. QED
      BY <1>c, <2>1, <3>1 DEF ConnInv
  <2>3. ReaderInv'
    <3>1. reader[nconn + 1] = "none"
      BY <1>0, <2>1 DEF ConnInv
    <3>2. ASSUME NEW k \in Links, Active(k)' PROVE LostUpTo(k)'
      <4>1. Active(k)
        BY <2>1, <3>2 DEF Active
      <4>. QED
        BY <1>c, <2>1, <4>1 DEF ReaderInv
    <3>. QED
      BY <2>1, <3>1, <3>2 DEF ReaderInv
  <2>4. ConnInv'
    BY <1>0, <2>1 DEF ConnInv
  <2>. QED
    BY <1>b, <2>2, <2>3, <2>4
<1>2. ASSUME UNCHANGED <<nconn, link, conn, reader, background>>,
             ctxDone => ctxDone',
             loop' \in {"dial", "stopped"},
             loop = "dial" \/ link[nconn] # "open" \/ Excused(nconn)',
             loop' = "dial" => \/ loop = "dial"
                               \/ loop = "handshake"
                               \/ loop = "serve" /\ link[nconn] = "lost"
      PROVE  ConnInv' /\ AbandonedOnlyAfterError' /\ ReaderInv'
  <2>0. \A k \in Links : Active(k)' <=> Active(k)
    BY <1>2 DEF Active
  <2>1. Left'
    BY <1>a, <1>c, <1>2
  <2>2. ASSUME loop' = "dial", NEW k \in Links, link'[k] = "open"
        PROVE  Excused(k)'
    <3>1. CASE k # nconn
      BY <1>2, <2>1, <2>2, <3>1
    <3>2. CASE k = nconn
      BY <1>2, <1>c, <2>2, <3>2 DEF ConnInv
    <3>. QED
      BY <3>1, <3>2
  <2>3. ConnInv'
    <3>1. /\ \A k \in Links : reader[k] # "none" => k <= nconn
          /\ \A k \in Links : k > nconn => link[k] = "none"
      BY DEF ConnInv
    <3>. QED
      BY <1>2, <2>2, <3>1 DEF ConnInv
  <2>4. ASSUME loop' = "dial", NEW k \in Links, Active(k)
        PROVE  LostUpTo(k) \/ (background /\ ctxDone)
    <3>1. CASE k < nconn
      BY <2>4, <3>1 DEF ReaderInv
    <3>2. CASE loop = "dial"
      BY <2>4, <3>2 DEF ReaderInv
    <3>3. CASE k = nconn /\ loop = "handshake"
      BY <2>4, <3>3 DEF ReaderInv, Active
    <3>4. CASE k = nconn /\ link[nconn] = "lost"
      BY <1>0, <2>4, <3>4 DEF LostUpTo
    <3>5. k <= nconn
      BY <2>4 DEF Active, ConnInv
    <3>. QED
      BY <1>0, <1>2, <2>4, <3>1, <3>2, <3>3, <3>4, <3>5
  <2>5. ReaderInv'
    <3>1. \A k \in Links : Active(k)' /\ k < nconn' => LostUpTo(k)'
      BY <1>c, <1>2, <2>0 DEF ReaderInv
    <3>2. loop' = "dial" =>
             \A k \in Links :
                 Active(k)' => LostUpTo(k)' \/ (background' /\ ctxDone')
      BY <1>c, <1>2, <2>0, <2>4
    <3>. QED
      BY <1>2, <3>1, <3>2 DEF ReaderInv
  <2>. QED
    BY <1>b, <2>1, <2>3, <2>5
<1>3. CASE DialFailed
  <2>1. StopTrying("dial") \/ StopTrying("stopped")
    BY <1>3, ConnectResult DEF DialFailed
  <2>. QED
    BY <1>2, <1>3, <2>1 DEF DialFailed, StopTrying
<1>4. CASE HandshakeOk
  <2>1. /\ loop = "handshake" /\ StartServing
        /\ UNCHANGED <<nconn, link, ctxDone>>
    BY <1>4, ConnectResult DEF HandshakeOk
  <2>2. nconn \in Links
    BY <1>0, <2>1 DEF ConnInv
  <2>3. \A k \in Links : k # nconn => reader'[k] = reader[k]
    BY <1>0, <2>1, <2>2 DEF StartServing
  <2>4. Left'
    BY <1>a, <1>c, <2>1
  <2>5. ConnInv'
    BY <1>0, <2>1, <2>2, <2>3 DEF StartServing, ConnInv
  <2>6. \A k \in Links : Active(k)' /\ k < nconn' => LostUpTo(k)'
    BY <1>0, <1>c, <2>1, <2>3 DEF ReaderInv, Active
  <2>7. ReaderInv'
    BY <2>1, <2>6 DEF StartServing, ReaderInv
  <2>. QED
    BY <1>b, <2>4, <2>5, <2>7
<1>5. CASE HandshakeFailed
  <2>1. StopTrying("dial") \/ StopTrying("stopped")
    BY <1>5, ConnectResult DEF HandshakeFailed
  <2>2. link[nconn] # "open" \/ Excused(nconn)'
    BY <1>0, <1>5 DEF HandshakeFailed, Excused, ConnInv
  <2>. QED
    BY <1>2, <1>5, <2>1, <2>2 DEF HandshakeFailed, StopTrying
<1>6. CASE ServeCancelled
  <2>1. /\ loop = "serve" /\ loop' = "dial" /\ conn = nconn
        /\ link' = [link EXCEPT ![nconn] = IF @ = "open" THEN "local" ELSE @]
        /\ nconn \in Links
        /\ UNCHANGED <<nconn, conn, reader, background, ctxDone>>
        /\ background /\ ctxDone
    BY <1>0, <1>6 DEF ServeCancelled, ConnInv, ReaderInv
  <2>2. \A k \in Links : link'[k] = "open" => link[k] = "open" /\ k # nconn
    BY <1>0, <2>1
  <2>3. \A k \in Links : link'[k] = "open" => Excused(k)'
    BY <1>a, <1>c, <2>2
  <2>4. ConnInv'
    BY <1>0, <2>1, <2>3 DEF ConnInv
  <2>5. \A k \in Links : Active(k)' /\ k < nconn' => LostUpTo(k)'
    BY <1>c, <2>1 DEF ReaderInv, Active
  <2>6. ReaderInv'
    BY <2>1, <2>5 DEF ReaderInv
  <2>. QED
    BY <1>b, <2>3, <2>4, <2>6
<1>7. ASSUME NEW w \in Writers, ServeWrite(w)
      PROVE  ConnInv' /\ AbandonedOnlyAfterError' /\ ReaderInv'
  <2>1. /\ UNCHANGED <<nconn, link, conn, reader, background>>
        /\ ctxDone => ctxDone'
        /\ loop = "serve" /\ conn = nconn
    BY <1>7 DEF ServeWrite, ServeReturned, ConnInv, linkVars
  <2>2. CASE link[nconn] = "open"
    <3>1. loop' = "serve"
      BY <1>7, <2>1, <2>2 DEF ServeWrite
    <3>2. Left' /\ ConnInv'
      BY <1>0, <1>a, <1>c, <2>1, <3>1 DEF ConnInv
    <3>3. \A k \in Links : Active(k)' /\ k < nconn' => LostUpTo(k)'
      BY <1>c, <2>1 DEF ReaderInv, Active
    <3>4. ReaderInv'
      BY <2>1, <3>1, <3>3 DEF ReaderInv
    <3>. QED
      BY <1>b, <3>2, <3>4
  <2>3. CASE link[nconn] # "open"
    <3>1. /\ loop' \in {"dial", "stopped"}
          /\ loop' = "dial" => link[nconn] = "lost"
      BY <1>7, <2>1, <2>3 DEF ServeWrite, ServeReturned
    <3>. QED
      BY <1>2, <2>1, <2>3, <3>1
  <2>. QED
    BY <2>2, <2>3
<1>8. ASSUME NEW k \in Links, ServeReadError(k)
      PROVE  ConnInv' /\ AbandonedOnlyAfterError' /\ ReaderInv'
  <2>0. /\ UNCHANGED <<nconn, link, conn, background>>
        /\ loop = "serve"
        /\ reader[k] = "error"
        /\ reader' = [reader EXCEPT ![k] = "ended"]
        /\ ctxDone => ctxDone'
        /\ ServeReturned(IF k \in garbled THEN "open" ELSE link[k])
    BY <1>8 DEF ServeReadError, ServeReturned
  <2>1. /\ UNCHANGED <<nconn, link, conn, background>>
        /\ loop = "serve"
        /\ reader[k] # "none" /\ k <= nconn /\ Active(k)
        /\ reader' = [reader EXCEPT ![k] = "ended"]
        /\ ctxDone => ctxDone'
        /\ \/ loop' = "stopped"
           \/ loop' = "dial" /\ (link[k] = "lost" \/ k \in garbled)
    <3>1. \/ loop' = "stopped"
          \/ loop' = "dial" /\ (link[k] = "lost" \/ k \in garbled)
      <4>1. CASE k \in garbled
        BY <2>0, <4>1 DEF ServeReturned
      <4>2. CASE k \notin garbled
        <5>1. link[k] \in {"lost", "remote", "local"}
          BY <2>0, <4>2 DEF ErrorInv
        <5>. QED
          BY <2>0, <4>2, <5>1 DEF ServeReturned
      <4>. QED
        BY <4>1, <4>2
    <3>2. reader[k] # "none" /\ Active(k) /\ k <= nconn
      BY <1>0, <2>0 DEF ConnInv, Active
    <3>. QED
      BY <2>0, <3>1, <3>2
  <2>2. /\ ~Active(k)'
        /\ \A x \in Links : Active(x)' => Active(x)
        /\ \A x \in Links : reader'[x] # "none" => reader[x] # "none"
    BY <1>0, <2>1 DEF Active
  <2>3. ASSUME loop' = "dial", k # nconn PROVE LostUpTo(nconn - 1)
    <3>1. LostUpTo(k)
      BY <1>0, <2>1, <2>3 DEF ReaderInv
    <3>. QED
      BY <1>0, <2>1, <2>3, <3>1 DEF LostUpTo
  <2>4. ASSUME loop' = "dial", link[nconn] = "open" PROVE Excused(nconn)
    <3>1. CASE k # nconn
      BY <2>3, <2>4, <3>1 DEF Excused
    <3>2. CASE k = nconn
      BY <2>1, <2>4, <3>2 DEF Excused
    <3>. QED
      BY <3>1, <3>2
  <2>5. Left'
    BY <1>a, <1>c, <2>1
  <2>6. ConnInv'
    <3>1. ASSUME loop' = "dial", NEW x \in Links, link'[x] = "open"
          PROVE  Excused(x)'
      BY <1>c, <2>1, <2>4, <2>5, <3>1
    <3>. QED
      BY <1>0, <2>1, <2>2, <3>1 DEF ConnInv
  <2>7. ReaderInv'
    <3>1. \A x \in Links : Active(x)' /\ x < nconn' => LostUpTo(x)'
      BY <1>c, <2>1, <2>2 DEF ReaderInv
    <3>2. ASSUME loop' = "dial", NEW x \in Links, Active(x)'
          PROVE  LostUpTo(x)'
      <4>1. CASE x < nconn
        BY <2>1, <3>1, <3>2, <4>1
      <4>2. CASE x = nconn
        <5>1. k # nconn
          BY <2>2, <3>2, <4>2
        <5>2. LostUpTo(nconn - 1)
          BY <2>3, <3>2, <5>1
        <5>3. LostUpTo(nconn)
          BY <1>0, <5>2 DEF LostUpTo
        <5>. QED
          BY <1>c, <4>2, <5>3
      <4>3. x <= nconn
        BY <2>2, <3>2 DEF Active, ConnInv
      <4>. QED
        BY <1>0, <4>1, <4>2, <4>3
    <3>. QED
      BY <2>1, <3>1, <3>2 DEF ReaderInv
  <2>. QED
    BY <1>b, <2>5, <2>6, <2>7
<1>9. ASSUME loop \in {"serve", "handle", "closing"},
             loop' \in {"serve", "handle", "closing"},
             UNCHANGED <<nconn, link, conn, background>>,
             \A x \in Links : Active(x)' => Active(x),
             \A x \in Links : reader'[x] # "none" => reader[x] # "none"
      PROVE  ConnInv' /\ AbandonedOnlyAfterError' /\ ReaderInv'
  <2>1. Left'
    BY <1>a, <1>c, <1>9
  <2>2. ConnInv'
    BY <1>0, <1>9 DEF ConnInv
  <2>3. \A x \in Links : Active(x)' /\ x < nconn' => LostUpTo(x)'
    BY <1>c, <1>9 DEF ReaderInv
  <2>4. ReaderInv'
    BY <1>9, <2>3 DEF ReaderInv
  <2>. QED
    BY <1>b, <2>1, <2>2, <2>4
<1>10. ASSUME NEW k \in Links, ServeFrame(k)
       PROVE  ConnInv' /\ AbandonedOnlyAfterError' /\ ReaderInv'
  <2>1. /\ \A x \in Links : Active(x)' => Active(x)
        /\ \A x \in Links : reader'[x] # "none" => reader[x] # "none"
    BY <1>0, <1>10 DEF ServeFrame, Active
  <2>. QED
    BY <1>9, <1>10, <2>1 DEF ServeFrame
<1>11. CASE HandleData \/ HandleGoaway \/ HandleGoawayDone
  <2>1. /\ UNCHANGED <<nconn, link, conn, reader, background>>
        /\ loop \in {"handle", "closing"} /\ loop' \in {"serve", "closing"}
    BY <1>11 DEF HandleData, HandleGoaway, HandleGoawayDone, linkVars
  <2>2. \A x \in Links : Active(x)' => Active(x)
    BY <2>1 DEF Active
  <2>. QED
    BY <1>9, <2>1, <2>2
<1>. QED
  BY <1>1, <1>3, <1>4, <1>5, <1>6, <1>7, <1>8, <1>10, <1>11 DEF runBackground

\* The others break connections and read from them.
LEMMA ConnOthers ==
  ASSUME TypeOK, ConnInv, AbandonedOnlyAfterError, ReaderInv, Next,
         Environment \/ Callers \/ \E k \in Links : ReaderError(k)
  PROVE  ConnInv' /\ AbandonedOnlyAfterError' /\ ReaderInv'
<1>. USE ClientAssumption DEF Links, Attached
<1>. DEFINE Left == \A k \in Links : link[k] = "open" /\ k # nconn => Excused(k)
<1>0. /\ nconn \in 0 .. MaxConns /\ MaxConns \in Nat
      /\ link \in [Links -> {"none", "open", "lost", "remote", "local"}]
      /\ reader \in [Links -> {"none", "reading", "data", "goaway", "error",
                               "ended"}]
      /\ loop \in {"dial", "handshake", "serve", "handle", "closing",
                   "stopped"}
  BY DEF TypeOK
<1>a. Left
  BY Abandoned
<1>b. Left' => AbandonedOnlyAfterError'
  BY DEF AbandonedOnlyAfterError, Excused, LostUpTo
<1>c. \A k \in Links : /\ LostUpTo(k) => LostUpTo(k)'
                       /\ Excused(k) => Excused(k)'
  BY ExcusesStay
<1>1. ASSUME UNCHANGED <<loop, conn, nconn, background>>,
             ctxDone => ctxDone',
             \A x \in Links : link'[x] = "open" => link[x] = "open",
             \A x \in Links : x > nconn => link'[x] = "none",
             Attached => link'[nconn] \in {"open", "lost", "remote"},
             \A x \in Links : Active(x)' => Active(x),
             \A x \in Links : reader[x] = "none" => reader'[x] = "none"
      PROVE  ConnInv' /\ AbandonedOnlyAfterError' /\ ReaderInv'
  <2>1. Left'
    BY <1>a, <1>c, <1>1
  <2>2. ConnInv'
    BY <1>0, <1>c, <1>1 DEF ConnInv
  <2>3. \A x \in Links : Active(x)' /\ x < nconn' => LostUpTo(x)'
    BY <1>c, <1>1 DEF ReaderInv
  <2>4. loop' = "dial" =>
           \A x \in Links :
               Active(x)' => LostUpTo(x)' \/ (background' /\ ctxDone')
    BY <1>c, <1>1 DEF ReaderInv
  <2>5. loop' = "handshake" => reader'[nconn'] = "none"
    BY <1>0, <1>1 DEF ReaderInv, ConnInv
  <2>6. ReaderInv'
    BY <1>1, <2>3, <2>4, <2>5 DEF ReaderInv
  <2>. QED
    BY <1>b, <2>1, <2>2, <2>6
<1>2. ASSUME NEW k \in Links, NEW how \in {"lost", "remote"}, Break(k, how)
      PROVE  ConnInv' /\ AbandonedOnlyAfterError' /\ ReaderInv'
  <2>1. /\ link[k] = "open" /\ link' = [link EXCEPT ![k] = how]
        /\ UNCHANGED <<loop, conn, nconn, background, reader, ctxDone>>
    BY <1>2 DEF Break
  <2>2. /\ \A x \in Links : link'[x] = "open" => link[x] = "open"
        /\ \A x \in Links : x > nconn => link'[x] = "none"
        /\ Attached => link'[nconn] \in {"open", "lost", "remote"}
    BY <1>0, <2>1 DEF ConnInv
  <2>3. \A x \in Links : Active(x)' => Active(x)
    BY <2>1 DEF Active
  <2>. QED
    BY <1>1, <2>1, <2>2, <2>3
<1>3. ASSUME NEW outcome \in {"rejected", "connectTo"},
             HandshakeRefused(outcome)
      PROVE  ConnInv' /\ AbandonedOnlyAfterError' /\ ReaderInv'
  <2>1. /\ loop = "handshake" /\ loop' \in {"dial", "stopped"}
        /\ nconn \in Links
        /\ link' = [link EXCEPT ![nconn] = "local"] /\ link[nconn] = "open"
        /\ UNCHANGED <<nconn, conn, reader, background>>
    BY <1>0, <1>3, ConnectResult DEF HandshakeRefused, StopTrying, ConnInv
  <2>2. \A k \in Links : link'[k] = "open" => link[k] = "open" /\ k # nconn
    BY <1>0, <2>1
  <2>3. \A k \in Links : link'[k] = "open" => Excused(k)'
    BY <1>a, <1>c, <2>2
  <2>4. ConnInv'
    BY <1>0, <2>1, <2>3 DEF ConnInv
  <2>5. \A x \in Links : Active(x)' => Active(x) /\ x < nconn
    BY <1>0, <2>1 DEF Active, ReaderInv, ConnInv
  <2>6. \A x \in Links : Active(x)' => LostUpTo(x)'
    BY <1>c, <2>5 DEF ReaderInv
  <2>7. ReaderInv'
    BY <2>1, <2>6 DEF ReaderInv
  <2>. QED
    BY <1>b, <2>3, <2>4, <2>7
<1>4. ASSUME NEW k \in Links, NEW v, v # "none", reader[k] = "reading",
             reader' = [reader EXCEPT ![k] = v],
             UNCHANGED <<loop, background, conn, nconn, link, ctxDone>>
      PROVE  ConnInv' /\ AbandonedOnlyAfterError' /\ ReaderInv'
  <2>1. /\ \A x \in Links : Active(x)' => Active(x)
        /\ \A x \in Links : reader[x] = "none" => reader'[x] = "none"
    BY <1>0, <1>4 DEF Active
  <2>2. /\ \A x \in Links : x > nconn => link'[x] = "none"
        /\ Attached => link'[nconn] \in {"open", "lost", "remote"}
    BY <1>4 DEF ConnInv
  <2>. QED
    BY <1>1, <1>4, <2>1, <2>2
<1>5. CASE \/ \E k \in Links : \E type \in {"data", "goaway"} :
                 ReaderFrame(k, type)
           \/ \E k \in Links : ReaderError(k) \/ ReaderUndecodable(k)
  BY <1>4, <1>5 DEF ReaderFrame, ReaderError, ReaderUndecodable
<1>6. CASE \/ Close \/ Wait \/ WaitSignal \/ CloseReturn \/ WaitReturn
           \/ \E w \in Writers : WriteFrame(w) \/ WriteGivesUp(w)
  <2>1. /\ UNCHANGED <<loop, conn, nconn, background, link, reader>>
        /\ ctxDone => ctxDone'
    BY <1>6 DEF Close, Wait, WaitSignal, CloseReturn, WaitReturn,
                WriteFrame, WriteGivesUp, linkVars
  <2>2. \A x \in Links : Active(x)' => Active(x)
    BY <2>1 DEF Active
  <2>3. /\ \A x \in Links : x > nconn => link'[x] = "none"
        /\ Attached => link'[nconn] \in {"open", "lost", "remote"}
    BY <2>1 DEF ConnInv
  <2>. QED
    BY <1>1, <2>1, <2>2, <2>3
<1>. QED
  BY <1>2, <1>3, <1>5, <1>6 DEF Environment, Callers

-----------------------------------------------------------------------------

\* A rejection closes reConnect once, because the loop stops there; whoever else
\* closes a channel has seen the cancelled context, which stays cancelled.
LEMMA ChannelKeeps ==
  ASSUME TypeOK, ChannelInv, Next
  PROVE  ChannelInv'
<1>0. /\ ctxDone \in BOOLEAN /\ done \in BOOLEAN /\ reConnect \in BOOLEAN
      /\ panicked \in BOOLEAN /\ ~panicked
  BY DEF TypeOK, Next
<1>1. ASSUME UNCHANGED chanVars, ctxDone => ctxDone',
             loop = "stopped" => loop' = "stopped"
      PROVE  ChannelInv'
  BY <1>1 DEF ChannelInv, chanVars
<1>2. ASSUME NEW outcome \in {"ok", "rejected", "connectTo", "failed"},
             handleConnectResult(outcome), loop # "stopped",
             UNCHANGED ctxDone
      PROVE  ChannelInv'
  <2>1. CASE UNCHANGED chanVars
    BY <1>1, <1>2, <2>1
  <2>2. CASE CloseReConnect /\ ctxDone
    BY <1>2, <2>2 DEF CloseReConnect, ChannelInv
  <2>3. CASE CloseReConnect /\ StopTrying("stopped")
    <3>1. reConnect => ctxDone
      BY <1>2 DEF ChannelInv
    <3>2. panicked' = reConnect /\ done' = done /\ loop' = "stopped"
      BY <2>3 DEF CloseReConnect, StopTrying
    <3>. QED
      BY <1>2, <3>1, <3>2 DEF ChannelInv
  <2>. QED
    BY <1>2, <2>1, <2>2, <2>3, ConnectResult
<1>3. CASE DialFailed
  BY <1>2, <1>3 DEF DialFailed
<1>4. CASE HandshakeOk
  BY <1>2, <1>4 DEF HandshakeOk
<1>5. CASE HandshakeFailed
  BY <1>2, <1>5 DEF HandshakeFailed
<1>6. ASSUME NEW outcome \in {"rejected", "connectTo"},
             HandshakeRefused(outcome)
      PROVE  ChannelInv'
  BY <1>2, <1>6 DEF HandshakeRefused
<1>7. CASE ServeCancelled
  BY <1>7 DEF ServeCancelled, CloseDone, ChannelInv
<1>8. ASSUME NEW w \in Writers, ServeWrite(w) PROVE ChannelInv'
  BY <1>0, <1>1, <1>8 DEF ServeWrite, ServeReturned
<1>9. ASSUME NEW k \in Links, ServeReadError(k) PROVE ChannelInv'
  BY <1>0, <1>1, <1>9 DEF ServeReadError, ServeReturned
<1>10. CASE \/ DialOk \/ HandleData \/ HandleGoaway \/ HandleGoawayDone
            \/ \E k \in Links : ServeFrame(k)
  BY <1>1, <1>10 DEF DialOk, HandleData, HandleGoaway, HandleGoawayDone,
                     ServeFrame
<1>11. CASE \/ \E k \in Links : \E how \in {"lost", "remote"} : Break(k, how)
            \/ \E k \in Links : \E type \in {"data", "goaway"} :
                  ReaderFrame(k, type)
            \/ \E k \in Links : ReaderError(k) \/ ReaderUndecodable(k)
            \/ Close \/ Wait \/ WaitSignal \/ CloseReturn \/ WaitReturn
            \/ \E w \in Writers : WriteFrame(w) \/ WriteGivesUp(w)
  BY <1>1, <1>11 DEF Break, ReaderFrame, ReaderError, ReaderUndecodable, Close,
                     Wait, WaitSignal, CloseReturn, WaitReturn, WriteFrame, WriteGivesUp
<1>. QED
  BY <1>3, <1>4, <1>5, <1>6, <1>7, <1>8, <1>9, <1>10, <1>11
     DEF Next, Environment, runBackground, Callers

\* Who touches the callers of WriteFrame and the wire.
LEMMA WhoWrites ==
  ASSUME Next
  PROVE  \/ UNCHANGED <<writer, onWire>>
         \/ \E w \in Writers : ServeWrite(w) \/ WriteFrame(w) \/ WriteGivesUp(w)
BY DEF Next, Environment, runBackground, Callers, DialOk, DialFailed,
       HandshakeOk, HandshakeFailed, HandshakeRefused, ServeCancelled,
       ServeReadError, ServeFrame, HandleData, HandleGoaway, HandleGoawayDone,
       Break, ReaderFrame, ReaderUndecodable, ReaderError, Close, Wait,
       WaitSignal, CloseReturn, WaitReturn

\* A frame goes on the wire in the step that answers its caller, and a caller is
\* answered once.
LEMMA WireKeeps ==
  ASSUME TypeOK, WireInv, Next
  PROVE  WireInv'
<1>0. onWire \in Seq(Writers)
      /\ writer \in [Writers -> {"idle", "blocked", "ok", "error"}]
  BY DEF TypeOK
<1>1. \A i \in DOMAIN onWire : onWire[i] \in Writers
  BY <1>0
<1>2. ASSUME NEW w \in Writers, onWire' = onWire, writer[w] # "ok",
             NEW v, writer' = [writer EXCEPT ![w] = v]
      PROVE  WireInv'
  BY <1>0, <1>1, <1>2 DEF WireInv
<1>3. ASSUME NEW w \in Writers, ServeWrite(w) PROVE WireInv'
  <2>1. /\ writer[w] = "blocked" /\ writer' = [writer EXCEPT ![w] = "ok"]
        /\ onWire' = Append(onWire, w) \/ onWire' = onWire
    BY <1>3 DEF ServeWrite
  <2>2. CASE onWire' = onWire
    BY <1>2, <2>1, <2>2
  <2>3. CASE onWire' = Append(onWire, w)
    <3>1. /\ DOMAIN onWire = 1 .. Len(onWire) /\ Len(onWire) \in Nat
          /\ DOMAIN onWire' = 1 .. Len(onWire) + 1
          /\ onWire'[Len(onWire) + 1] = w
          /\ \A i \in DOMAIN onWire : onWire'[i] = onWire[i] /\ onWire[i] # w
      BY <1>0, <2>1, <2>3 DEF WireInv
    <3>2. \A i \in DOMAIN onWire' : i \in DOMAIN onWire \/ i = Len(onWire) + 1
      BY <3>1
    <3>. QED
      BY <1>0, <1>1, <2>1, <3>1, <3>2 DEF WireInv
  <2>. QED
    BY <2>1, <2>2, <2>3
<1>4. ASSUME NEW w \in Writers, WriteFrame(w) \/ WriteGivesUp(w)
      PROVE  WireInv'
  BY <1>2, <1>4 DEF WriteFrame, WriteGivesUp
<1>5. CASE UNCHANGED <<writer, onWire>>
  BY <1>5 DEF WireInv
<1>. QED
  BY <1>3, <1>4, <1>5, WhoWrites

\* The loop never comes back to a broken connection it is done with.
LEMMA SpentGrows ==
  ASSUME TypeOK, ConnInv, Next
  PROVE  Spent \subseteq Spent'
<1>. USE ClientAssumption DEF Links
<1>0. /\ nconn \in 0 .. MaxConns /\ MaxConns \in Nat
      /\ link \in [Links -> {"none", "open", "lost", "remote", "local"}]
  BY DEF TypeOK
<1>1. Broken \subseteq Broken'
  <2>1. ASSUME link' = link PROVE Broken \subseteq Broken'
    BY <2>1 DEF Broken
  <2>2. ASSUME NEW k \in Links, link[k] \notin {"lost", "remote"}, NEW v,
               link' = [link EXCEPT ![k] = v]
        PROVE  Broken \subseteq Broken'
    BY <1>0, <2>2 DEF Broken
  <2>3. CASE DialOk
    <3>1. /\ nconn + 1 \in Links /\ link[nconn + 1] = "none"
          /\ link' = [link EXCEPT ![nconn + 1] = "open"]
      BY <1>0, <2>3 DEF DialOk, ConnInv
    <3>. QED
      BY <2>2, <3>1
  <2>4. CASE ServeCancelled
    <3>1. /\ nconn \in Links /\ conn = nconn
          /\ link' = [link EXCEPT ![nconn] = IF @ = "open" THEN "local" ELSE @]
      BY <1>0, <2>4 DEF ServeCancelled, ConnInv, Attached
    <3>. QED
      BY <1>0, <3>1 DEF Broken
  <2>5. ASSUME NEW outcome \in {"rejected", "connectTo"},
               HandshakeRefused(outcome)
        PROVE  Broken \subseteq Broken'
    <3>1. /\ nconn \in Links /\ link[nconn] = "open"
          /\ link' = [link EXCEPT ![nconn] = "local"]
      BY <1>0, <2>5 DEF HandshakeRefused, ConnInv, Attached
    <3>. QED
      BY <2>2, <3>1
  <2>6. ASSUME NEW k \in Links, NEW how \in {"lost", "remote"}, Break(k, how)
        PROVE  Broken \subseteq Broken'
    BY <2>2, <2>6 DEF Break
  <2>7. CASE link' = link
    BY <2>1, <2>7
  <2>. QED
    BY <2>3, <2>4, <2>5, <2>6, <2>7
       DEF Next, Environment, runBackground, Callers, DialFailed, HandshakeOk,
           HandshakeFailed, ServeWrite, ServeReadError, ServeFrame, HandleData,
           HandleGoaway, HandleGoawayDone, ReaderFrame, ReaderUndecodable,
           ReaderError, Close, Wait, WaitSignal, CloseReturn, WaitReturn, WriteFrame, WriteGivesUp,
           linkVars
<1>2. \/ nconn' = nconn /\ (Attached' => Attached)
      \/ nconn' = nconn + 1
  <2>1. CASE DialOk
    BY <2>1 DEF DialOk
  <2>2. CASE HandshakeOk
    BY <2>2 DEF HandshakeOk, Attached
  <2>3. CASE DialFailed \/ HandshakeFailed
             \/ \E outcome \in {"rejected", "connectTo"} :
                   HandshakeRefused(outcome)
    BY <2>3, ConnectResult DEF DialFailed, HandshakeFailed, HandshakeRefused,
                               StopTrying, Attached
  <2>. QED
    BY <2>1, <2>2, <2>3
       DEF Next, Environment, runBackground, Callers, ServeCancelled,
           ServeWrite, ServeReadError, ServeFrame, HandleData,
           HandleGoaway, HandleGoawayDone, ReaderFrame, ReaderUndecodable,
           ReaderError, Close, Wait, WaitSignal, CloseReturn, WaitReturn, WriteFrame, WriteGivesUp,
           Break, linkVars, Attached
<1>3. \A k \in Broken : k \in Links /\ k <= nconn
  BY <1>0 DEF Broken, ConnInv
<1>. QED
  BY <1>0, <1>1, <1>2, <1>3 DEF Spent

\* A frame is dropped by the last write on a broken connection.
LEMMA LossKeeps ==
  ASSUME TypeOK, ConnInv, WireInv, LossInv, Next, ConnInv'
  PROVE  LossInv'
<1>. USE ClientAssumption
<1>0. /\ onWire \in Seq(Writers)
      /\ writer \in [Writers -> {"idle", "blocked", "ok", "error"}]
      /\ nconn \in 0 .. MaxConns /\ MaxConns \in Nat
  BY DEF TypeOK
<1>1. /\ IsFiniteSet(Spent) /\ IsFiniteSet(Spent')
      /\ Cardinality(Spent) \in Nat /\ Cardinality(Spent') \in Nat
      /\ Cardinality(Spent) <= Cardinality(Spent')
      /\ Cardinality(Dropped) \in Nat
  <2>1. IsFiniteSet(1 .. MaxConns)
    BY <1>0, FS_Interval
  <2>2. Spent \subseteq 1 .. MaxConns /\ Spent' \subseteq 1 .. MaxConns
    BY DEF Spent, Broken, Links
  <2>3. IsFiniteSet(Spent) /\ IsFiniteSet(Spent')
    BY <2>1, <2>2, FS_Subset
  <2>. QED
    BY <2>3, SpentGrows, FS_Subset, FS_CardinalityType DEF LossInv
<1>2. ASSUME Dropped' = Dropped PROVE LossInv'
  BY <1>1, <1>2 DEF LossInv
<1>3. ASSUME NEW w \in Writers, writer[w] # "ok", onWire' = onWire,
             NEW v, v # "ok", writer' = [writer EXCEPT ![w] = v]
      PROVE  LossInv'
  BY <1>0, <1>2, <1>3 DEF Dropped
<1>4. ASSUME NEW w \in Writers, ServeWrite(w) PROVE LossInv'
  <2>1. /\ loop = "serve" /\ conn = nconn /\ writer[w] = "blocked"
        /\ writer' = [writer EXCEPT ![w] = "ok"]
        /\ UNCHANGED <<nconn, link>>
        /\ \A i \in DOMAIN onWire : onWire[i] # w
    BY <1>4 DEF ServeWrite, ConnInv, WireInv, linkVars
  <2>2. CASE onWire' = Append(onWire, w)
    <3>1. /\ DOMAIN onWire = 1 .. Len(onWire) /\ Len(onWire) \in Nat
          /\ DOMAIN onWire' = DOMAIN onWire \union {Len(onWire) + 1}
          /\ onWire'[Len(onWire) + 1] = w
          /\ \A i \in DOMAIN onWire : onWire'[i] = onWire[i]
      BY <1>0, <2>2
    <3>2. Dropped' = Dropped
      BY <1>0, <2>1, <3>1 DEF Dropped
    <3>. QED
      BY <1>2, <3>2
  <2>3. CASE onWire' = onWire /\ link[nconn] # "open"
    <3>1. Dropped' = Dropped \union {w} /\ w \notin Dropped
      BY <1>0, <2>1, <2>3 DEF Dropped
    <3>2. loop' \in {"dial", "stopped"}
      BY <1>4, <2>1, <2>3 DEF ServeWrite, ServeReturned
    <3>3. nconn \in Spent' /\ nconn \notin Spent
      BY <1>0, <2>1, <2>3, <3>2 DEF Spent, Broken, Links, ConnInv, Attached
    <3>4. Spent \union {nconn} \subseteq Spent'
      BY <3>3, SpentGrows
    <3>5. Cardinality(Spent \union {nconn}) = Cardinality(Spent) + 1
      BY <1>1, <3>3, FS_AddElement
    <3>6. Cardinality(Spent \union {nconn}) <= Cardinality(Spent')
      BY <1>1, <3>4, FS_Subset
    <3>7. /\ IsFiniteSet(Dropped')
          /\ Cardinality(Dropped') = Cardinality(Dropped) + 1
      BY <3>1, FS_AddElement DEF LossInv
    <3>. QED
      BY <1>1, <3>5, <3>6, <3>7 DEF LossInv
  <2>. QED
    BY <1>4, <2>1, <2>2, <2>3 DEF ServeWrite
<1>5. ASSUME NEW w \in Writers, WriteFrame(w) \/ WriteGivesUp(w)
      PROVE  LossInv'
  BY <1>3, <1>5 DEF WriteFrame, WriteGivesUp
<1>6. CASE UNCHANGED <<writer, onWire>>
  BY <1>2, <1>6 DEF Dropped
<1>. QED
  BY <1>4, <1>5, <1>6, WhoWrites

-----------------------------------------------------------------------------

\* No interleaving of the loop, the readers, the callers and the zipper breaks
\* the invariant.
THEOREM ClientInvariant == Spec => []ClientInv
<1>1. Init => ClientInv
  BY InitClientInv
<1>2. ClientInv /\ [Next]_vars => ClientInv'
  <2>. SUFFICES ASSUME ClientInv, [Next]_vars PROVE ClientInv'
    OBVIOUS
  <2>. USE DEF ClientInv
  <2>1. CASE Next
    <3>1. TypeOK'
      BY <2>1, TypeOKLoop, TypeOKOthers DEF Next
    <3>2. ConnInv' /\ AbandonedOnlyAfterError' /\ ReaderInv'
      BY <2>1, ConnLoop, ConnOthers DEF Next
    <3>. QED
      BY <2>1, <3>1, <3>2, ErrorKeeps, ChannelKeeps, WireKeeps, LossKeeps
  <2>2. CASE UNCHANGED vars
    <3>. USE <2>2 DEF vars, linkVars, chanVars, callerVars
    <3>1. TypeOK' /\ ChannelInv' /\ WireInv' /\ ErrorInv'
      BY DEF TypeOK, ChannelInv, WireInv, ErrorInv
    <3>2. ConnInv' /\ AbandonedOnlyAfterError' /\ ReaderInv'
      BY DEF ConnInv, AbandonedOnlyAfterError, ReaderInv, Attached, Active,
             Excused, LostUpTo
    <3>3. LossInv'
      BY DEF LossInv, Dropped, Spent, Broken, Attached
    <3>. QED
      BY <3>1, <3>2, <3>3
  <2>. QED
    BY <2>1, <2>2
<1>. QED
  BY <1>1, <1>2, PTL DEF Spec

\* How often a frame is on the wire: not at all, or once.
LEMMA CountIs ==
  ASSUME TypeOK, WireInv, NEW w \in Writers
  PROVE  IF \A i \in DOMAIN onWire : onWire[i] # w THEN Count(w) = 0
         ELSE Count(w) = 1 /\ writer[w] = "ok"
<1>1. CASE \A i \in DOMAIN onWire : onWire[i] # w
  <2>1. {i \in DOMAIN onWire : onWire[i] = w} = {}
    BY <1>1
  <2>. QED
    BY <1>1, <2>1, FS_EmptySet DEF Count
<1>2. ASSUME NEW i \in DOMAIN onWire, onWire[i] = w
      PROVE  Count(w) = 1 /\ writer[w] = "ok"
  <2>1. {j \in DOMAIN onWire : onWire[j] = w} = {i}
    BY <1>2 DEF WireInv
  <2>2. Count(w) = 1
    BY <2>1, FS_Singleton DEF Count
  <2>. QED
    BY <1>2, <2>2 DEF WireInv
<1>. QED
  BY <1>1, <1>2

\* WriteFrame tells its caller the truth about the wire, through any number of
\* reconnections: a frame is written at most once, and never after its caller
\* got an error (client.go WriteFrame and handleConn).
THEOREM WriteOutcomeHolds == Spec => []WriteOutcome
<1>1. ClientInv => WriteOutcome
  BY CountIs DEF ClientInv, WriteOutcome
<1>. QED
  BY <1>1, ClientInvariant, PTL

\* At most one accepted frame is lost for each connection that breaks, however
\* many callers write (client.go handleConn returns on the first failed write).
THEOREM LossIsBounded == Spec => []LossBounded
<1>1. ClientInv => LossBounded
  <2>. SUFFICES ASSUME ClientInv PROVE LossBounded
    OBVIOUS
  <2>1. LostFrames = Dropped
    BY CountIs DEF ClientInv, LostFrames, Dropped
  <2>2. IsFiniteSet(Broken)
    <3>1. IsFiniteSet(1 .. MaxConns)
      BY ClientAssumption, FS_Interval
    <3>. QED
      BY <3>1, FS_Subset DEF Broken, Links
  <2>3. Cardinality(Spent) <= Cardinality(Broken)
    BY <2>2, FS_Subset DEF Spent
  <2>4. /\ Cardinality(Spent) \in Nat /\ Cardinality(Broken) \in Nat
        /\ Cardinality(Dropped) \in Nat
    BY <2>2, FS_Subset, FS_CardinalityType DEF ClientInv, LossInv, Spent
  <2>. QED
    BY <2>1, <2>3, <2>4 DEF ClientInv, LossInv, LossBounded
<1>. QED
  BY <1>1, ClientInvariant, PTL

\* The client leaves a connection open behind its back only after the loss of an
\* earlier one, a frame that does not decode or a definition that does not parse
\* (client.go connect and serveConn, whose readers share rdCh).
THEOREM AbandonsOnlyAfterError == Spec => []AbandonedOnlyAfterError
<1>1. ClientInv => AbandonedOnlyAfterError
  BY DEF ClientInv
<1>. QED
  BY <1>1, ClientInvariant, PTL

\* Only a client whose context was cancelled can close a channel twice (client.go
\* handleConnectResult and serveConn).
THEOREM PanicsOnlyInShutdown == Spec => []PanicOnlyInShutdown
<1>1. ClientInv => PanicOnlyInShutdown
  BY DEF ClientInv, ChannelInv, PanicOnlyInShutdown
<1>. QED
  BY <1>1, ClientInvariant, PTL
=============================================================================
