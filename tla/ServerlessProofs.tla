-------------------------- MODULE ServerlessProofs --------------------------
(***************************************************************************)
(* Proofs about Serverless: that the guests of the wasm runtime take       *)
(* turns, for any number of frames, host calls and guests, and for every   *)
(* length of data and size of the guest's buffer; that the deno runtime    *)
(* attributes replies to their frames, for any number of either; and what  *)
(* the windows of SlidingWindowWithCount hold, for every size of the       *)
(* window and of the slide.                                                *)
(***************************************************************************)
EXTENDS Serverless, Integers, FiniteSetTheorems, TLAPS

-----------------------------------------------------------------------------
(***************************************************************************)
(* The guest of the wasm runtime: the two mutexes make the handlers take   *)
(* turns.                                                                  *)
(***************************************************************************)

DataType == [of : WFrames \union {Nothing}, len : Nat]
HandlerType ==
  [pc : {"idle", "arrived", "locked", "guest", "grow", "http", "return", "done"},
   tag : WFrames \union {Nothing}, data : DataType \union {Nothing},
   size : Nat, calls : Nat]

\* A record with the fields of the runtime.
Whole(w) == w = [phase |-> w.phase, guest |-> w.guest, observed |-> w.observed,
                 wanted |-> w.wanted, exited |-> w.exited, closed |-> w.closed,
                 client |-> w.client]

WasmTypeOK ==
  /\ Whole(wasm)
  /\ handler \in [WFrames -> HandlerType]
  /\ readBuf \in DataType

InRunHandler == {"guest", "grow", "http", "return"}

\* The handler that is inside RunHandler has both mutexes and the context; the
\* one that is about to call it has the first.
TakesTurn(f) ==
  /\ handler[f].pc = "locked" => smu = f
  /\ handler[f].pc \in InRunHandler => smu = f /\ rmu = f /\ serverlessCtx = f

\* What a handler has read, and a guest that asks for the data a second time
\* asks for all of it.
HasRead(f) ==
  /\ handler[f].tag \in {Nothing, f}
  /\ handler[f].data \in {Nothing, Data(f)}
  /\ handler[f].pc = "grow" => handler[f].size = WLen[f] /\ WLen[f] # 0
  /\ handler[f].pc \in {"guest", "grow", "http"} => ~wasm.closed

FromItsFrame(e) ==
  /\ e.ctx = e.by
  /\ e.target = Nothing => /\ e.data.by = e.by
                           /\ e.data.from \in {Nothing, Data(e.by)}

WasmInv ==
  /\ WasmTypeOK
  /\ \A f \in WFrames : TakesTurn(f)
  /\ \A f \in WFrames : HasRead(f)
  /\ \A e \in emitted : FromItsFrame(e)

LEMMA WholeExcept ==
  ASSUME NEW w, Whole(w), NEW x
  PROVE  /\ Whole([w EXCEPT !.phase = x]) /\ [w EXCEPT !.phase = x].closed = w.closed
         /\ [w EXCEPT !.phase = x].phase = x
         /\ Whole([w EXCEPT !.exited = x]) /\ [w EXCEPT !.exited = x].closed = w.closed
         /\ Whole([w EXCEPT !.client = x]) /\ [w EXCEPT !.client = x].closed = w.closed
<1>. DEFINE v == [w EXCEPT !.phase = x]
            u == [w EXCEPT !.exited = x]
            c == [w EXCEPT !.client = x]
<1>1. w = [phase |-> w.phase, guest |-> w.guest, observed |-> w.observed,
           wanted |-> w.wanted, exited |-> w.exited, closed |-> w.closed,
           client |-> w.client]
  BY DEF Whole
<1>2. v = [phase |-> x, guest |-> w.guest, observed |-> w.observed,
           wanted |-> w.wanted, exited |-> w.exited, closed |-> w.closed,
           client |-> w.client]
  BY <1>1
<1>3. u = [phase |-> w.phase, guest |-> w.guest, observed |-> w.observed,
           wanted |-> w.wanted, exited |-> x, closed |-> w.closed,
           client |-> w.client]
  BY <1>1
<1>4. c = [phase |-> w.phase, guest |-> w.guest, observed |-> w.observed,
           wanted |-> w.wanted, exited |-> w.exited, closed |-> w.closed,
           client |-> x]
  BY <1>1
<1>. HIDE DEF u, v, c
<1>5. Whole(v) /\ v.closed = w.closed /\ v.phase = x
  BY <1>2 DEF Whole
<1>6. Whole(u) /\ u.closed = w.closed
  BY <1>3 DEF Whole
<1>7. Whole(c) /\ c.closed = w.closed
  BY <1>4 DEF Whole
<1>. QED
  BY <1>5, <1>6, <1>7 DEF u, v, c

\* A step of the runtime's owner, of which the handlers see only that it may
\* close the runtime.
LEMMA OwnerStep ==
  ASSUME WasmInv, Whole(wasm'), wasm'.closed = wasm.closed \/ rmu = Nothing,
         UNCHANGED <<smu, rmu, serverlessCtx, readBuf, handler, emitted>>
  PROVE  WasmInv'
<1>1. WasmTypeOK'
  BY DEF WasmInv, WasmTypeOK
<1>2. ASSUME NEW f \in WFrames
      PROVE  TakesTurn(f)' /\ HasRead(f)'
  <2>1. TakesTurn(f) /\ HasRead(f)
    BY DEF WasmInv
  <2>2. TakesTurn(f)'
    BY <2>1 DEF TakesTurn
  <2>3. CASE wasm'.closed = wasm.closed
    BY <2>1, <2>2, <2>3 DEF HasRead
  <2>4. CASE rmu = Nothing
    <3>1. handler[f].pc \notin {"guest", "grow", "http"}
      BY <2>1, <2>4, WasmAssumption DEF TakesTurn, InRunHandler
    <3>. QED
      BY <2>1, <2>2, <3>1 DEF HasRead
  <2>. QED
    BY <2>3, <2>4
<1>3. \A e \in emitted' : FromItsFrame(e)
  BY DEF WasmInv
<1>. QED
  BY <1>1, <1>2, <1>3 DEF WasmInv

\* A step of the handler of f, which moves on to h.
LEMMA HandlerStep ==
  ASSUME WasmInv, NEW f \in WFrames, NEW h \in HandlerType,
         handler' = [handler EXCEPT ![f] = h],
         Whole(wasm'), wasm'.closed = wasm.closed, readBuf' \in DataType,
         \A e \in emitted' : FromItsFrame(e),
         \A g \in WFrames \ {f} :
            /\ handler[g].pc = "locked" => smu' = g
            /\ handler[g].pc \in InRunHandler =>
                  smu' = g /\ rmu' = g /\ serverlessCtx' = g,
         h.pc = "locked" => smu' = f,
         h.pc \in InRunHandler => smu' = f /\ rmu' = f /\ serverlessCtx' = f,
         h.tag \in {Nothing, f}, h.data \in {Nothing, Data(f)},
         h.pc = "grow" => h.size = WLen[f] /\ WLen[f] # 0,
         h.pc \in {"guest", "grow", "http"} => ~wasm.closed
  PROVE  WasmInv'
<1>1. /\ handler' \in [WFrames -> HandlerType] /\ handler'[f] = h
      /\ \A g \in WFrames : g # f => handler'[g] = handler[g]
  <2>. HIDE DEF HandlerType
  <2>. QED
    BY DEF WasmInv, WasmTypeOK
<1>2. WasmTypeOK'
  BY <1>1 DEF WasmTypeOK
<1>3. ASSUME NEW g \in WFrames
      PROVE  TakesTurn(g)' /\ HasRead(g)'
  <2>1. CASE g = f
    BY <1>1, <2>1 DEF TakesTurn, HasRead
  <2>2. CASE g # f
    <3>1. HasRead(g) /\ handler'[g] = handler[g]
      BY <1>1, <2>2 DEF WasmInv
    <3>2. TakesTurn(g)'
      BY <2>2, <3>1 DEF TakesTurn
    <3>3. HasRead(g)'
      BY <3>1 DEF HasRead
    <3>. QED
      BY <3>2, <3>3
  <2>. QED
    BY <2>1, <2>2
<1>. QED
  BY <1>2, <1>3 DEF WasmInv

\* A step of the guest that works on f.
LEMMA GuestStep ==
  ASSUME WasmInv, NEW f \in WFrames, NEW h \in HandlerType,
         handler[f].pc \in {"guest", "grow", "http"},
         h.pc \in InRunHandler,
         handler' = [handler EXCEPT ![f] = h],
         Whole(wasm'), wasm'.closed = wasm.closed, readBuf' \in DataType,
         UNCHANGED <<smu, rmu, serverlessCtx>>,
         \A e \in emitted' : FromItsFrame(e),
         h.tag \in {Nothing, f}, h.data \in {Nothing, Data(f)},
         h.pc = "grow" => h.size = WLen[f] /\ WLen[f] # 0
  PROVE  WasmInv'
<1>1. /\ smu = f /\ rmu = f /\ serverlessCtx = f /\ ~wasm.closed
      /\ \A g \in WFrames : /\ handler[g].pc = "locked" => smu = g
                            /\ handler[g].pc \in InRunHandler =>
                                smu = g /\ rmu = g /\ serverlessCtx = g
  BY DEF WasmInv, TakesTurn, HasRead, InRunHandler
<1>2. h.pc # "locked"
  BY DEF InRunHandler
<1>3. \A g \in WFrames \ {f} :
            /\ handler[g].pc = "locked" => smu' = g
            /\ handler[g].pc \in InRunHandler =>
                  smu' = g /\ rmu' = g /\ serverlessCtx' = g
  BY <1>1
<1>4. h.pc \in InRunHandler => smu' = f /\ rmu' = f /\ serverlessCtx' = f
  BY <1>1
<1>. QED
  BY <1>1, <1>2, <1>3, <1>4, HandlerStep

\* The record of a handler whose guest has made a host call.
LEMMA CalledIs ==
  ASSUME WasmInv, NEW f \in WFrames
  PROVE  \E h \in HandlerType :
           /\ h.pc = "guest" /\ h.tag \in {Nothing, f} /\ h.data \in {Nothing, Data(f)}
           /\ Called(f) = [handler EXCEPT ![f] = h]
<1>. DEFINE h == [handler[f] EXCEPT !.pc = "guest", !.calls = handler[f].calls + 1]
<1>1. handler[f] \in HandlerType /\ HasRead(f) /\ handler \in [WFrames -> HandlerType]
  BY DEF WasmInv, WasmTypeOK
<1>2. handler[f].calls + 1 \in Nat
  BY <1>1 DEF HandlerType
<1>3. h \in HandlerType
  BY <1>1, <1>2 DEF HandlerType
<1>4. h.pc = "guest" /\ h.tag = handler[f].tag /\ h.data = handler[f].data
  BY <1>1 DEF HandlerType
<1>5. Called(f) = [handler EXCEPT ![f] = h]
  BY <1>1 DEF Called
<1>. HIDE DEF h
<1>. QED
  BY <1>1, <1>3, <1>4, <1>5 DEF HasRead

\* What every handler step needs of the invariant.
LEMMA WasmFacts ==
  ASSUME WasmInv, NEW f \in WFrames
  PROVE  /\ Whole(wasm) /\ readBuf \in DataType /\ (\A e \in emitted : FromItsFrame(e))
         /\ handler \in [WFrames -> HandlerType]
         /\ handler[f] \in HandlerType /\ TakesTurn(f) /\ HasRead(f)
         /\ WLen[f] \in Nat /\ ReadBufSize \in Nat /\ ReadBufSize # 0
         /\ Data(f) \in DataType /\ f # Nothing
         /\ handler[f].pc \in {"guest", "grow", "http"} => serverlessCtx = f
BY WasmAssumption
   DEF WasmInv, WasmTypeOK, Data, DataType, TakesTurn, InRunHandler

\* Taking and giving back the mutexes.
LEMMA TurnStep ==
  ASSUME WasmInv, NEW f \in WFrames,
         Arrive(f) \/ LockServerless(f) \/ RunHandler(f) \/ HandlerReturns(f)
  PROVE  WasmInv'
<1>. DEFINE Others == \A g \in WFrames \ {f} :
            /\ handler[g].pc = "locked" => smu' = g
            /\ handler[g].pc \in InRunHandler =>
                  smu' = g /\ rmu' = g /\ serverlessCtx' = g
            h(pc) == [handler[f] EXCEPT !.pc = pc]
<1>1. /\ Whole(wasm) /\ readBuf \in DataType /\ (\A e \in emitted : FromItsFrame(e))
      /\ f # Nothing /\ TakesTurn(f)
  BY WasmFacts
<1>2. \A g \in WFrames : TakesTurn(g) /\ g # Nothing
  BY WasmAssumption DEF WasmInv
<1>3. ASSUME NEW pc \in {"arrived", "locked", "guest", "return", "done"}
      PROVE  /\ h(pc) \in HandlerType /\ h(pc).pc = pc
             /\ h(pc).tag \in {Nothing, f} /\ h(pc).data \in {Nothing, Data(f)}
             /\ [handler EXCEPT ![f].pc = pc] = [handler EXCEPT ![f] = h(pc)]
  <2>1. handler[f] \in HandlerType /\ HasRead(f) /\ handler \in [WFrames -> HandlerType]
    BY DEF WasmInv, WasmTypeOK
  <2>. QED
    BY <2>1 DEF HandlerType, HasRead
<1>. HIDE DEF h
<1>4. CASE Arrive(f)
  <2>1. Others
    BY <1>2, <1>4 DEF Arrive, TakesTurn
  <2>2. /\ handler' = [handler EXCEPT ![f] = h("arrived")] /\ wasm' = wasm
        /\ UNCHANGED <<readBuf, emitted>>
    BY <1>3, <1>4 DEF Arrive, Goto
  <2>3. "arrived" \notin InRunHandler
    BY DEF InRunHandler
  <2>. QED
    BY <1>1, <1>3, <2>1, <2>2, <2>3, HandlerStep
<1>5. CASE LockServerless(f)
  <2>1. Others
    BY <1>2, <1>5 DEF LockServerless, TakesTurn
  <2>2. /\ handler' = [handler EXCEPT ![f] = h("locked")] /\ wasm' = wasm
        /\ UNCHANGED <<readBuf, emitted>> /\ smu' = f
    BY <1>3, <1>5 DEF LockServerless, Goto
  <2>3. "locked" \notin InRunHandler
    BY DEF InRunHandler
  <2>. QED
    BY <1>1, <1>3, <2>1, <2>2, <2>3, HandlerStep
<1>6. CASE RunHandler(f)
  <2>1. smu = f /\ smu' = f /\ rmu = Nothing /\ rmu' = f /\ serverlessCtx' = f
    BY <1>1, <1>6 DEF RunHandler, TakesTurn
  <2>2. Others
    BY <1>2, <2>1 DEF TakesTurn
  <2>3. PICK pc \in {"guest", "return"} :
          /\ handler' = [handler EXCEPT ![f] = h(pc)]
          /\ pc = "guest" => ~wasm.closed
    <3>. DEFINE pc == IF wasm.closed \/ wasm.exited THEN "return" ELSE "guest"
    <3>1. pc \in {"guest", "return"} /\ (pc = "guest" => ~wasm.closed)
      OBVIOUS
    <3>2. handler' = [handler EXCEPT ![f].pc = pc]
      BY <1>6 DEF RunHandler, Goto
    <3>. HIDE DEF pc
    <3>. QED
      BY <1>3, <3>1, <3>2
  <2>4. /\ UNCHANGED <<readBuf, emitted>> /\ Whole(wasm') /\ wasm'.closed = wasm.closed
    BY <1>1, <1>6, WholeExcept DEF RunHandler
  <2>. QED
    BY <1>1, <1>3, <2>1, <2>2, <2>3, <2>4, HandlerStep
<1>7. CASE HandlerReturns(f)
  <2>1. smu = f
    BY <1>1, <1>7 DEF HandlerReturns, TakesTurn, InRunHandler
  <2>2. Others
    BY <1>2, <2>1 DEF TakesTurn
  <2>3. /\ handler' = [handler EXCEPT ![f] = h("done")] /\ wasm' = wasm
        /\ UNCHANGED <<readBuf, emitted>>
    BY <1>3, <1>7 DEF HandlerReturns, Goto
  <2>4. "done" \notin InRunHandler
    BY DEF InRunHandler
  <2>. QED
    BY <1>1, <1>3, <2>2, <2>3, <2>4, HandlerStep
<1>. QED
  BY <1>4, <1>5, <1>6, <1>7

\* What goes out through the context of f, made of the data its guest has.
LEMMA WriteStep ==
  ASSUME WasmInv, NEW f \in WFrames, NEW ok \in BOOLEAN, serverlessCtx = f,
         \/ write(f, Result(f), Nothing, ok)
         \/ \E target \in {GuestTarget} \ {Nothing} :
                writeWithTarget(f, Result(f), target, ok)
  PROVE  \A e \in emitted' : FromItsFrame(e)
<1>1. handler[f].data \in {Nothing, Data(f)} /\ \A e \in emitted : FromItsFrame(e)
  BY DEF WasmInv, HasRead
<1>2. ASSUME NEW data, NEW target, write(f, data, target, ok),
             target = Nothing => data = Result(f)
      PROVE  \A e \in emitted' : FromItsFrame(e)
  <2>. DEFINE new == [by |-> f, ctx |-> serverlessCtx, data |-> data, target |-> target]
  <2>1. FromItsFrame(new)
    BY <1>1, <1>2 DEF FromItsFrame, Result
  <2>. HIDE DEF new
  <2>2. emitted' \subseteq emitted \union {new}
    BY <1>2 DEF write, new
  <2>. QED
    BY <1>1, <2>1, <2>2
<1>3. CASE write(f, Result(f), Nothing, ok)
  BY <1>2, <1>3
<1>4. ASSUME NEW target \in {GuestTarget} \ {Nothing},
             writeWithTarget(f, Result(f), target, ok)
      PROVE  \A e \in emitted' : FromItsFrame(e)
  BY <1>2, <1>4 DEF writeWithTarget
<1>. QED
  BY <1>3, <1>4

\* The guest and the host functions.
LEMMA GuestCalls ==
  ASSUME WasmInv, NEW f \in WFrames,
         \/ GuestTag(f) \/ GetBytes(f) \/ GetBytesAgain(f)
         \/ \E ok \in BOOLEAN :
              \/ \E what \in {"nil", "empty", "result"} : GuestWrite(f, what, ok)
              \/ \E target \in {Nothing, GuestTarget} : GuestWriteWithTarget(f, target, ok)
         \/ GuestHTTPSend(f)
         \/ \E outcome \in {"response", "error"} : HTTPDone(f, outcome)
         \/ GuestReturns(f) \/ GuestExits(f)
  PROVE  WasmInv'
<1>. DEFINE h(pc) == [handler[f] EXCEPT !.pc = pc]
            Spared == UNCHANGED <<wasm, smu, rmu, serverlessCtx, readBuf, emitted>>
<1>1. /\ Whole(wasm) /\ readBuf \in DataType /\ (\A e \in emitted : FromItsFrame(e))
      /\ handler \in [WFrames -> HandlerType]
      /\ handler[f] \in HandlerType /\ HasRead(f)
      /\ WLen[f] \in Nat /\ ReadBufSize \in Nat /\ ReadBufSize # 0
      /\ Data(f) \in DataType
      /\ handler[f].pc \in {"guest", "grow", "http"} => serverlessCtx = f
  BY WasmFacts
<1>2. ASSUME NEW pc \in {"http", "return"}
      PROVE  /\ h(pc) \in HandlerType /\ h(pc).pc = pc
             /\ h(pc).tag \in {Nothing, f} /\ h(pc).data \in {Nothing, Data(f)}
             /\ [handler EXCEPT ![f].pc = pc] = [handler EXCEPT ![f] = h(pc)]
  <2>1. handler \in [WFrames -> HandlerType]
    BY DEF WasmInv, WasmTypeOK
  <2>. QED
    BY <1>1, <2>1 DEF HandlerType, HasRead
<1>3. PICK c \in HandlerType :
         /\ c.pc = "guest" /\ c.tag \in {Nothing, f} /\ c.data \in {Nothing, Data(f)}
         /\ Called(f) = [handler EXCEPT ![f] = c]
  BY CalledIs
<1>4. {"http", "return", "guest", "grow"} = InRunHandler
  BY DEF InRunHandler
<1>. HIDE DEF h
<1>5. CASE GuestTag(f)
  <2>. DEFINE t == [c EXCEPT !.tag = f]
  <2>1. /\ t \in HandlerType /\ t.pc = "guest" /\ t.tag = f
        /\ t.data \in {Nothing, Data(f)}
        /\ [Called(f) EXCEPT ![f].tag = f] = [handler EXCEPT ![f] = t]
    BY <1>1, <1>3 DEF HandlerType
  <2>2. handler' = [handler EXCEPT ![f] = t] /\ Spared /\ handler[f].pc = "guest"
    BY <1>1, <1>5, <2>1 DEF GuestTag, MayCall, InGuest, contextTag
  <2>. HIDE DEF t
  <2>. QED
    BY <1>1, <1>4, <2>1, <2>2, GuestStep
<1>6. ASSUME NEW data \in {Nothing, Data(f)}, handler[f].pc \in {"guest", "grow"},
             handler' = [Called(f) EXCEPT ![f].data = data], readBuf' \in DataType,
             UNCHANGED <<wasm, smu, rmu, serverlessCtx, emitted>>
      PROVE  WasmInv'
  <2>1. data \in DataType \union {Nothing}
    BY <1>1
  <2>. DEFINE d == [c EXCEPT !.data = data]
  <2>2. /\ d \in HandlerType /\ d.pc = "guest" /\ d.data = data
        /\ d.tag \in {Nothing, f}
    BY <1>3, <2>1 DEF HandlerType
  <2>3. [Called(f) EXCEPT ![f].data = data] = [handler EXCEPT ![f] = d]
    BY <1>1, <1>3
  <2>. HIDE DEF d
  <2>. QED
    BY <1>1, <1>4, <1>6, <2>2, <2>3, GuestStep
<1>7. CASE GetBytes(f)
  <2>0. handler[f].pc = "guest" /\ serverlessCtx = f
    BY <1>1, <1>7 DEF GetBytes, MayCall, InGuest
  <2>. DEFINE r == contextData(ReadBufSize)
  <2>1. /\ r.size = WLen[f] /\ r.data = Data(f)
        /\ r.fits <=> (WLen[f] <= ReadBufSize /\ WLen[f] # 0)
    BY <2>0 DEF contextData, Data
  <2>2. /\ readBuf' = IF r.fits THEN r.data ELSE readBuf
        /\ UNCHANGED <<wasm, smu, rmu, serverlessCtx, emitted>>
        /\ handler' =
              IF r.size > ReadBufSize
                THEN [handler EXCEPT ![f].pc = "grow", ![f].size = r.size]
                ELSE [Called(f) EXCEPT ![f].data =
                        IF r.size = 0 THEN Nothing ELSE [readBuf' EXCEPT !.len = r.size]]
    BY <1>7 DEF GetBytes
  <2>. HIDE DEF r
  <2>3. readBuf' \in DataType
    BY <1>1, <2>1, <2>2
  <2>4. CASE WLen[f] > ReadBufSize
    <3>. DEFINE g == [handler[f] EXCEPT !.pc = "grow", !.size = WLen[f]]
    <3>1. g \in HandlerType
      BY <1>1 DEF HandlerType
    <3>2. /\ g.pc = "grow" /\ g.size = WLen[f] /\ g.tag \in {Nothing, f}
          /\ g.data \in {Nothing, Data(f)}
      BY <1>1 DEF HandlerType, HasRead
    <3>3. handler' = [handler EXCEPT ![f] = g]
      <4>1. handler \in [WFrames -> HandlerType]
        BY DEF WasmInv, WasmTypeOK
      <4>. QED
        BY <2>1, <2>2, <2>4, <4>1
    <3>4. WLen[f] # 0
      BY <1>1, <2>4
    <3>. HIDE DEF g
    <3>. QED
      BY <1>1, <1>4, <2>0, <2>2, <2>3, <3>1, <3>2, <3>3, <3>4, GuestStep
  <2>5. CASE ~(WLen[f] > ReadBufSize) /\ WLen[f] = 0
    BY <1>6, <2>0, <2>1, <2>2, <2>3, <2>5
  <2>6. CASE ~(WLen[f] > ReadBufSize) /\ WLen[f] # 0
    <3>1. readBuf' = Data(f)
      BY <1>1, <2>1, <2>2, <2>6
    <3>2. [readBuf' EXCEPT !.len = WLen[f]] = Data(f)
      BY <3>1 DEF Data
    <3>3. handler' = [Called(f) EXCEPT ![f].data = Data(f)]
      BY <2>1, <2>2, <2>6, <3>2
    <3>. QED
      BY <1>6, <2>0, <2>2, <2>3, <3>3
  <2>. QED
    BY <2>4, <2>5, <2>6
<1>8. CASE GetBytesAgain(f)
  <2>0. /\ handler[f].pc = "grow" /\ serverlessCtx = f
        /\ handler[f].size = WLen[f] /\ WLen[f] # 0
    BY <1>1, <1>8 DEF GetBytesAgain, InGuest, HasRead
  <2>. DEFINE r == contextData(handler[f].size)
  <2>1. r.data = Data(f) /\ r.fits
    <3>1. r = [fits |-> WLen[f] <= WLen[f] /\ WLen[f] # 0, size |-> WLen[f],
               data |-> Data(f)]
      BY <2>0 DEF contextData, Data
    <3>2. WLen[f] <= WLen[f] /\ WLen[f] # 0
      BY <1>1, <2>0
    <3>. HIDE DEF r
    <3>. QED
      BY <3>1, <3>2
  <2>2. handler' = [Called(f) EXCEPT ![f].data =
                     IF r.fits THEN r.data ELSE [of |-> Nothing, len |-> handler[f].size]]
        /\ Spared
    BY <1>8 DEF GetBytesAgain
  <2>. HIDE DEF r
  <2>3. handler' = [Called(f) EXCEPT ![f].data = Data(f)]
    BY <2>1, <2>2
  <2>. QED
    BY <1>1, <1>6, <2>0, <2>2, <2>3
<1>9. ASSUME handler[f].pc \in {"guest", "http"}, handler' = Called(f),
             \A e \in emitted' : FromItsFrame(e), Whole(wasm'),
             wasm'.closed = wasm.closed,
             UNCHANGED <<smu, rmu, serverlessCtx, readBuf>>
      PROVE  WasmInv'
  <2>. QED
    BY <1>1, <1>3, <1>4, <1>9, GuestStep
<1>10. ASSUME NEW pc \in {"http", "return"}, handler[f].pc = "guest", Goto(f, pc),
              Whole(wasm'), wasm'.closed = wasm.closed,
              UNCHANGED <<smu, rmu, serverlessCtx, readBuf, emitted>>
       PROVE  WasmInv'
  <2>1. handler' = [handler EXCEPT ![f] = h(pc)]
    BY <1>2, <1>10 DEF Goto
  <2>. QED
    BY <1>1, <1>2, <1>4, <1>10, <2>1, GuestStep
<1>11. ASSUME NEW ok \in BOOLEAN, NEW what \in {"nil", "empty", "result"},
              GuestWrite(f, what, ok)
       PROVE  WasmInv'
  <2>1. /\ handler[f].pc = "guest" /\ serverlessCtx = f
        /\ UNCHANGED <<wasm, smu, rmu, serverlessCtx, readBuf>>
    BY <1>1, <1>11 DEF GuestWrite, MayCall, InGuest
  <2>2. CASE what = "nil"
    BY <1>1, <1>9, <1>11, <2>1, <2>2 DEF GuestWrite
  <2>3. CASE what = "empty"
    BY <1>1, <1>10, <1>11, <2>1, <2>3 DEF GuestWrite
  <2>4. CASE what = "result"
    <3>1. handler' = Called(f) /\ write(f, Result(f), Nothing, ok)
      BY <1>11, <2>4 DEF GuestWrite
    <3>2. \A e \in emitted' : FromItsFrame(e)
      BY <2>1, <3>1, WriteStep
    <3>. QED
      BY <1>1, <1>9, <2>1, <3>1, <3>2
  <2>. QED
    BY <2>2, <2>3, <2>4
<1>12. ASSUME NEW ok \in BOOLEAN, NEW target \in {Nothing, GuestTarget},
              GuestWriteWithTarget(f, target, ok)
       PROVE  WasmInv'
  <2>1. /\ handler[f].pc = "guest" /\ serverlessCtx = f /\ handler' = Called(f)
        /\ UNCHANGED <<wasm, smu, rmu, serverlessCtx, readBuf>>
    BY <1>1, <1>12 DEF GuestWriteWithTarget, MayCall, InGuest
  <2>2. \/ write(f, Result(f), Nothing, ok)
        \/ \E t \in {GuestTarget} \ {Nothing} : writeWithTarget(f, Result(f), t, ok)
    BY <1>12 DEF GuestWriteWithTarget
  <2>3. \A e \in emitted' : FromItsFrame(e)
    BY <2>1, <2>2, WriteStep
  <2>. QED
    BY <1>1, <1>9, <2>1, <2>3
<1>13. CASE GuestHTTPSend(f)
  BY <1>1, <1>10, <1>13 DEF GuestHTTPSend, MayCall, InGuest
<1>14. ASSUME NEW outcome \in {"response", "error"}, HTTPDone(f, outcome)
       PROVE  WasmInv'
  <2>1. Whole(wasm') /\ wasm'.closed = wasm.closed
    BY <1>1, <1>14, WholeExcept DEF HTTPDone
  <2>. QED
    BY <1>1, <1>9, <1>14, <2>1 DEF HTTPDone, InGuest
<1>15. CASE GuestReturns(f)
  BY <1>1, <1>10, <1>15 DEF GuestReturns, InGuest
<1>16. CASE GuestExits(f)
  <2>1. Whole(wasm') /\ wasm'.closed = wasm.closed
    BY <1>1, <1>16, WholeExcept DEF GuestExits
  <2>. QED
    BY <1>10, <1>16, <2>1 DEF GuestExits, InGuest
<1>. QED
  BY <1>5, <1>7, <1>8, <1>11, <1>12, <1>13, <1>14, <1>15, <1>16

LEMMA WasmInitHolds == Init => WasmInv
<1>. SUFFICES ASSUME WasmInit PROVE WasmInv
  BY DEF Init
<1>1. Whole(wasm)
  BY DEF WasmInit, Whole
<1>2. Idle \in HandlerType /\ Idle.pc = "idle" /\ Idle.tag = Nothing /\ Idle.data = Nothing
  BY DEF Idle, HandlerType
<1>3. handler \in [WFrames -> HandlerType] /\ \A f \in WFrames : handler[f] = Idle
  BY <1>2 DEF WasmInit
<1>4. readBuf \in DataType
  BY DEF WasmInit, DataType
<1>5. ASSUME NEW f \in WFrames PROVE TakesTurn(f) /\ HasRead(f)
  BY <1>2, <1>3 DEF TakesTurn, HasRead, InRunHandler
<1>6. \A e \in emitted : FromItsFrame(e)
  BY DEF WasmInit
<1>. QED
  BY <1>1, <1>3, <1>4, <1>5, <1>6 DEF WasmInv, WasmTypeOK

LEMMA WasmStepHolds ==
  ASSUME WasmInv, [Next]_serverlessVars
  PROVE  WasmInv'
<1>0. Whole(wasm)
  BY DEF WasmInv, WasmTypeOK
<1>1. ASSUME UNCHANGED wasmVars PROVE WasmInv'
  BY <1>0, <1>1, OwnerStep DEF wasmVars
<1>2. ASSUME NEW type, NEW g, InitWasm(type, g) PROVE WasmInv'
  <2>. DEFINE w == [wasm EXCEPT !.phase = "inited", !.guest = g,
                                !.observed = observeDataTag(g),
                                !.wanted = wantedTarget(g)]
  <2>1. Whole(w) /\ w.closed = wasm.closed
    <3>. DEFINE o == observeDataTag(g)
                t == wantedTarget(g)
                v1 == [wasm EXCEPT !.phase = "inited"]
                v2 == [v1 EXCEPT !.guest = g]
                v3 == [v2 EXCEPT !.observed = o]
    <3>1. wasm = [phase |-> wasm.phase, guest |-> wasm.guest,
                  observed |-> wasm.observed, wanted |-> wasm.wanted,
                  exited |-> wasm.exited, closed |-> wasm.closed, client |-> wasm.client]
      BY <1>0 DEF Whole
    <3>2. w = [v3 EXCEPT !.wanted = t]
      OBVIOUS
    <3>. HIDE DEF w, o, t
    <3>3. v1 = [phase |-> "inited", guest |-> wasm.guest, observed |-> wasm.observed,
                wanted |-> wasm.wanted, exited |-> wasm.exited, closed |-> wasm.closed,
                client |-> wasm.client]
      BY <3>1
    <3>. HIDE DEF v1
    <3>4. v2 = [phase |-> "inited", guest |-> g, observed |-> wasm.observed,
                wanted |-> wasm.wanted, exited |-> wasm.exited, closed |-> wasm.closed,
                client |-> wasm.client]
      BY <3>3
    <3>. HIDE DEF v2
    <3>5. v3 = [phase |-> "inited", guest |-> g, observed |-> o,
                wanted |-> wasm.wanted, exited |-> wasm.exited, closed |-> wasm.closed,
                client |-> wasm.client]
      BY <3>4
    <3>. HIDE DEF v3
    <3>6. w = [phase |-> "inited", guest |-> g, observed |-> o, wanted |-> t,
               exited |-> wasm.exited, closed |-> wasm.closed, client |-> wasm.client]
      BY <3>2, <3>5
    <3>. QED
      BY <3>6 DEF Whole
  <2>2. wasm' = w \/ wasm' = [wasm EXCEPT !.phase = "failed"]
    BY <1>2 DEF InitWasm
  <2>. HIDE DEF w
  <2>3. /\ Whole([wasm EXCEPT !.phase = "failed"])
        /\ [wasm EXCEPT !.phase = "failed"].closed = wasm.closed
    BY <1>0, WholeExcept
  <2>4. Whole(wasm') /\ wasm'.closed = wasm.closed
    <3>. DEFINE v == [wasm EXCEPT !.phase = "failed"]
    <3>1. (wasm' = w \/ wasm' = v) /\ Whole(v) /\ v.closed = wasm.closed
      BY <2>2, <2>3
    <3>. HIDE DEF v
    <3>. QED
      BY <2>1, <3>1
  <2>. QED
    BY <1>2, <2>4, OwnerStep DEF InitWasm
<1>3. CASE RunWasm
  <2>1. ASSUME NEW phase, wasm' = [wasm EXCEPT !.phase = phase],
               UNCHANGED <<smu, rmu, serverlessCtx, readBuf, handler, emitted>>
        PROVE  WasmInv'
    BY <1>0, <2>1, WholeExcept, OwnerStep
  <2>0. ASSUME NEW phase, NEW client,
               wasm' = [wasm EXCEPT !.phase = phase, !.client = client],
               UNCHANGED <<smu, rmu, serverlessCtx, readBuf, handler, emitted>>
        PROVE  WasmInv'
    <3>. DEFINE v == [wasm EXCEPT !.phase = phase]
    <3>1. wasm' = [v EXCEPT !.client = client]
      BY <2>0
    <3>2. Whole(v) /\ v.closed = wasm.closed
      BY <1>0, WholeExcept
    <3>. HIDE DEF v
    <3>3. Whole(wasm') /\ wasm'.closed = wasm.closed
      BY <3>1, <3>2, WholeExcept
    <3>. QED
      BY <2>0, <3>3, OwnerStep
  <2>2. CASE RunInit
    BY <2>1, <2>2 DEF RunInit
  <2>3. ASSUME NEW ok \in BOOLEAN, ConnectWasm(ok) PROVE WasmInv'
    BY <2>0, <2>1, <2>3 DEF ConnectWasm
  <2>4. ASSUME NEW why, WaitReturns(why) PROVE WasmInv'
    BY <2>0, <2>1, <2>4 DEF WaitReturns
  <2>8. CASE ZipperClosesWasm
    BY <1>0, <2>8, WholeExcept, OwnerStep DEF ZipperClosesWasm
  <2>5. CASE CloseSfn
    BY <2>1, <2>5 DEF CloseSfn
  <2>6. CASE CloseRuntime
    <3>1. wasm' = [phase |-> "closed", guest |-> wasm.guest,
                   observed |-> wasm.observed, wanted |-> wasm.wanted,
                   exited |-> wasm.exited, closed |-> TRUE, client |-> wasm.client]
      BY <1>0, <2>6 DEF CloseRuntime, Whole
    <3>2. Whole(wasm')
      BY <3>1 DEF Whole
    <3>. QED
      BY <2>6, <3>2, OwnerStep DEF CloseRuntime
  <2>7. ASSUME NEW f \in WFrames, HandleWasm(f) PROVE WasmInv'
    BY <2>7, TurnStep, GuestCalls DEF HandleWasm
  <2>. QED
    BY <1>3, <2>2, <2>3, <2>4, <2>5, <2>6, <2>7, <2>8 DEF RunWasm
<1>4. CASE Create
  BY <1>1, <1>2, <1>4 DEF Create, CreateUnsupported, CreateExec, CreateDeno,
     CreateWasm, CreateGolang, runtimes
<1>5. CASE Build \/ Run
  BY <1>1, <1>5 DEF Build, BuildGolang, BuildNothing, Run, StartChild, RunChild,
     RunWasmServerless, RunDenoServerless, runtimes
<1>6. CASE WasmStep \/ DenoStep \/ RxStep
  BY <1>1, <1>3, <1>6 DEF WasmStep, DenoStep, RxStep
<1>7. CASE ChildExits \/ RunReturned
  BY <1>1, <1>7 DEF ChildExits, RunReturned, runtimes
<1>8. ASSUME NEW command, NEW arg, NEW files, parseFileArg(command, arg, files)
      PROVE  WasmInv'
  BY <1>1, <1>8 DEF parseFileArg, runtimes
<1>9. ASSUME NEW nameOk, NEW addrOk, Options(nameOk, addrOk) PROVE WasmInv'
  BY <1>1, <1>9 DEF Options, runtimes
<1>10. CASE UNCHANGED serverlessVars
  BY <1>1, <1>10 DEF serverlessVars
<1>. QED
  BY <1>4, <1>5, <1>6, <1>7, <1>8, <1>9, <1>10 DEF Next

\* However many frames arrive at once and in whatever order their handlers get
\* the mutexes, a guest reads the tag and all of the data of its own frame, what
\* it writes goes out through the context of that frame, and the runtime is not
\* closed under it (cli/serverless/wasm: serverless.go, wazero.go).
THEOREM GuestsTakeTurns == Spec => []GuestSeesItsFrame
<1>1. WasmInv /\ [Next]_serverlessVars => WasmInv'
  BY WasmStepHolds
<1>2. WasmInv => GuestSeesItsFrame
  BY DEF WasmInv, GuestSeesItsFrame, HasRead, FromItsFrame
<1>. QED
  BY <1>1, <1>2, WasmInitHolds, PTL DEF Spec

-----------------------------------------------------------------------------
(***************************************************************************)
(* The conversations of the deno runtime, as long as no two of them        *)
(* overlap.                                                                *)
(***************************************************************************)

DFields == {Zero} \union (DFrames \X Nat)
DenoPc == {"idle", "tag", "len", "payload", "read", "length", "data", "done", "errch"}

DenoTypeOK ==
  /\ denoHandler \in [DFrames -> [pc : DenoPc, tag : DFields]]
  /\ toDeno \in Seq(DFrames)
  /\ fromDeno \in Seq(DFields)
  /\ program \in DFields
  /\ replied \in [DFrames -> Seq(DFields)]
  /\ denoEmitted \in [DFrames -> Seq(DFields)]

\* Where a reader of the replies to a frame is: about to read the tag, the
\* length or the data of reply n, or the second half of the end; or over it.
Place == [at : {"tag", "length", "data", "end", "over"}, n : Nat \ {0}]
PlaceAt(at, n) == [at |-> at, n |-> n]

\* Reading v takes the reader from p to q.
Moves(f, p, v, q) ==
  \/ p.at = "tag" /\ v = Field(f, p.n) /\ q = PlaceAt("length", p.n)
  \/ p.at = "tag" /\ v = Zero /\ q = PlaceAt("end", p.n)
  \/ p.at = "length" /\ v = Field(f, p.n) /\ q = PlaceAt("data", p.n)
  \/ p.at = "length" /\ v = Zero /\ q = PlaceAt("tag", p.n + 1)
  \/ p.at = "data" /\ v = Field(f, p.n) /\ q = PlaceAt("tag", p.n + 1)
  \/ p.at = "end" /\ v = Zero /\ q = PlaceAt("over", p.n)

\* Reading the fields s one after the other leads through the places ps.
Leads(f, s, ps) ==
  /\ ps \in Seq(Place)
  /\ Len(ps) = Len(s) + 1
  /\ \A i \in 1 .. Len(s) : Moves(f, ps[i], s[i], ps[i + 1])
  /\ \A i \in 1 .. Len(ps) : ps[i].n <= ps[Len(ps)].n

\* Where the handler of f is.
ReaderAt(f) ==
  LET n == Len(denoEmitted[f]) + 1
  IN  CASE denoHandler[f].pc = "read" -> PlaceAt("tag", n)
        [] denoHandler[f].pc = "data" -> PlaceAt("data", n)
        [] denoHandler[f].pc = "length" /\ denoHandler[f].tag = Zero -> PlaceAt("end", n)
        [] OTHER -> PlaceAt("length", n)

\* Where a reader is who has read all that was written.
WriterAt(f, p) ==
  /\ p.n = Len(replied[f]) + 1
  /\ p.at \in {"tag", "over"}
  /\ ~Broken => program = IF p.at = "tag" THEN Field(f, Len(replied[f])) ELSE Zero

\* The connection while the program answers f.
Answering(f) ==
  /\ Broken \/ toDeno = <<>>
  /\ denoHandler[f].pc = "length" =>
       denoHandler[f].tag \in {Zero, Field(f, Len(denoEmitted[f]) + 1)}
  /\ \E ps : /\ Leads(f, fromDeno, ps)
             /\ ps[1] = ReaderAt(f)
             /\ WriterAt(f, ps[Len(ps)])

\* The connection when n fields of f have been written, and the program has not
\* read them.
Waiting(f, n) ==
  /\ fromDeno = <<>>
  /\ \/ Broken
     \/ program = Zero /\ Len(toDeno) = n /\ \A i \in 1 .. n : toDeno[i] = f

\* The connection between two conversations.
Quiet == fromDeno = <<>> /\ (Broken \/ (program = Zero /\ toDeno = <<>>))

\* The connection during the conversation about f.
Dialogue(f) ==
  /\ denoHandler[f].pc = "tag" => Waiting(f, 0)
  /\ denoHandler[f].pc = "len" => Waiting(f, 1)
  /\ denoHandler[f].pc = "payload" => Waiting(f, 2)
  /\ denoHandler[f].pc = "read" =>
       (Waiting(f, 3) /\ replied[f] = <<>>) \/ Answering(f)
  /\ denoHandler[f].pc \in {"length", "data"} => Answering(f)

Numbered(f, s) == \A i \in DOMAIN s : s[i] = Field(f, i)

\* What was sent and written is in order; nothing before the conversation, and
\* all of it after.
Replies(f) ==
  /\ Numbered(f, replied[f]) /\ Numbered(f, denoEmitted[f])
  /\ Len(denoEmitted[f]) <= Len(replied[f])
  /\ denoHandler[f].pc \in {"idle", "tag", "len", "payload"} => replied[f] = <<>>
  /\ denoHandler[f].pc = "done" => Len(denoEmitted[f]) = Len(replied[f])

\* Before the stream function is connected nothing is written.
NotYet ==
  deno \in {"off", "accepting", "starting"} =>
    /\ \A f \in DFrames : denoHandler[f].pc = "idle"
    /\ toDeno = <<>> /\ fromDeno = <<>> /\ program = Zero

InTurn ==
  /\ \A f, g \in DFrames : Underway(f) /\ Underway(g) => f = g
  /\ (\A f \in DFrames : ~Underway(f)) => Quiet

Orderly ==
  /\ DenoTypeOK
  /\ NotYet
  /\ InTurn
  /\ \A f \in DFrames : Replies(f)
  /\ \A f \in DFrames : Dialogue(f)

DenoInv == overlapped \in BOOLEAN /\ (~overlapped => Orderly)

LEMMA ZeroIsNoField ==
  ASSUME NEW f, NEW n PROVE Field(f, n) # Zero
BY DEF Field, Zero

LEMMA FieldIs ==
  ASSUME NEW f \in DFrames, NEW n \in Nat
  PROVE  Field(f, n) \in DFields /\ Zero \in DFields /\ Field(f, n)[1] = f /\ Field(f, n)[2] = n
BY DEF Field, DFields

\* A reader leaves a place as it was reached, and goes on.
LEMMA LeadsOn ==
  ASSUME NEW f, NEW s \in Seq(DFields), NEW ps, Leads(f, s, ps), s # <<>>
  PROVE  /\ Moves(f, ps[1], Head(s), Tail(ps)[1])
         /\ Leads(f, Tail(s), Tail(ps))
         /\ Tail(ps)[Len(Tail(ps))] = ps[Len(ps)]
         /\ ps[1] \in Place /\ Tail(ps)[1] \in Place
         /\ ps[1].n <= ps[Len(ps)].n /\ Tail(ps)[1].n <= ps[Len(ps)].n
<1>1. /\ ps \in Seq(Place) /\ Len(ps) = Len(s) + 1
      /\ Len(s) \in Nat \ {0} /\ Head(s) = s[1]
  BY DEF Leads
<1>2. /\ Tail(s) \in Seq(DFields) /\ Len(Tail(s)) = Len(s) - 1
      /\ \A i \in 1 .. Len(s) - 1 : Tail(s)[i] = s[i + 1]
  BY <1>1
<1>3. /\ Tail(ps) \in Seq(Place) /\ Len(Tail(ps)) = Len(s)
      /\ \A i \in 1 .. Len(s) : Tail(ps)[i] = ps[i + 1]
  BY <1>1
<1>4. /\ \A i \in 1 .. Len(s) : Moves(f, ps[i], s[i], ps[i + 1])
      /\ \A i \in 1 .. Len(s) + 1 : ps[i].n <= ps[Len(s) + 1].n
  BY <1>1 DEF Leads
<1>. DEFINE qs == Tail(ps)
            t == Tail(s)
<1>. HIDE DEF qs, t
<1>5. Moves(f, ps[1], Head(s), qs[1])
  BY <1>1, <1>3, <1>4 DEF qs
<1>6. qs[Len(qs)] = ps[Len(ps)]
  BY <1>1, <1>3 DEF qs
<1>7. \A i \in 1 .. Len(t) : Moves(f, qs[i], t[i], qs[i + 1])
  <2>. TAKE i \in 1 .. Len(t)
  <2>1. i + 1 \in 1 .. Len(s) /\ i \in 1 .. Len(s) /\ i \in 1 .. Len(s) - 1
    BY <1>1, <1>2 DEF t
  <2>2. t[i] = s[i + 1] /\ qs[i] = ps[i + 1] /\ qs[i + 1] = ps[(i + 1) + 1]
    BY <1>2, <1>3, <2>1 DEF t, qs
  <2>. QED
    BY <1>4, <2>1, <2>2
<1>8. \A i \in 1 .. Len(qs) : qs[i].n <= qs[Len(qs)].n
  <2>. TAKE i \in 1 .. Len(qs)
  <2>1. i \in 1 .. Len(s) /\ i + 1 \in 1 .. Len(s) + 1 /\ qs[i] = ps[i + 1]
    BY <1>1, <1>3 DEF qs
  <2>. QED
    BY <1>1, <1>4, <1>6, <2>1
<1>9. Leads(f, t, qs)
  BY <1>1, <1>2, <1>3, <1>7, <1>8 DEF Leads, t, qs
<1>10. qs[1] = ps[2] /\ ps[1] \in Place /\ ps[2] \in Place
  BY <1>1, <1>3 DEF qs
<1>11. ps[1].n <= ps[Len(ps)].n /\ ps[2].n <= ps[Len(ps)].n
  BY <1>1, <1>4
<1>. QED
  BY <1>5, <1>6, <1>9, <1>10, <1>11 DEF qs, t

\* A field more leads a place further.
Further(f, s, ps, v, q) ==
  /\ Append(s, v) \in Seq(DFields)
  /\ Leads(f, Append(s, v), Append(ps, q))
  /\ Append(ps, q)[1] = ps[1]
  /\ Append(ps, q)[Len(Append(ps, q))] = q

LEMMA LeadsFurther ==
  ASSUME NEW f, NEW s \in Seq(DFields), NEW ps, Leads(f, s, ps),
         NEW v \in DFields, NEW q \in Place,
         NEW p, p = ps[Len(ps)], Moves(f, p, v, q)
  PROVE  Further(f, s, ps, v, q)
<1>. DEFINE t == Append(s, v)
            qs == Append(ps, q)
<1>1. ps \in Seq(Place) /\ Len(ps) = Len(s) + 1 /\ Len(s) \in Nat
  BY DEF Leads
<1>2. /\ t \in Seq(DFields) /\ Len(t) = Len(s) + 1 /\ t[Len(s) + 1] = v
      /\ \A i \in 1 .. Len(s) : t[i] = s[i]
  OBVIOUS
<1>3. /\ qs \in Seq(Place) /\ Len(qs) = Len(s) + 2 /\ qs[Len(s) + 2] = q
      /\ \A i \in 1 .. Len(s) + 1 : qs[i] = ps[i]
  BY <1>1
<1>4. /\ \A i \in 1 .. Len(s) : Moves(f, ps[i], s[i], ps[i + 1])
      /\ \A i \in 1 .. Len(s) + 1 : ps[i].n <= ps[Len(s) + 1].n
      /\ Moves(f, ps[Len(s) + 1], v, q)
  BY <1>1 DEF Leads
<1>9. \A i \in 1 .. Len(s) + 1 : ps[i].n \in Nat
  <2>1. \A i \in 1 .. Len(s) + 1 : ps[i] \in Place
    BY <1>1
  <2>. QED
    BY <2>1 DEF Place
<1>10. ps[Len(s) + 1].n <= q.n
  BY <1>1, <1>4, <1>9 DEF Moves, PlaceAt
<1>. HIDE DEF t, qs
<1>5. \A i \in 1 .. Len(t) : Moves(f, qs[i], t[i], qs[i + 1])
  <2>. TAKE i \in 1 .. Len(t)
  <2>1. CASE i \in 1 .. Len(s)
    <3>1. qs[i] = ps[i] /\ qs[i + 1] = ps[i + 1] /\ t[i] = s[i]
      BY <1>1, <1>2, <1>3, <2>1
    <3>. QED
      BY <1>4, <2>1, <3>1
  <2>2. CASE i = Len(s) + 1
    BY <1>1, <1>2, <1>3, <2>2
  <2>. QED
    BY <1>1, <1>2, <2>1, <2>2
<1>6. \A i \in 1 .. Len(qs) : qs[i].n <= qs[Len(qs)].n
  <2>. TAKE i \in 1 .. Len(qs)
  <2>1. qs[Len(qs)].n = q.n /\ q.n \in Nat
    BY <1>3 DEF Place
  <2>2. CASE i \in 1 .. Len(s) + 1
    <3>1. qs[i] = ps[i] /\ ps[i].n \in Nat /\ ps[i].n <= ps[Len(s) + 1].n
      BY <1>3, <1>4, <1>9, <2>2
    <3>2. ps[Len(s) + 1].n \in Nat
      BY <1>1, <1>9
    <3>. QED
      BY <1>10, <2>1, <3>1, <3>2
  <2>3. CASE i = Len(s) + 2
    BY <1>3, <2>1, <2>3
  <2>. QED
    BY <1>1, <1>3, <2>2, <2>3
<1>7. Leads(f, t, qs)
  BY <1>1, <1>2, <1>3, <1>5, <1>6 DEF Leads
<1>8. qs[1] = ps[1] /\ qs[Len(qs)] = q
  BY <1>1, <1>3
<1>. QED
  BY <1>2, <1>7, <1>8 DEF Further, t, qs

\* Nothing comes after the end.
LEMMA OverIsLast ==
  ASSUME NEW f, NEW s \in Seq(DFields), NEW ps, Leads(f, s, ps), ps[1].at = "over"
  PROVE  s = <<>> /\ ps[Len(ps)] = ps[1]
<1>1. Len(s) \in Nat /\ Len(ps) = Len(s) + 1
  BY DEF Leads
<1>2. ASSUME Len(s) # 0 PROVE FALSE
  <2>1. Moves(f, ps[1], s[1], ps[2])
    BY <1>1, <1>2 DEF Leads
  <2>. QED
    BY <2>1 DEF Moves
<1>. QED
  BY <1>1, <1>2

-----------------------------------------------------------------------------

\* A step of run or of the process, of which the conversation sees only that
\* the connection may break.
LEMMA RunStep ==
  ASSUME Orderly, UNCHANGED wireVars,
         deno' \in {"off", "accepting", "starting"} =>
           deno \in {"off", "accepting", "starting"},
         deno \in {"off", "accepting", "starting"} \/ (Broken => Broken')
  PROVE  Orderly'
<1>0. UNCHANGED <<program, toDeno, fromDeno, denoHandler, replied, denoEmitted>>
  BY DEF wireVars
<1>1. DenoTypeOK'
  BY <1>0 DEF Orderly, DenoTypeOK
<1>2. NotYet'
  BY <1>0 DEF Orderly, NotYet
<1>3. \A f \in DFrames : Replies(f)'
  BY <1>0 DEF Orderly, Replies, Numbered
<1>4. CASE deno \in {"off", "accepting", "starting"}
  <2>1. /\ \A f \in DFrames : denoHandler'[f].pc = "idle"
        /\ toDeno' = <<>> /\ fromDeno' = <<>> /\ program' = Zero
    BY <1>0, <1>4 DEF Orderly, NotYet
  <2>2. Quiet'
    BY <2>1 DEF Quiet
  <2>3. InTurn'
    BY <2>1, <2>2 DEF InTurn, Underway
  <2>4. \A f \in DFrames : Dialogue(f)'
    BY <2>1 DEF Dialogue
  <2>. QED
    BY <1>1, <1>2, <1>3, <2>3, <2>4 DEF Orderly
<1>5. CASE Broken => Broken'
  <2>1. ASSUME NEW f, NEW n, Waiting(f, n) PROVE Waiting(f, n)'
    BY <1>0, <1>5, <2>1 DEF Waiting
  <2>2. InTurn'
    BY <1>0, <1>5 DEF Orderly, InTurn, Underway, Quiet
  <2>3. ASSUME NEW f \in DFrames, Answering(f) PROVE Answering(f)'
    <3>1. PICK ps : /\ Leads(f, fromDeno, ps)
                    /\ ps[1] = ReaderAt(f)
                    /\ WriterAt(f, ps[Len(ps)])
      BY <2>3 DEF Answering
    <3>2. WriterAt(f, ps[Len(ps)])'
      BY <1>0, <1>5, <3>1 DEF WriterAt
    <3>3. Leads(f, fromDeno, ps)' /\ ReaderAt(f)' = ReaderAt(f)
      BY <1>0, <3>1 DEF ReaderAt
    <3>. QED
      BY <1>0, <1>5, <2>3, <3>1, <3>2, <3>3 DEF Answering
  <2>4. ASSUME NEW f \in DFrames PROVE Dialogue(f)'
    <3>1. Dialogue(f)
      BY DEF Orderly
    <3>. QED
      BY <1>0, <2>1, <2>3, <3>1 DEF Dialogue
  <2>. QED
    BY <1>1, <1>2, <1>3, <2>2, <2>4 DEF Orderly
<1>. QED
  BY <1>4, <1>5

\* A step of the conversation about f, with whose handler it leaves h: the
\* other conversations are over or have not begun.
LEMMA ConversationStep ==
  ASSUME Orderly, NEW f \in DFrames, NEW h \in [pc : DenoPc, tag : DFields],
         Serving, deno' = deno,
         \A g \in DFrames : Underway(g) => g = f,
         denoHandler' = [denoHandler EXCEPT ![f] = h],
         toDeno' \in Seq(DFrames), fromDeno' \in Seq(DFields), program' \in DFields,
         replied' \in [DFrames -> Seq(DFields)], denoEmitted' \in [DFrames -> Seq(DFields)],
         \A g \in DFrames : g # f =>
            replied'[g] = replied[g] /\ denoEmitted'[g] = denoEmitted[g],
         Replies(f)', Dialogue(f)',
         h.pc \in {"idle", "done", "errch"} => Quiet'
  PROVE  Orderly'
<1>1. /\ denoHandler' \in [DFrames -> [pc : DenoPc, tag : DFields]]
      /\ denoHandler'[f] = h
      /\ \A g \in DFrames : g # f => denoHandler'[g] = denoHandler[g]
  BY DEF Orderly, DenoTypeOK
<1>2. DenoTypeOK'
  BY <1>1 DEF DenoTypeOK
<1>3. NotYet'
  BY DEF NotYet, Serving
<1>4. ASSUME NEW g \in DFrames, g # f
      PROVE  ~Underway(g)' /\ Replies(g)' /\ Dialogue(g)'
  <2>1. ~Underway(g) /\ Replies(g) /\ denoHandler'[g] = denoHandler[g]
    BY <1>1, <1>4 DEF Orderly
  <2>2. ~Underway(g)' /\ denoHandler'[g].pc \in {"idle", "done", "errch"}
    BY <2>1 DEF Underway
  <2>3. Replies(g)'
    BY <1>4, <2>1 DEF Replies, Numbered
  <2>4. Dialogue(g)'
    BY <2>2 DEF Dialogue
  <2>. QED
    BY <2>2, <2>3, <2>4
<1>5. InTurn'
  BY <1>1, <1>4 DEF InTurn, Underway
<1>. QED
  BY <1>2, <1>3, <1>4, <1>5 DEF Orderly

\* Facts about one conversation.
LEMMA DenoFacts ==
  ASSUME Orderly, NEW f \in DFrames
  PROVE  /\ denoHandler[f] \in [pc : DenoPc, tag : DFields]
         /\ denoHandler[f] = [pc |-> denoHandler[f].pc, tag |-> denoHandler[f].tag]
         /\ denoHandler[f].pc \in DenoPc /\ denoHandler[f].tag \in DFields
         /\ toDeno \in Seq(DFrames) /\ fromDeno \in Seq(DFields) /\ program \in DFields
         /\ replied[f] \in Seq(DFields) /\ denoEmitted[f] \in Seq(DFields)
         /\ replied \in [DFrames -> Seq(DFields)]
         /\ denoEmitted \in [DFrames -> Seq(DFields)]
         /\ Replies(f) /\ Dialogue(f)
         /\ Underway(f) => \A g \in DFrames : Underway(g) => g = f
<1>1. denoHandler[f] \in [pc : DenoPc, tag : DFields]
  BY DEF Orderly, DenoTypeOK
<1>2. Underway(f) => \A g \in DFrames : Underway(g) => g = f
  BY DEF Orderly, InTurn
<1>3. /\ denoHandler[f] = [pc |-> denoHandler[f].pc, tag |-> denoHandler[f].tag]
      /\ denoHandler[f].pc \in DenoPc /\ denoHandler[f].tag \in DFields
  BY <1>1
<1>4. /\ toDeno \in Seq(DFrames) /\ fromDeno \in Seq(DFields) /\ program \in DFields
      /\ replied[f] \in Seq(DFields) /\ denoEmitted[f] \in Seq(DFields)
      /\ replied \in [DFrames -> Seq(DFields)]
      /\ denoEmitted \in [DFrames -> Seq(DFields)]
  BY DEF Orderly, DenoTypeOK
<1>. QED
  BY <1>1, <1>2, <1>3, <1>4 DEF Orderly

LEMMA DenoGotoIs ==
  ASSUME Orderly, NEW f \in DFrames, NEW pc \in DenoPc, DenoGoto(f, pc)
  PROVE  LET h == [pc |-> pc, tag |-> denoHandler[f].tag]
         IN  /\ h \in [pc : DenoPc, tag : DFields]
             /\ denoHandler' = [denoHandler EXCEPT ![f] = h]
             /\ denoHandler'[f] = h
<1>1. denoHandler \in [DFrames -> [pc : DenoPc, tag : DFields]]
  BY DEF Orderly, DenoTypeOK
<1>2. denoHandler' = [denoHandler EXCEPT ![f] = [denoHandler[f] EXCEPT !.pc = pc]]
  BY DEF DenoGoto
<1>3. [denoHandler[f] EXCEPT !.pc = pc] = [pc |-> pc, tag |-> denoHandler[f].tag]
  <2>1. denoHandler[f] \in [pc : DenoPc, tag : DFields]
    BY DenoFacts
  <2>. QED
    BY <2>1
<1>4. [pc |-> pc, tag |-> denoHandler[f].tag] \in [pc : DenoPc, tag : DFields]
  BY DenoFacts
<1>. QED
  BY <1>1, <1>2, <1>3, <1>4

\* A write or a read fails: the connection is broken, and nothing is left on it.
LEMMA ErrorStep ==
  ASSUME Orderly, NEW f \in DFrames, Serving, Underway(f), SendError(f), Broken,
         fromDeno = <<>>,
         UNCHANGED <<deno, proc, program, toDeno, fromDeno, replied, denoEmitted>>
  PROVE  Orderly'
<1>. DEFINE h == [pc |-> "errch", tag |-> denoHandler[f].tag]
<1>1. /\ h \in [pc : DenoPc, tag : DFields]
      /\ denoHandler' = [denoHandler EXCEPT ![f] = h]
      /\ denoHandler'[f] = h
  BY DenoGotoIs DEF SendError, DenoPc
<1>2. Quiet'
  BY DEF Quiet, Broken
<1>3. Replies(f)'
  <2>1. Replies(f)
    BY DenoFacts
  <2>. QED
    BY <1>1, <2>1 DEF Replies
<1>4. Dialogue(f)'
  BY <1>1 DEF Dialogue
<1>. HIDE DEF h
<1>. QED
  BY <1>1, <1>2, <1>3, <1>4, DenoFacts, ConversationStep

LEMMA ArriveStep ==
  ASSUME Orderly, NEW f \in DFrames, DenoArrive(f), ~overlapped'
  PROVE  Orderly'
<1>. DEFINE h == [pc |-> "tag", tag |-> denoHandler[f].tag]
<1>1. /\ h \in [pc : DenoPc, tag : DFields]
      /\ denoHandler' = [denoHandler EXCEPT ![f] = h]
      /\ denoHandler'[f] = h
  BY DenoGotoIs DEF DenoArrive, DenoPc
<1>2. \A g \in DFrames : ~Underway(g)
  BY DEF DenoArrive
<1>3. Quiet
  BY <1>2 DEF Orderly, InTurn
<1>4. Quiet'
  BY <1>3 DEF Quiet, DenoArrive, runVars, Broken
<1>5. Replies(f)'
  <2>1. Replies(f) /\ UNCHANGED <<replied, denoEmitted>> /\ denoHandler[f].pc = "idle"
    BY DenoFacts DEF DenoArrive, runVars
  <2>. QED
    BY <1>1, <2>1 DEF Replies
<1>6. Dialogue(f)'
  <2>1. Waiting(f, 0)'
    BY <1>4 DEF Quiet, Waiting
  <2>. QED
    BY <1>1, <2>1 DEF Dialogue
<1>7. /\ UNCHANGED <<deno, toDeno, fromDeno, program, replied, denoEmitted>>
      /\ Serving
  BY DEF DenoArrive, runVars, Serving
<1>. HIDE DEF h
<1>. QED
  BY <1>1, <1>2, <1>4, <1>5, <1>6, <1>7, DenoFacts, ConversationStep

\* One of the three writes, after n others.
LEMMA WriteStepDeno ==
  ASSUME Orderly, NEW f \in DFrames, NEW pc, NEW next, NEW n \in 0 .. 2,
         WriteField(f, pc, next),
         \/ pc = "tag" /\ next = "len" /\ n = 0
         \/ pc = "len" /\ next = "payload" /\ n = 1
         \/ pc = "payload" /\ next = "read" /\ n = 2
  PROVE  Orderly'
<1>0. /\ Serving /\ denoHandler[f].pc = pc /\ Underway(f)
      /\ UNCHANGED <<deno, proc, program, replied, fromDeno, denoEmitted>>
  BY DEF WriteField, runVars, Underway
<1>1. Waiting(f, n) /\ replied[f] = <<>>
  BY <1>0, DenoFacts DEF Dialogue, Replies
<1>2. CASE Broken
  BY <1>0, <1>1, <1>2, ErrorStep DEF WriteField, Waiting
<1>3. CASE ~Broken
  <2>. DEFINE h == [pc |-> next, tag |-> denoHandler[f].tag]
  <2>1. /\ h \in [pc : DenoPc, tag : DFields]
        /\ denoHandler' = [denoHandler EXCEPT ![f] = h]
        /\ denoHandler'[f] = h
    <3>1. DenoGoto(f, next) /\ next \in DenoPc
      BY <1>3 DEF WriteField, DenoPc
    <3>. QED
      BY <3>1, DenoGotoIs
  <2>2. /\ toDeno' = Append(toDeno, f) /\ fromDeno' = <<>> /\ program' = Zero
        /\ Len(toDeno) = n /\ \A i \in 1 .. n : toDeno[i] = f
        /\ toDeno \in Seq(DFrames)
    BY <1>0, <1>1, <1>3, DenoFacts DEF WriteField, Waiting
  <2>3. toDeno' \in Seq(DFrames) /\ Waiting(f, n + 1)'
    BY <2>2 DEF Waiting
  <2>4. Replies(f)'
    <3>1. Replies(f)
      BY DenoFacts
    <3>. QED
      BY <1>0, <1>1, <2>1, <3>1 DEF Replies
  <2>5. Dialogue(f)'
    <3>1. denoHandler'[f].pc = next /\ replied'[f] = <<>>
      BY <1>0, <1>1, <2>1
    <3>2. CASE pc = "tag"
      BY <2>3, <3>1, <3>2 DEF Dialogue
    <3>3. CASE pc = "len"
      BY <2>3, <3>1, <3>3 DEF Dialogue
    <3>4. CASE pc = "payload"
      BY <2>3, <3>1, <3>4 DEF Dialogue
    <3>. QED
      BY <3>2, <3>3, <3>4
  <2>6. fromDeno' \in Seq(DFields) /\ program' \in DFields /\ h.pc = next
    BY <2>2 DEF DFields
  <2>. HIDE DEF h
  <2>. QED
    BY <1>0, <2>1, <2>2, <2>3, <2>4, <2>5, <2>6, DenoFacts, ConversationStep
<1>. QED
  BY <1>2, <1>3

\* What the handler of f reads next, and where it comes to.
LEMMA ReadFacts ==
  ASSUME Orderly, NEW f \in DFrames, fromDeno # <<>>,
         denoHandler[f].pc \in {"read", "length", "data"}
  PROVE  /\ Broken \/ toDeno = <<>>
         /\ denoHandler[f].pc = "length" =>
              denoHandler[f].tag \in {Zero, Field(f, Len(denoEmitted[f]) + 1)}
         /\ Head(fromDeno) \in DFields /\ Tail(fromDeno) \in Seq(DFields)
         /\ \E ps : /\ Leads(f, Tail(fromDeno), ps)
                    /\ Moves(f, ReaderAt(f), Head(fromDeno), ps[1])
                    /\ ps[1] \in Place
                    /\ ps[1].n <= Len(replied[f]) + 1
                    /\ WriterAt(f, ps[Len(ps)])
<1>1. Answering(f)
  BY DenoFacts DEF Dialogue, Waiting
<1>2. PICK ps : /\ Leads(f, fromDeno, ps)
                /\ ps[1] = ReaderAt(f)
                /\ WriterAt(f, ps[Len(ps)])
  BY <1>1 DEF Answering
<1>3. fromDeno \in Seq(DFields)
  BY DenoFacts
<1>4. /\ Moves(f, ps[1], Head(fromDeno), Tail(ps)[1])
      /\ Leads(f, Tail(fromDeno), Tail(ps))
      /\ Tail(ps)[Len(Tail(ps))] = ps[Len(ps)]
      /\ Tail(ps)[1] \in Place /\ Tail(ps)[1].n <= ps[Len(ps)].n
  BY <1>2, <1>3, LeadsOn
<1>5. ps[Len(ps)].n = Len(replied[f]) + 1
  BY <1>2 DEF WriterAt
<1>6. Head(fromDeno) \in DFields /\ Tail(fromDeno) \in Seq(DFields)
  BY <1>3
<1>. QED
  BY <1>1, <1>2, <1>4, <1>5, <1>6 DEF Answering

\* A read that leaves the handler of f in the middle of the conversation.
LEMMA ReadOnStep ==
  ASSUME Orderly, NEW f \in DFrames, NEW h \in [pc : DenoPc, tag : DFields],
         Serving, Underway(f), fromDeno # <<>>,
         denoHandler[f].pc \in {"read", "length", "data"},
         h.pc \in {"read", "length", "data"},
         denoHandler' = [denoHandler EXCEPT ![f] = h],
         fromDeno' = Tail(fromDeno), toDeno' = toDeno,
         UNCHANGED <<deno, proc, program, replied>>,
         denoEmitted' \in [DFrames -> Seq(DFields)],
         \A g \in DFrames : g # f => denoEmitted'[g] = denoEmitted[g],
         Numbered(f, denoEmitted'[f]), Len(denoEmitted'[f]) <= Len(replied[f]),
         h.pc = "length" => h.tag \in {Zero, Field(f, Len(denoEmitted'[f]) + 1)},
         NEW ps, Leads(f, Tail(fromDeno), ps), ps[1] = ReaderAt(f)',
         WriterAt(f, ps[Len(ps)])
  PROVE  Orderly'
<1>1. denoHandler'[f] = h
  BY DEF Orderly, DenoTypeOK
<1>2. Replies(f)'
  <2>1. Replies(f)
    BY DenoFacts
  <2>. QED
    BY <1>1, <2>1 DEF Replies
<1>3. Answering(f)'
  <2>1. Broken' \/ toDeno' = <<>>
    BY ReadFacts DEF Broken
  <2>2. WriterAt(f, ps[Len(ps)])'
    BY DEF WriterAt, Broken
  <2>3. Leads(f, fromDeno', ps)
    OBVIOUS
  <2>. QED
    BY <1>1, <2>1, <2>2, <2>3 DEF Answering
<1>4. Dialogue(f)'
  BY <1>1, <1>3 DEF Dialogue
<1>5. fromDeno' \in Seq(DFields)
  BY ReadFacts
<1>. QED
  BY <1>2, <1>4, <1>5, DenoFacts, ConversationStep

LEMMA DenoHoldsIs ==
  ASSUME Orderly, NEW f \in DFrames, NEW pc, NEW v,
         DenoHolds(f, pc, v)
  PROVE  /\ denoHandler' = [denoHandler EXCEPT ![f] = [pc |-> pc, tag |-> v]]
         /\ denoHandler'[f] = [pc |-> pc, tag |-> v]
<1>. DEFINE d == denoHandler[f]
            e == [d EXCEPT !.pc = pc]
            h == [e EXCEPT !.tag = v]
<1>1. denoHandler \in [DFrames -> [pc : DenoPc, tag : DFields]]
  BY DEF Orderly, DenoTypeOK
<1>2. denoHandler' = [denoHandler EXCEPT ![f] = h]
  BY <1>1 DEF DenoHolds
<1>3. d = [pc |-> d.pc, tag |-> d.tag]
  BY DenoFacts
<1>. HIDE DEF d
<1>4. e = [pc |-> pc, tag |-> d.tag]
  BY <1>3
<1>. HIDE DEF e
<1>5. h = [pc |-> pc, tag |-> v]
  BY <1>4
<1>. QED
  BY <1>1, <1>2, <1>5

LEMMA ReadTagStep ==
  ASSUME Orderly, NEW f \in DFrames, ReadTag(f)
  PROVE  Orderly'
<1>0. /\ Serving /\ denoHandler[f].pc = "read" /\ Underway(f)
      /\ UNCHANGED <<deno, proc, program, replied, toDeno, denoEmitted>>
  BY DEF ReadTag, Read, runVars, Underway
<1>1. CASE fromDeno = <<>>
  BY <1>0, <1>1, ErrorStep DEF ReadTag, Read
<1>2. CASE fromDeno # <<>>
  <2>. DEFINE v == Head(fromDeno)
              h == [pc |-> "length", tag |-> v]
              n == Len(denoEmitted[f]) + 1
  <2>1. /\ fromDeno' = Tail(fromDeno)
        /\ DenoHolds(f, "length", v)
    BY <1>2 DEF ReadTag, Read
  <2>2. v \in DFields
    BY <1>0, <1>2, ReadFacts
  <2>3. denoHandler' = [denoHandler EXCEPT ![f] = h] /\ denoHandler'[f] = h
    BY <2>1, DenoHoldsIs
  <2>4. PICK ps : /\ Leads(f, Tail(fromDeno), ps)
                  /\ Moves(f, ReaderAt(f), v, ps[1])
                  /\ WriterAt(f, ps[Len(ps)])
    BY <1>0, <1>2, ReadFacts
  <2>5. ReaderAt(f) = PlaceAt("tag", n)
    BY <1>0 DEF ReaderAt
  <2>6. /\ \/ v = Field(f, n) /\ ps[1] = PlaceAt("length", n)
           \/ v = Zero /\ ps[1] = PlaceAt("end", n)
        /\ Field(f, n) # Zero
    BY <2>4, <2>5, ZeroIsNoField DEF Moves, PlaceAt
  <2>7. ps[1] = ReaderAt(f)'
    BY <1>0, <2>3, <2>6 DEF ReaderAt
  <2>8. h \in [pc : DenoPc, tag : DFields] /\ h.pc = "length" /\ h.tag \in {Zero, Field(f, n)}
    BY <2>2, <2>6 DEF DenoPc
  <2>9. Numbered(f, denoEmitted[f]) /\ Len(denoEmitted[f]) <= Len(replied[f])
    BY DenoFacts DEF Replies
  <2>10. denoEmitted \in [DFrames -> Seq(DFields)]
    BY DenoFacts
  <2>. HIDE DEF h
  <2>. QED
    BY <1>0, <1>2, <2>1, <2>3, <2>4, <2>7, <2>8, <2>9, <2>10, ReadOnStep
<1>. QED
  BY <1>1, <1>2

\* The context of f writes the reply n, the next one.
LEMMA EmitFacts ==
  ASSUME Orderly, NEW f \in DFrames, ~overlapped, NEW n, n = Len(denoEmitted[f]) + 1,
         ContextWrites(f, Field(f, n))
  PROVE  /\ denoEmitted' \in [DFrames -> Seq(DFields)]
         /\ \A g \in DFrames : g # f => denoEmitted'[g] = denoEmitted[g]
         /\ Len(denoEmitted'[f]) = n
         /\ Numbered(f, denoEmitted'[f])
<1>1. /\ denoEmitted \in [DFrames -> Seq(DFields)] /\ denoEmitted[f] \in Seq(DFields)
      /\ Len(denoEmitted[f]) \in Nat /\ n \in Nat
  <2>1. denoEmitted \in [DFrames -> Seq(DFields)] /\ denoEmitted[f] \in Seq(DFields)
    BY DenoFacts
  <2>. QED
    BY <2>1
<1>2. Field(f, n) \in DFields
  BY <1>1, FieldIs
<1>. DEFINE a == denoEmitted[f]
            v == Field(f, n)
<1>. HIDE DEF v
<1>3. denoEmitted' = [denoEmitted EXCEPT ![f] = Append(a, v)]
  BY DEF ContextWrites, v
<1>4. Append(a, v) \in Seq(DFields) /\ Len(Append(a, v)) = n
  BY <1>1, <1>2 DEF v
<1>5. /\ denoEmitted' \in [DFrames -> Seq(DFields)] /\ denoEmitted'[f] = Append(a, v)
      /\ \A g \in DFrames : g # f => denoEmitted'[g] = denoEmitted[g]
  BY <1>1, <1>3, <1>4
<1>6. Numbered(f, Append(a, v))
  <2>1. \A i \in 1 .. Len(a) : a[i] = Field(f, i)
    <3>1. Numbered(f, denoEmitted[f])
      BY DenoFacts DEF Replies
    <3>. QED
      BY <1>1, <3>1 DEF Numbered
  <2>. QED
    BY <1>1, <1>2, <1>4, <2>1 DEF Numbered, v
<1>. QED
  BY <1>4, <1>5, <1>6

LEMMA ReadDataStep ==
  ASSUME Orderly, ~overlapped, NEW f \in DFrames, ReadData(f)
  PROVE  Orderly'
<1>0. /\ Serving /\ denoHandler[f].pc = "data" /\ Underway(f)
      /\ UNCHANGED <<deno, proc, program, replied, toDeno>>
  BY DEF ReadData, Read, runVars, Underway
<1>1. CASE fromDeno = <<>>
  BY <1>0, <1>1, ErrorStep DEF ReadData, Read
<1>2. CASE fromDeno # <<>>
  <2>. DEFINE v == Head(fromDeno)
              h == [pc |-> "read", tag |-> denoHandler[f].tag]
              n == Len(denoEmitted[f]) + 1
  <2>1. fromDeno' = Tail(fromDeno) /\ DenoGoto(f, "read") /\ ContextWrites(f, v)
    BY <1>2 DEF ReadData, Read
  <2>2. PICK ps : /\ Leads(f, Tail(fromDeno), ps)
                  /\ Moves(f, ReaderAt(f), v, ps[1])
                  /\ ps[1].n <= Len(replied[f]) + 1
                  /\ WriterAt(f, ps[Len(ps)])
    BY <1>0, <1>2, ReadFacts
  <2>3. ReaderAt(f) = PlaceAt("data", n)
    BY <1>0 DEF ReaderAt
  <2>4. v = Field(f, n) /\ ps[1] = PlaceAt("tag", n + 1)
    BY <2>2, <2>3 DEF Moves, PlaceAt
  <2>5. /\ h \in [pc : DenoPc, tag : DFields]
        /\ denoHandler' = [denoHandler EXCEPT ![f] = h] /\ denoHandler'[f] = h
    BY <2>1, DenoGotoIs DEF DenoPc
  <2>6. /\ denoEmitted' \in [DFrames -> Seq(DFields)]
        /\ \A g \in DFrames : g # f => denoEmitted'[g] = denoEmitted[g]
        /\ Len(denoEmitted'[f]) = n
        /\ Numbered(f, denoEmitted'[f])
    BY <2>1, <2>4, EmitFacts
  <2>7. n <= Len(replied[f]) /\ n \in Nat
    BY <2>2, <2>4, DenoFacts DEF PlaceAt
  <2>8. ps[1] = ReaderAt(f)' /\ h.pc = "read"
    BY <2>4, <2>5, <2>6 DEF ReaderAt
  <2>. HIDE DEF h, v, n
  <2>. QED
    BY <1>0, <1>2, <2>1, <2>2, <2>5, <2>6, <2>7, <2>8, ReadOnStep
<1>. QED
  BY <1>1, <1>2

LEMMA ReadLengthStep ==
  ASSUME Orderly, ~overlapped, NEW f \in DFrames, ReadLength(f)
  PROVE  Orderly'
<1>0. /\ Serving /\ denoHandler[f].pc = "length" /\ Underway(f)
      /\ UNCHANGED <<deno, proc, program, replied, toDeno>>
  BY DEF ReadLength, Read, runVars, Underway
<1>1. CASE fromDeno = <<>>
  BY <1>0, <1>1, ErrorStep DEF ReadLength, Read
<1>2. CASE fromDeno # <<>>
  <2>. DEFINE v == Head(fromDeno)
              n == Len(denoEmitted[f]) + 1
  <2>0. n \in Nat /\ Len(replied[f]) \in Nat /\ Field(f, n) # Zero
    BY DenoFacts, ZeroIsNoField
  <2>1. /\ fromDeno' = Tail(fromDeno)
        /\ v = Zero /\ denoHandler[f].tag = Zero =>
             DenoGoto(f, "done") /\ denoEmitted' = denoEmitted
        /\ v = Zero /\ denoHandler[f].tag # Zero =>
             DenoGoto(f, "read") /\ ContextWrites(f, denoHandler[f].tag)
        /\ v # Zero => DenoHolds(f, "data", Zero) /\ denoEmitted' = denoEmitted
    BY <1>2 DEF ReadLength, Read
  <2>2. PICK ps : /\ Leads(f, Tail(fromDeno), ps)
                  /\ Moves(f, ReaderAt(f), v, ps[1])
                  /\ ps[1].n <= Len(replied[f]) + 1
                  /\ WriterAt(f, ps[Len(ps)])
    BY <1>0, <1>2, ReadFacts
  <2>3. /\ denoHandler[f].tag \in {Zero, Field(f, n)}
        /\ Broken \/ toDeno = <<>>
        /\ v \in DFields /\ Tail(fromDeno) \in Seq(DFields)
    BY <1>0, <1>2, ReadFacts
  <2>4. ReaderAt(f) = IF denoHandler[f].tag = Zero THEN PlaceAt("end", n)
                      ELSE PlaceAt("length", n)
    BY <1>0 DEF ReaderAt
  <2>5. /\ Numbered(f, denoEmitted[f]) /\ Len(denoEmitted[f]) <= Len(replied[f])
        /\ Numbered(f, replied[f])
        /\ denoEmitted \in [DFrames -> Seq(DFields)]
    BY DenoFacts DEF Replies
  <2>. HIDE DEF v, n
  <2>6. CASE denoHandler[f].tag = Zero
    <3>. DEFINE h == [pc |-> "done", tag |-> denoHandler[f].tag]
    <3>1. v = Zero /\ ps[1] = PlaceAt("over", n)
      BY <2>2, <2>4, <2>6 DEF Moves, PlaceAt
    <3>2. Tail(fromDeno) = <<>> /\ ps[Len(ps)] = PlaceAt("over", n)
      <4>1. ps[1].at = "over"
        BY <3>1 DEF PlaceAt
      <4>. QED
        BY <2>2, <2>3, <3>1, <4>1, OverIsLast
    <3>3. n = Len(replied[f]) + 1 /\ (Broken \/ program = Zero)
      BY <2>2, <3>2 DEF WriterAt, PlaceAt
    <3>4. DenoGoto(f, "done") /\ denoEmitted' = denoEmitted
      BY <2>1, <2>6, <3>1
    <3>5. /\ h \in [pc : DenoPc, tag : DFields]
          /\ denoHandler' = [denoHandler EXCEPT ![f] = h] /\ denoHandler'[f] = h
      BY <3>4, DenoGotoIs DEF DenoPc
    <3>6. Quiet'
      BY <1>0, <2>1, <2>3, <3>2, <3>3 DEF Quiet, Broken
    <3>7. Replies(f)'
      BY <1>0, <2>0, <2>5, <3>3, <3>4, <3>5, DenoFacts DEF Replies, n
    <3>8. Dialogue(f)'
      BY <3>5 DEF Dialogue
    <3>9. fromDeno' \in Seq(DFields)
      BY <2>1, <2>3
    <3>. HIDE DEF h
    <3>. QED
      BY <1>0, <2>5, <3>4, <3>5, <3>6, <3>7, <3>8, <3>9, DenoFacts, ConversationStep
  <2>7. CASE denoHandler[f].tag # Zero /\ v = Zero
    <3>. DEFINE h == [pc |-> "read", tag |-> denoHandler[f].tag]
    <3>1. ps[1] = PlaceAt("tag", n + 1)
      BY <2>0, <2>2, <2>4, <2>7 DEF Moves, PlaceAt
    <3>2. DenoGoto(f, "read") /\ ContextWrites(f, Field(f, n))
      BY <2>1, <2>3, <2>7
    <3>3. /\ h \in [pc : DenoPc, tag : DFields]
          /\ denoHandler' = [denoHandler EXCEPT ![f] = h] /\ denoHandler'[f] = h
      BY <3>2, DenoGotoIs DEF DenoPc
    <3>4. /\ denoEmitted' \in [DFrames -> Seq(DFields)]
          /\ \A g \in DFrames : g # f => denoEmitted'[g] = denoEmitted[g]
          /\ Len(denoEmitted'[f]) = n
          /\ Numbered(f, denoEmitted'[f])
      BY <3>2, EmitFacts DEF n
    <3>5. n <= Len(replied[f])
      BY <2>0, <2>2, <3>1 DEF PlaceAt
    <3>6. ps[1] = ReaderAt(f)' /\ h.pc = "read"
      BY <3>1, <3>3, <3>4 DEF ReaderAt
    <3>. HIDE DEF h
    <3>. QED
      BY <1>0, <1>2, <2>1, <2>2, <3>3, <3>4, <3>5, <3>6, ReadOnStep
  <2>8. CASE denoHandler[f].tag # Zero /\ v # Zero
    <3>. DEFINE h == [pc |-> "data", tag |-> Zero]
    <3>1. ps[1] = PlaceAt("data", n)
      BY <2>0, <2>2, <2>4, <2>8 DEF Moves, PlaceAt
    <3>2. DenoHolds(f, "data", Zero) /\ denoEmitted' = denoEmitted
      BY <2>1, <2>8
    <3>3. denoHandler' = [denoHandler EXCEPT ![f] = h] /\ denoHandler'[f] = h
      BY <3>2, DenoHoldsIs
    <3>4. ps[1] = ReaderAt(f)' /\ h.pc = "data"
      BY <3>1, <3>2, <3>3 DEF ReaderAt, n
    <3>5. h \in [pc : DenoPc, tag : DFields]
      BY DEF DenoPc, DFields
    <3>. HIDE DEF h
    <3>. QED
      BY <1>0, <1>2, <2>1, <2>2, <2>5, <3>2, <3>3, <3>4, <3>5, ReadOnStep
  <2>. QED
    BY <2>6, <2>7, <2>8
<1>. QED
  BY <1>1, <1>2

\* A step of the program, which answers the frame whose handler is under way.
LEMMA ProgramStep ==
  ASSUME Orderly, NEW f \in DFrames, Serving, ~Broken,
         denoHandler[f].pc \in {"read", "length", "data"},
         toDeno' = <<>>, fromDeno' \in Seq(DFields), program' \in DFields,
         UNCHANGED <<deno, proc, denoHandler, denoEmitted>>,
         replied' \in [DFrames -> Seq(DFields)],
         \A g \in DFrames : g # f => replied'[g] = replied[g],
         Numbered(f, replied'[f]), Len(denoEmitted[f]) <= Len(replied'[f]),
         denoHandler[f].pc = "length" =>
           denoHandler[f].tag \in {Zero, Field(f, Len(denoEmitted[f]) + 1)},
         NEW ps, Leads(f, fromDeno', ps), ps[1] = ReaderAt(f), WriterAt(f, ps[Len(ps)])'
  PROVE  Orderly'
<1>. DEFINE h == denoHandler[f]
<1>1. h \in [pc : DenoPc, tag : DFields] /\ Underway(f)
  BY DenoFacts DEF Underway
<1>2. denoHandler' = [denoHandler EXCEPT ![f] = h]
  BY DEF Orderly, DenoTypeOK
<1>3. Replies(f)'
  BY DenoFacts DEF Replies
<1>4. Answering(f)'
  <2>1. ReaderAt(f)' = ReaderAt(f)
    BY DEF ReaderAt
  <2>. QED
    BY <2>1 DEF Answering
<1>5. Dialogue(f)'
  BY <1>4 DEF Dialogue
<1>6. toDeno' \in Seq(DFrames) /\ denoEmitted' \in [DFrames -> Seq(DFields)]
  BY DEF Orderly, DenoTypeOK
<1>7. h.pc \notin {"idle", "done", "errch"}
  OBVIOUS
<1>. HIDE DEF h
<1>. QED
  BY <1>1, <1>2, <1>3, <1>5, <1>6, <1>7, DenoFacts, ConversationStep

\* The program is between two conversations, or in the middle of one.
LEMMA ProgramFacts ==
  ASSUME Orderly, ~Broken, program # Zero \/ Len(toDeno) >= 3
  PROVE  \E f \in DFrames :
           /\ denoHandler[f].pc \in {"read", "length", "data"}
           /\ \/ Waiting(f, 3) /\ replied[f] = <<>> /\ denoHandler[f].pc = "read"
              \/ Answering(f)
<1>1. PICK f \in DFrames : Underway(f)
  BY DEF Orderly, InTurn, Quiet
<1>2. denoHandler[f].pc \in {"tag", "len", "payload", "read", "length", "data"}
  <2>1. denoHandler[f].pc \in DenoPc
    BY DenoFacts
  <2>. QED
    BY <1>1, <2>1 DEF Underway, DenoPc
<1>3. Dialogue(f)
  BY DenoFacts
<1>4. denoHandler[f].pc \notin {"tag", "len", "payload"}
  <2>1. ~Waiting(f, 0) /\ ~Waiting(f, 1) /\ ~Waiting(f, 2)
    <3>1. CASE program # Zero
      BY <3>1 DEF Waiting
    <3>2. CASE Len(toDeno) >= 3
      <4>1. Len(toDeno) \in Nat
        BY DEF Orderly, DenoTypeOK
      <4>. DEFINE n == Len(toDeno)
      <4>2. n \notin {0, 1, 2}
        <5>1. n \in Nat /\ n >= 3
          BY <3>2, <4>1
        <5>. HIDE DEF n
        <5>. QED
          BY <5>1
      <4>. QED
        BY <4>2 DEF Waiting
    <3>. QED
      BY <3>1, <3>2
  <2>. QED
    BY <1>3, <2>1 DEF Dialogue
<1>. QED
  BY <1>2, <1>3, <1>4 DEF Dialogue

LEMMA ProgramReadsStep ==
  ASSUME Orderly, ProgramReads
  PROVE  Orderly'
<1>0. /\ Serving /\ ~Broken /\ program = Zero /\ Len(toDeno) >= 3
      /\ UNCHANGED <<deno, proc, denoHandler, replied, denoEmitted>>
  BY DEF ProgramReads
<1>1. PICK f \in DFrames :
         /\ denoHandler[f].pc \in {"read", "length", "data"}
         /\ \/ Waiting(f, 3) /\ replied[f] = <<>> /\ denoHandler[f].pc = "read"
            \/ Answering(f)
  BY <1>0, ProgramFacts
<1>2. Waiting(f, 3) /\ replied[f] = <<>> /\ denoHandler[f].pc = "read"
  BY <1>0, <1>1 DEF Answering
<1>3. /\ Len(toDeno) = 3 /\ toDeno[1] = f /\ toDeno[2] = f /\ toDeno[3] = f
      /\ fromDeno = <<>> /\ toDeno \in Seq(DFrames)
  BY <1>0, <1>2 DEF Waiting, Orderly, DenoTypeOK
<1>4. toDeno' = <<>> /\ program' = Field(f, 0) /\ fromDeno' = <<>>
  BY <1>3 DEF ProgramReads
<1>5. /\ replied \in [DFrames -> Seq(DFields)] /\ denoEmitted[f] \in Seq(DFields)
      /\ Len(denoEmitted[f]) = 0 /\ Len(replied[f]) = 0
      /\ Numbered(f, replied[f])
  <2>1. replied \in [DFrames -> Seq(DFields)] /\ denoEmitted[f] \in Seq(DFields)
    BY DEF Orderly, DenoTypeOK
  <2>2. Replies(f)
    BY DenoFacts
  <2>. QED
    BY <1>2, <2>1, <2>2 DEF Replies
<1>. DEFINE ps == <<PlaceAt("tag", 1)>>
<1>6. ps \in Seq(Place) /\ Len(ps) = 1 /\ ps[1] = PlaceAt("tag", 1)
  BY DEF Place, PlaceAt
<1>. HIDE DEF ps
<1>7. ps[1].n = 1 /\ ps[1].at = "tag"
  BY <1>6 DEF PlaceAt
<1>8. Leads(f, fromDeno', ps)
  BY <1>4, <1>6, <1>7 DEF Leads
<1>9. ps[1] = ReaderAt(f)
  BY <1>2, <1>5, <1>6 DEF ReaderAt
<1>10. WriterAt(f, ps[Len(ps)])'
  BY <1>0, <1>4, <1>5, <1>6, <1>7 DEF WriterAt
<1>11. fromDeno' \in Seq(DFields) /\ program' \in DFields
  BY <1>4, FieldIs
<1>. QED
  BY <1>0, <1>2, <1>4, <1>5, <1>8, <1>9, <1>10, <1>11, ProgramStep

\* The program is in the middle of a conversation: what it has written so far.
LEMMA AnsweringFacts ==
  ASSUME Orderly, ~Broken, program # Zero
  PROVE  \E f \in DFrames :
           /\ denoHandler[f].pc \in {"read", "length", "data"}
           /\ toDeno = <<>>
           /\ denoHandler[f].pc = "length" =>
                denoHandler[f].tag \in {Zero, Field(f, Len(denoEmitted[f]) + 1)}
           /\ program = Field(f, Len(replied[f]))
           /\ \E ps : /\ Leads(f, fromDeno, ps)
                      /\ ps[1] = ReaderAt(f)
                      /\ ps[Len(ps)] = PlaceAt("tag", Len(replied[f]) + 1)
<1>1. PICK f \in DFrames :
         /\ denoHandler[f].pc \in {"read", "length", "data"}
         /\ \/ Waiting(f, 3) /\ replied[f] = <<>> /\ denoHandler[f].pc = "read"
            \/ Answering(f)
  BY ProgramFacts
<1>2. Answering(f)
  BY <1>1 DEF Waiting
<1>3. PICK ps : /\ Leads(f, fromDeno, ps)
                /\ ps[1] = ReaderAt(f)
                /\ WriterAt(f, ps[Len(ps)])
  BY <1>2 DEF Answering
<1>. DEFINE p == ps[Len(ps)]
<1>4. p \in Place
  <2>1. fromDeno \in Seq(DFields)
    BY DenoFacts
  <2>. QED
    BY <1>3, <2>1 DEF Leads
<1>5. WriterAt(f, p)
  BY <1>3
<1>. HIDE DEF p
<1>6. p.at = "tag" /\ p.n = Len(replied[f]) + 1 /\ program = Field(f, Len(replied[f]))
  BY <1>5 DEF WriterAt
<1>7. p = PlaceAt("tag", Len(replied[f]) + 1)
  BY <1>4, <1>6 DEF Place, PlaceAt
<1>. QED
  BY <1>1, <1>2, <1>3, <1>6, <1>7 DEF Answering, p

LEMMA ProgramRepliesStep ==
  ASSUME Orderly, ~overlapped, NEW empty \in BOOLEAN, ProgramReplies(empty)
  PROVE  Orderly'
<1>0. /\ Serving /\ ~Broken /\ program # Zero
      /\ UNCHANGED <<deno, proc, toDeno, denoHandler, denoEmitted>>
  BY DEF ProgramReplies
<1>1. PICK f \in DFrames :
           /\ denoHandler[f].pc \in {"read", "length", "data"}
           /\ toDeno = <<>>
           /\ denoHandler[f].pc = "length" =>
                denoHandler[f].tag \in {Zero, Field(f, Len(denoEmitted[f]) + 1)}
           /\ program = Field(f, Len(replied[f]))
           /\ \E ps : /\ Leads(f, fromDeno, ps)
                      /\ ps[1] = ReaderAt(f)
                      /\ ps[Len(ps)] = PlaceAt("tag", Len(replied[f]) + 1)
  BY <1>0, AnsweringFacts
<1>. DEFINE m == Len(replied[f])
            v == Field(f, m + 1)
<1>2. PICK ps : /\ Leads(f, fromDeno, ps)
                /\ ps[1] = ReaderAt(f)
                /\ ps[Len(ps)] = PlaceAt("tag", m + 1)
  BY <1>1
<1>3. /\ replied \in [DFrames -> Seq(DFields)] /\ replied[f] \in Seq(DFields) /\ m \in Nat
      /\ denoEmitted[f] \in Seq(DFields) /\ Len(denoEmitted[f]) <= m
      /\ Numbered(f, replied[f])
      /\ fromDeno \in Seq(DFields)
  <2>1. /\ replied \in [DFrames -> Seq(DFields)] /\ replied[f] \in Seq(DFields)
        /\ denoEmitted[f] \in Seq(DFields) /\ fromDeno \in Seq(DFields)
    BY DEF Orderly, DenoTypeOK
  <2>2. Replies(f)
    BY DenoFacts
  <2>. QED
    BY <2>1, <2>2 DEF Replies
<1>4. v \in DFields /\ Zero \in DFields /\ program[1] = f /\ program[2] = m
  BY <1>1, <1>3, FieldIs
<1>5. /\ program' = v
      /\ fromDeno' = fromDeno \o Reply(v, empty)
      /\ replied' = [replied EXCEPT ![f] = Append(replied[f], v)]
  BY <1>4 DEF ProgramReplies
<1>. HIDE DEF m, v
<1>6. /\ replied' \in [DFrames -> Seq(DFields)] /\ replied'[f] = Append(replied[f], v)
      /\ Len(replied'[f]) = m + 1
      /\ \A g \in DFrames : g # f => replied'[g] = replied[g]
  BY <1>3, <1>4, <1>5 DEF m
<1>7. Numbered(f, replied'[f])
  <2>1. \A i \in 1 .. m : replied[f][i] = Field(f, i)
    BY <1>3 DEF Numbered, m
  <2>. QED
    BY <1>3, <1>4, <1>6, <2>1 DEF Numbered, m, v
<1>. DEFINE a == PlaceAt("tag", m + 1)
            b == PlaceAt("length", m + 1)
            c == PlaceAt("data", m + 1)
            d == PlaceAt("tag", m + 2)
<1>8. /\ d \in Place /\ b \in Place
      /\ c \in Place
      /\ Moves(f, a, v, b)
      /\ Moves(f, b, v, c)
      /\ Moves(f, b, Zero, d)
      /\ Moves(f, c, v, d)
  BY <1>3 DEF PlaceAt, Place, Moves, v
<1>. HIDE DEF a, b, c, d
<1>9. Len(denoEmitted[f]) <= Len(replied'[f])
  BY <1>3, <1>6
<1>10. ASSUME NEW qs, Leads(f, fromDeno', qs), qs[1] = ReaderAt(f),
              qs[Len(qs)] = d, fromDeno' \in Seq(DFields)
       PROVE  Orderly'
  <2>1. WriterAt(f, qs[Len(qs)])'
    <3>1. d.n = m + 2 /\ d.at = "tag"
      BY DEF PlaceAt, d
    <3>. QED
      BY <1>3, <1>5, <1>6, <1>10, <3>1 DEF WriterAt, v
  <2>. QED
    BY <1>0, <1>1, <1>4, <1>5, <1>6, <1>7, <1>9, <1>10, <2>1, ProgramStep
<1>. DEFINE s1 == Append(fromDeno, v)
            p1 == Append(ps, b)
<1>11. /\ s1 \in Seq(DFields) /\ Leads(f, s1, p1)
       /\ p1[1] = ps[1] /\ p1[Len(p1)] = b
  <2>1. ps[Len(ps)] = a /\ Leads(f, fromDeno, ps) /\ fromDeno \in Seq(DFields)
    BY <1>2, <1>3 DEF a
  <2>2. v \in DFields /\ b \in Place /\ Moves(f, a, v, b)
    BY <1>4, <1>8
  <2>3. Further(f, fromDeno, ps, v, b)
    BY <2>1, <2>2, LeadsFurther
  <2>. QED
    BY <2>3 DEF Further
<1>. HIDE DEF s1, p1
<1>12. CASE empty
  <2>. DEFINE s2 == Append(s1, Zero)
              p2 == Append(p1, d)
  <2>1. /\ s2 \in Seq(DFields) /\ Leads(f, s2, p2)
        /\ p2[1] = p1[1] /\ p2[Len(p2)] = d
    <3>1. Further(f, s1, p1, Zero, d)
      BY <1>4, <1>8, <1>11, LeadsFurther
    <3>. QED
      BY <3>1 DEF Further
  <2>2. fromDeno' = s2
    BY <1>3, <1>4, <1>5, <1>12 DEF Reply, s1
  <2>. HIDE DEF s2, p2
  <2>. QED
    BY <1>2, <1>10, <1>11, <2>1, <2>2
<1>13. CASE ~empty
  <2>. DEFINE s2 == Append(s1, v)
              p2 == Append(p1, c)
              s3 == Append(s2, v)
              p3 == Append(p2, d)
  <2>1. /\ s2 \in Seq(DFields) /\ Leads(f, s2, p2)
        /\ p2[1] = p1[1] /\ p2[Len(p2)] = c
    <3>1. Further(f, s1, p1, v, c)
      BY <1>4, <1>8, <1>11, LeadsFurther
    <3>. QED
      BY <3>1 DEF Further
  <2>2. fromDeno' = s3
    BY <1>3, <1>4, <1>5, <1>13 DEF Reply, s1
  <2>. HIDE DEF s2, p2
  <2>3. /\ s3 \in Seq(DFields) /\ Leads(f, s3, p3)
        /\ p3[1] = p2[1] /\ p3[Len(p3)] = d
    <3>1. v \in DFields /\ d \in Place /\ Moves(f, c, v, d)
      BY <1>4, <1>8
    <3>2. Further(f, s2, p2, v, d)
      BY <2>1, <3>1, LeadsFurther
    <3>. QED
      BY <3>2 DEF Further
  <2>. HIDE DEF s3, p3
  <2>. QED
    BY <1>2, <1>10, <1>11, <2>1, <2>2, <2>3
<1>. QED
  BY <1>12, <1>13

LEMMA ProgramEndsStep ==
  ASSUME Orderly, ProgramEnds
  PROVE  Orderly'
<1>0. /\ Serving /\ ~Broken /\ program # Zero /\ program' = Zero
      /\ fromDeno' = fromDeno \o <<Zero, Zero>>
      /\ UNCHANGED <<deno, proc, toDeno, denoHandler, replied, denoEmitted>>
  BY DEF ProgramEnds
<1>1. PICK f \in DFrames :
           /\ denoHandler[f].pc \in {"read", "length", "data"}
           /\ toDeno = <<>>
           /\ denoHandler[f].pc = "length" =>
                denoHandler[f].tag \in {Zero, Field(f, Len(denoEmitted[f]) + 1)}
           /\ program = Field(f, Len(replied[f]))
           /\ \E ps : /\ Leads(f, fromDeno, ps)
                      /\ ps[1] = ReaderAt(f)
                      /\ ps[Len(ps)] = PlaceAt("tag", Len(replied[f]) + 1)
  BY <1>0, AnsweringFacts
<1>. DEFINE m == Len(replied[f])
<1>2. PICK ps : /\ Leads(f, fromDeno, ps)
                /\ ps[1] = ReaderAt(f)
                /\ ps[Len(ps)] = PlaceAt("tag", m + 1)
  BY <1>1
<1>3. /\ replied \in [DFrames -> Seq(DFields)] /\ m \in Nat
      /\ Len(denoEmitted[f]) <= m
      /\ Numbered(f, replied[f])
      /\ fromDeno \in Seq(DFields) /\ Zero \in DFields
  <2>1. /\ replied \in [DFrames -> Seq(DFields)] /\ replied[f] \in Seq(DFields)
        /\ denoEmitted[f] \in Seq(DFields) /\ fromDeno \in Seq(DFields)
    BY DEF Orderly, DenoTypeOK
  <2>2. Replies(f) /\ Zero \in DFields
    BY DenoFacts DEF DFields
  <2>. QED
    BY <2>1, <2>2 DEF Replies
<1>. HIDE DEF m
<1>. DEFINE a == PlaceAt("tag", m + 1)
            b == PlaceAt("end", m + 1)
            c == PlaceAt("over", m + 1)
<1>4. /\ b \in Place /\ c \in Place
      /\ Moves(f, a, Zero, b)
      /\ Moves(f, b, Zero, c)
      /\ c.n = m + 1 /\ c.at = "over"
  BY <1>3 DEF PlaceAt, Place, Moves
<1>. DEFINE s1 == Append(fromDeno, Zero)
            p1 == Append(ps, b)
            s2 == Append(s1, Zero)
            p2 == Append(p1, c)
<1>5. ps[Len(ps)] = a
  BY <1>2
<1>. HIDE DEF a, b, c
<1>6. /\ s1 \in Seq(DFields) /\ Leads(f, s1, p1)
      /\ p1[1] = ps[1] /\ p1[Len(p1)] = b
  <2>1. Further(f, fromDeno, ps, Zero, b)
    BY <1>2, <1>3, <1>4, <1>5, LeadsFurther
  <2>. QED
    BY <2>1 DEF Further
<1>7. fromDeno' = s2
  BY <1>0, <1>3
<1>. HIDE DEF s1, p1
<1>8. /\ s2 \in Seq(DFields) /\ Leads(f, s2, p2)
      /\ p2[1] = p1[1] /\ p2[Len(p2)] = c
  <2>1. Further(f, s1, p1, Zero, c)
    BY <1>3, <1>4, <1>6, LeadsFurther
  <2>. QED
    BY <2>1 DEF Further
<1>. HIDE DEF s2, p2
<1>9. PICK qs : Leads(f, s2, qs) /\ qs[1] = ReaderAt(f) /\ qs[Len(qs)] = c
  BY <1>2, <1>6, <1>8
<1>10. qs[Len(qs)].n = m + 1 /\ qs[Len(qs)].at = "over"
  BY <1>4, <1>9
<1>11. WriterAt(f, qs[Len(qs)])'
  BY <1>0, <1>10 DEF WriterAt, m
<1>12. /\ Leads(f, fromDeno', qs) /\ fromDeno' \in Seq(DFields)
       /\ Numbered(f, replied'[f]) /\ Len(denoEmitted[f]) <= Len(replied'[f])
       /\ replied' \in [DFrames -> Seq(DFields)] /\ program' \in DFields
       /\ toDeno' = <<>>
  BY <1>0, <1>1, <1>3, <1>7, <1>8, <1>9 DEF m
<1>. QED
  BY <1>0, <1>1, <1>9, <1>11, <1>12, ProgramStep

LEMMA HandleDenoStep ==
  ASSUME DenoInv, NEW f \in DFrames, HandleDeno(f)
  PROVE  DenoInv'
<1>1. CASE DenoArrive(f)
  <2>1. overlapped' = (overlapped \/ \E g \in DFrames : Underway(g))
    BY <1>1 DEF DenoArrive
  <2>2. overlapped' \in BOOLEAN /\ (~overlapped' => ~overlapped)
    BY <2>1 DEF DenoInv
  <2>. QED
    BY <1>1, <2>2, ArriveStep DEF DenoInv
<1>2. CASE \/ WriteField(f, "tag", "len") \/ WriteField(f, "len", "payload")
           \/ WriteField(f, "payload", "read")
  <2>1. overlapped' = overlapped
    BY <1>2 DEF WriteField
  <2>2. Orderly => Orderly'
    BY <1>2, WriteStepDeno
  <2>. QED
    BY <2>1, <2>2 DEF DenoInv
<1>3. CASE ReadTag(f) \/ ReadLength(f) \/ ReadData(f)
  <2>1. overlapped' = overlapped
    BY <1>3 DEF ReadTag, ReadLength, ReadData, Read
  <2>2. Orderly /\ ~overlapped => Orderly'
    BY <1>3, ReadTagStep, ReadLengthStep, ReadDataStep
  <2>. QED
    BY <2>1, <2>2 DEF DenoInv
<1>. QED
  BY <1>1, <1>2, <1>3 DEF HandleDeno

LEMMA DenoInitHolds == Init => DenoInv
<1>. SUFFICES ASSUME DenoInit PROVE DenoInv
  BY DEF Init
<1>1. DenoTypeOK
  <2>1. DenoIdle \in [pc : DenoPc, tag : DFields]
    BY DEF DenoIdle, DenoPc, DFields
  <2>2. Zero \in DFields
    BY DEF DFields
  <2>. QED
    BY <2>1, <2>2 DEF DenoInit, DenoTypeOK
<1>2. \A f \in DFrames :
        /\ denoHandler[f].pc = "idle"
        /\ replied[f] = <<>> /\ denoEmitted[f] = <<>>
  BY DEF DenoInit, DenoIdle
<1>3. toDeno = <<>> /\ fromDeno = <<>> /\ program = Zero /\ overlapped = FALSE
  BY DEF DenoInit
<1>4. NotYet
  BY <1>2, <1>3 DEF NotYet
<1>5. InTurn
  BY <1>2, <1>3 DEF InTurn, Underway, Quiet
<1>6. \A f \in DFrames : Replies(f) /\ Dialogue(f)
  BY <1>2 DEF Replies, Dialogue, Numbered
<1>. QED
  BY <1>1, <1>3, <1>4, <1>5, <1>6 DEF DenoInv, Orderly

LEMMA DenoStepHolds ==
  ASSUME DenoInv, [Next]_serverlessVars
  PROVE  DenoInv'
<1>1. ASSUME UNCHANGED wireVars,
             deno' \in {"off", "accepting", "starting"} =>
               deno \in {"off", "accepting", "starting"},
             deno \in {"off", "accepting", "starting"} \/ (Broken => Broken')
      PROVE  DenoInv'
  BY <1>1, RunStep DEF DenoInv, wireVars
<1>2. ASSUME UNCHANGED denoVars PROVE DenoInv'
  BY <1>1, <1>2 DEF denoVars, wireVars, Broken
<1>3. ASSUME NEW found, NEW listening, StartDeno(found, listening) PROVE DenoInv'
  BY <1>1, <1>3 DEF StartDeno
<1>4. CASE RunDeno
  <2>1. CASE DenoConnects \/ Accept \/ AcceptFails
    BY <1>1, <2>1 DEF DenoConnects, Accept, AcceptFails
  <2>2. ASSUME NEW ok \in BOOLEAN, StartSfn(ok) \/ ProcessExits(ok) PROVE DenoInv'
    BY <1>1, <2>2 DEF StartSfn, ProcessExits, Broken
  <2>3. CASE ReceiveError \/ ZipperClosesDeno \/ CloseDeno
    BY <1>1, <2>3 DEF ReceiveError, ZipperClosesDeno, CloseDeno, Broken
  <2>4. CASE ProgramReads
    BY <2>4, ProgramReadsStep DEF DenoInv, ProgramReads
  <2>5. CASE ProgramEnds
    BY <2>5, ProgramEndsStep DEF DenoInv, ProgramEnds
  <2>6. ASSUME NEW empty \in BOOLEAN, ProgramReplies(empty) PROVE DenoInv'
    BY <2>6, ProgramRepliesStep DEF DenoInv, ProgramReplies
  <2>7. ASSUME NEW f \in DFrames, HandleDeno(f) PROVE DenoInv'
    BY <2>7, HandleDenoStep
  <2>. QED
    BY <1>4, <2>1, <2>2, <2>3, <2>4, <2>5, <2>6, <2>7 DEF RunDeno
<1>5. CASE Create
  BY <1>2, <1>5 DEF Create, CreateUnsupported, CreateExec, CreateDeno,
     CreateWasm, CreateGolang, runtimes
<1>6. CASE Build \/ Run
  BY <1>2, <1>3, <1>6 DEF Build, BuildGolang, BuildNothing, Run, StartChild, RunChild,
     RunWasmServerless, RunDenoServerless, runtimes
<1>7. CASE WasmStep \/ DenoStep \/ RxStep
  BY <1>2, <1>4, <1>7 DEF WasmStep, DenoStep, RxStep
<1>8. CASE ChildExits \/ RunReturned
  BY <1>2, <1>8 DEF ChildExits, RunReturned, runtimes
<1>9. ASSUME NEW command, NEW arg, NEW files, parseFileArg(command, arg, files)
      PROVE  DenoInv'
  BY <1>2, <1>9 DEF parseFileArg, runtimes
<1>10. ASSUME NEW nameOk, NEW addrOk, Options(nameOk, addrOk) PROVE DenoInv'
  BY <1>2, <1>10 DEF Options, runtimes
<1>11. CASE UNCHANGED serverlessVars
  BY <1>2, <1>11 DEF serverlessVars
<1>. QED
  BY <1>5, <1>6, <1>7, <1>8, <1>9, <1>10, <1>11 DEF Next

\* As long as frames come one at a time, the handler of a frame and the deno
\* program agree on where in their conversation they are, however much of it is
\* still on the connection, and between two conversations the connection is empty
\* (startSfn in cli/serverless/deno/runtime.go).
THEOREM DenoInvariant == Spec => []DenoInv
<1>1. DenoInv /\ [Next]_serverlessVars => DenoInv'
  BY DenoStepHolds
<1>. QED
  BY <1>1, DenoInitHolds, PTL DEF Spec

\* As long as frames come one at a time, whatever the deno program replies to
\* each (any number of replies, with data or without) and whenever its process
\* dies, a frame's context writes the replies to that frame, in order, and all
\* of them when the handler is done: the fields on the connection need no
\* names, because the handler is always at the place among them that the
\* program wrote (cli/serverless/deno/runtime.go).
THEOREM RepliesAttributed == Spec => []RepliesAreAttributed
<1>1. DenoInv => RepliesAreAttributed
  <2>. SUFFICES ASSUME Orderly, NEW f \in DFrames
                PROVE  /\ IsPrefix(denoEmitted[f], replied[f])
                       /\ denoHandler[f].pc = "done" => denoEmitted[f] = replied[f]
    BY DEF DenoInv, RepliesAreAttributed
  <2>. DEFINE s == denoEmitted[f]
              t == replied[f]
  <2>1. s \in Seq(DFields) /\ t \in Seq(DFields)
    BY DenoFacts
  <2>2. /\ Numbered(f, s) /\ Numbered(f, t) /\ Len(s) <= Len(t)
        /\ denoHandler[f].pc = "done" => Len(s) = Len(t)
    <3>1. Replies(f)
      BY DenoFacts
    <3>. QED
      BY <3>1 DEF Replies
  <2>. HIDE DEF s, t
  <2>3. \A i \in 1 .. Len(s) : s[i] = t[i]
    BY <2>1, <2>2 DEF Numbered
  <2>4. Len(s) \in Nat /\ Len(t) \in Nat
    BY <2>1
  <2>5. IsPrefix(s, t)
    <3>. DEFINE x == SubSeq(s, 1, Len(s))
                y == SubSeq(t, 1, Len(s))
    <3>1. /\ x \in Seq(DFields) /\ Len(x) = Len(s)
          /\ \A i \in 1 .. Len(s) : x[i] = s[i]
      BY <2>1, <2>4
    <3>2. /\ y \in Seq(DFields) /\ Len(y) = Len(s)
          /\ \A i \in 1 .. Len(s) : y[i] = t[i]
      BY <2>1, <2>2, <2>4
    <3>. HIDE DEF x, y
    <3>3. x = y
      BY <2>3, <3>1, <3>2
    <3>. QED
      BY <2>2, <3>3 DEF IsPrefix, x, y
  <2>6. denoHandler[f].pc = "done" => s = t
    BY <2>1, <2>2, <2>3
  <2>. QED
    BY <2>5, <2>6 DEF s, t
<1>. QED
  BY <1>1, DenoInvariant, PTL

-----------------------------------------------------------------------------
(***************************************************************************)
(* The windows of SlidingWindowWithCount: facts about multiples and        *)
(* sequences, then what the operator keeps of the items it has taken.      *)
(***************************************************************************)

LEMMA Multiples ==
  ASSUME NEW a \in Nat, NEW b \in Nat, NEW c \in Nat \ {0}
  PROVE  /\ a * c \in Nat
         /\ (a + 1) * c = a * c + c
         /\ a <= b => a * c <= b * c
         /\ a < b => a * c + c <= b * c
OBVIOUS

\* Between two multiples of c there is none.
LEMMA NextMultiple ==
  ASSUME NEW a \in Nat, NEW k \in Nat, NEW c \in Nat \ {0},
         k * c < a, a <= (k + 1) * c
  PROVE  a % c = 0 <=> a = (k + 1) * c
<1>1. ASSUME a % c = 0 PROVE a = (k + 1) * c
  <2>1. a = c * (a \div c)
    BY <1>1, SMTT(30)
  <2>2. PICK q \in Nat : a = q * c
    <3>1. a \div c \in Nat
      OBVIOUS
    <3>. QED
      BY <2>1, <3>1
  <2>3. q <= k => q * c <= k * c
    BY Multiples
  <2>4. k + 1 < q => (k + 1) * c < q * c
    <3>1. k + 1 \in Nat
      OBVIOUS
    <3>. QED
      BY <3>1, Multiples
  <2>. QED
    BY <2>2, <2>3, <2>4
<1>2. ASSUME a = (k + 1) * c PROVE a % c = 0
  <2>1. \A m \in Nat : (m * c) % c = 0
    OBVIOUS
  <2>. QED
    BY <1>2, <2>1
<1>. QED
  BY <1>1, <1>2

LEMMA OneIsNoMultiple ==
  ASSUME NEW c \in Nat \ {0}, c # 1
  PROVE  1 % c # 0
<1>. SUFFICES 1 % c = 1
  OBVIOUS
<1>. QED
  OBVIOUS

LEMMA SubSeqFacts ==
  ASSUME NEW X, NEW s \in Seq(X), NEW m \in Nat \ {0}, NEW n \in Nat, n <= Len(s)
  PROVE  /\ SubSeq(s, m, n) \in Seq(X)
         /\ Len(SubSeq(s, m, n)) = IF m <= n THEN n - m + 1 ELSE 0
         /\ \A i \in 1 .. (n - m + 1) : SubSeq(s, m, n)[i] = s[m + i - 1]
OBVIOUS

\* Two sequences are the same when their elements are.
LEMMA SameSeq ==
  ASSUME NEW X, NEW s \in Seq(X), NEW t \in Seq(X), Len(s) = Len(t),
         \A i \in 1 .. Len(s) : s[i] = t[i]
  PROVE  s = t
OBVIOUS

LEMMA SameSubSeq ==
  ASSUME NEW X, NEW s \in Seq(X), NEW t \in Seq(X), NEW m \in Nat \ {0}, NEW n \in Nat,
         n <= Len(s), n <= Len(t), \A j \in 1 .. n : s[j] = t[j]
  PROVE  SubSeq(s, m, n) = SubSeq(t, m, n)
<1>. DEFINE x == SubSeq(s, m, n)
            y == SubSeq(t, m, n)
<1>1. /\ x \in Seq(X) /\ Len(x) = IF m <= n THEN n - m + 1 ELSE 0
      /\ \A i \in 1 .. (n - m + 1) : x[i] = s[m + i - 1]
  BY SubSeqFacts
<1>2. /\ y \in Seq(X) /\ Len(y) = IF m <= n THEN n - m + 1 ELSE 0
      /\ \A i \in 1 .. (n - m + 1) : y[i] = t[m + i - 1]
  BY SubSeqFacts
<1>. HIDE DEF x, y
<1>3. ASSUME NEW i \in 1 .. Len(x) PROVE x[i] = y[i]
  <2>1. i \in 1 .. (n - m + 1) /\ m + i - 1 \in 1 .. n
    BY <1>1
  <2>. QED
    BY <1>1, <1>2, <2>1
<1>. QED
  BY <1>1, <1>2, <1>3, SameSeq DEF x, y

LEMMA AppendFacts ==
  ASSUME NEW X, NEW s \in Seq(X), NEW i \in X
  PROVE  /\ Append(s, i) \in Seq(X)
         /\ Len(s) \in Nat /\ Len(Append(s, i)) = Len(s) + 1
         /\ Append(s, i)[Len(s) + 1] = i
         /\ \A j \in 1 .. Len(s) : Append(s, i)[j] = s[j]
OBVIOUS

LEMMA ConcatFacts ==
  ASSUME NEW X, NEW s \in Seq(X), NEW t \in Seq(X)
  PROVE  s \o t \in Seq(X) /\ Len(s \o t) = Len(s) + Len(t)
OBVIOUS

LEMMA ConcatAppend ==
  ASSUME NEW X, NEW s \in Seq(X), NEW t \in Seq(X), NEW i \in X
  PROVE  s \o Append(t, i) = Append(s \o t, i)
OBVIOUS

\* What was kept is not changed by a further item.
LEMMA KeptStays ==
  ASSUME NEW s \in Seq(Nat), NEW i \in Nat, NEW n \in Nat,
         n <= Len(s), WindowSize <= Len(s)
  PROVE  Kept(Append(s, i), n) = Kept(s, n)
<1>. DEFINE t == Append(s, i)
            w == WindowSize + SlideSize
<1>1. /\ t \in Seq(Nat) /\ Len(t) = Len(s) + 1 /\ Len(s) \in Nat
      /\ \A j \in 1 .. Len(s) : t[j] = s[j]
  OBVIOUS
<1>2. WindowSize \in Nat \ {0} /\ w \in Nat \ {0}
  BY RxAssumption
<1>. HIDE DEF t, w
<1>3. SubSeq(t, 1, WindowSize) = SubSeq(s, 1, WindowSize)
  BY <1>1, <1>2
<1>4. SubSeq(t, w, n) = SubSeq(s, w, n)
  <2>0. n <= Len(t) /\ 1 .. n \subseteq 1 .. Len(s)
    BY <1>1
  <2>1. n <= Len(t) /\ \A j \in 1 .. n : t[j] = s[j]
    BY <1>1, <2>0
  <2>. QED
    BY <1>1, <1>2, <2>1, SameSubSeq
<1>. QED
  BY <1>3, <1>4 DEF Kept, t, w

\* Until the handler is called for the first time the first window is kept.
LEMMA KeptFirst ==
  ASSUME NEW s \in Seq(Nat), NEW n \in Nat, n <= Len(s), WindowSize <= n,
         n < WindowSize + SlideSize
  PROVE  /\ LastOf(Kept(s, n)) = SubSeq(s, 1, WindowSize)
         /\ SubSeq(s, 1, WindowSize) \in Seq(Nat)
         /\ Len(SubSeq(s, 1, WindowSize)) = WindowSize
<1>. DEFINE f == SubSeq(s, 1, WindowSize)
            w == WindowSize + SlideSize
<1>1. WindowSize \in Nat \ {0} /\ w \in Nat \ {0} /\ n < w /\ WindowSize <= Len(s)
  BY RxAssumption
<1>. HIDE DEF w
<1>2. f \in Seq(Nat) /\ Len(f) = WindowSize
  BY <1>1, SubSeqFacts
<1>3. SubSeq(s, w, n) = <<>>
  <2>1. SubSeq(s, w, n) \in Seq(Nat) /\ Len(SubSeq(s, w, n)) = 0
    BY <1>1, SubSeqFacts
  <2>. QED
    BY <2>1
<1>. HIDE DEF f
<1>4. Kept(s, n) = f
  <2>1. Kept(s, n) = f \o SubSeq(s, w, n)
    BY DEF Kept, f, w
  <2>2. f \o <<>> = f
    BY <1>2
  <2>. QED
    BY <1>3, <2>1, <2>2
<1>5. SubSeq(f, 1, WindowSize) = f
  BY <1>1, <1>2
<1>6. LastOf(f) = f
  BY <1>1, <1>2, <1>5 DEF LastOf
<1>. QED
  BY <1>2, <1>4, <1>6 DEF f

\* From then on every item is kept, and the window slides by it.
LEMMA KeptNext ==
  ASSUME NEW s \in Seq(Nat), NEW i \in Nat, WindowSize + SlideSize <= Len(s) + 1
  PROVE  LastOf(Kept(Append(s, i), Len(s) + 1)) = Append(Tail(LastOf(Kept(s, Len(s)))), i)
<1>. DEFINE t == Append(s, i)
            w == WindowSize + SlideSize
            f == SubSeq(s, 1, WindowSize)
            r == SubSeq(s, w, Len(s))
            n == Len(s)
<1>1. /\ WindowSize \in Nat \ {0} /\ w \in Nat \ {0} /\ w <= n + 1 /\ n \in Nat
      /\ WindowSize < w
  BY RxAssumption
<1>2. /\ t \in Seq(Nat) /\ Len(t) = n + 1 /\ t[n + 1] = i
      /\ \A j \in 1 .. n : t[j] = s[j]
  OBVIOUS
<1>. HIDE DEF w, t, n
<1>3. f \in Seq(Nat) /\ Len(f) = WindowSize /\ \A j \in 1 .. WindowSize : f[j] = s[j]
  <2>1. WindowSize <= Len(s) /\ 1 \in Nat \ {0}
    BY <1>1 DEF n
  <2>. QED
    BY <1>1, <2>1, SubSeqFacts
<1>4. /\ r \in Seq(Nat) /\ Len(r) = n - w + 1
      /\ \A j \in 1 .. (n - w + 1) : r[j] = s[w + j - 1]
  BY <1>1, SubSeqFacts DEF n
<1>. HIDE DEF f, r
<1>5. SubSeq(t, 1, WindowSize) = f
  <2>1. /\ WindowSize <= Len(t) /\ WindowSize <= Len(s)
        /\ \A j \in 1 .. WindowSize : t[j] = s[j]
    BY <1>1, <1>2 DEF n
  <2>2. 1 \in Nat \ {0} /\ WindowSize \in Nat
    BY <1>1
  <2>. QED
    BY <1>2, <2>1, <2>2, SameSubSeq DEF f
<1>6. SubSeq(t, w, n + 1) = Append(r, i)
  <2>1. /\ SubSeq(t, w, n + 1) \in Seq(Nat) /\ Len(SubSeq(t, w, n + 1)) = n - w + 2
        /\ \A j \in 1 .. (n - w + 2) : SubSeq(t, w, n + 1)[j] = t[w + j - 1]
    BY <1>1, <1>2
  <2>2. /\ Append(r, i) \in Seq(Nat) /\ Len(Append(r, i)) = n - w + 2
        /\ Append(r, i)[n - w + 2] = i
        /\ \A j \in 1 .. n - w + 1 : Append(r, i)[j] = r[j]
    <3>1. (n - w + 1) + 1 = n - w + 2
      BY <1>1
    <3>. QED
      BY <1>4, <3>1, AppendFacts
  <2>3. ASSUME NEW j \in 1 .. n - w + 2 PROVE SubSeq(t, w, n + 1)[j] = Append(r, i)[j]
    <3>1. CASE j \in 1 .. n - w + 1
      <4>1. w + j - 1 \in 1 .. n /\ t[w + j - 1] = s[w + j - 1]
        BY <1>1, <1>2, <3>1
      <4>. QED
        BY <1>4, <2>1, <2>2, <3>1, <4>1
    <3>2. CASE j = n - w + 2
      <4>1. w + j - 1 = n + 1
        BY <1>1, <3>2
      <4>. QED
        BY <1>2, <2>1, <2>2, <3>2, <4>1
    <3>3. j \in 1 .. n - w + 1 \/ j = n - w + 2
      BY <1>1
    <3>. QED
      BY <3>1, <3>2, <3>3
  <2>. QED
    BY <2>1, <2>2, <2>3, SameSeq
<1>. DEFINE x == f \o r
            m == Len(x)
            y == SubSeq(x, m - WindowSize + 1, m)
            z == SubSeq(Append(x, i), m + 1 - WindowSize + 1, m + 1)
<1>7. x \in Seq(Nat) /\ m \in Nat /\ m >= WindowSize
  BY <1>1, <1>3, <1>4
<1>8. Kept(s, n) = x
  BY DEF Kept, f, r, w, n
<1>9. Kept(t, n + 1) = Append(x, i)
  <2>1. Kept(t, n + 1) = f \o Append(r, i)
    BY <1>5, <1>6 DEF Kept, w
  <2>2. f \in Seq(Nat) /\ r \in Seq(Nat)
    BY <1>3, <1>4
  <2>3. f \o Append(r, i) = Append(f \o r, i)
    BY <2>2, ConcatAppend
  <2>. QED
    BY <2>1, <2>3
<1>. HIDE DEF x
<1>10. LastOf(x) = y /\ LastOf(Append(x, i)) = z
  <2>1. Len(Append(x, i)) = m + 1
    BY <1>7, AppendFacts
  <2>2. LastOf(x) = y
    BY DEF LastOf
  <2>. DEFINE u == Append(x, i)
  <2>3. Len(u) = m + 1 /\ z = SubSeq(u, m + 1 - WindowSize + 1, m + 1)
    BY <2>1
  <2>. HIDE DEF u, z, m
  <2>4. LastOf(u) = z
    BY <1>1, <1>7, <2>3 DEF LastOf
  <2>. QED
    BY <2>2, <2>4 DEF u
<1>11. z = Append(Tail(y), i)
  <2>. HIDE DEF m
  <2>1. /\ y \in Seq(Nat) /\ Len(y) = WindowSize
        /\ \A j \in 1 .. WindowSize : y[j] = x[m - WindowSize + j]
    BY <1>1, <1>7 DEF m
  <2>2. /\ z \in Seq(Nat) /\ Len(z) = WindowSize
        /\ \A j \in 1 .. WindowSize : z[j] = Append(x, i)[m + 1 - WindowSize + j]
    <3>. DEFINE u == Append(x, i)
                a == m + 1 - WindowSize + 1
    <3>1. u \in Seq(Nat) /\ Len(u) = m + 1
      BY <1>7, AppendFacts DEF m
    <3>2. a \in Nat \ {0} /\ (m + 1) - a + 1 = WindowSize /\ m + 1 \in Nat
      BY <1>1, <1>7
    <3>3. z = SubSeq(u, a, m + 1)
      OBVIOUS
    <3>4. a <= m + 1 /\ m + 1 <= Len(u)
      BY <1>1, <1>7, <3>1
    <3>5. \A j \in 1 .. WindowSize : a + j - 1 = m + 1 - WindowSize + j
      BY <1>1, <1>7
    <3>. HIDE DEF u, a, z
    <3>6. z \in Seq(Nat) /\ Len(z) = WindowSize /\ \A j \in 1 .. WindowSize : z[j] = u[a + j - 1]
      <4>. DEFINE e == m + 1
      <4>1. /\ e \in Nat /\ a \in Nat \ {0} /\ a <= e /\ e <= Len(u)
            /\ z = SubSeq(u, a, e) /\ e - a + 1 = WindowSize
        BY <3>2, <3>3, <3>4
      <4>. HIDE DEF e
      <4>2. /\ SubSeq(u, a, e) \in Seq(Nat)
            /\ Len(SubSeq(u, a, e)) = IF a <= e THEN e - a + 1 ELSE 0
            /\ \A j \in 1 .. (e - a + 1) : SubSeq(u, a, e)[j] = u[a + j - 1]
        BY <3>1, <4>1, SubSeqFacts
      <4>. QED
        BY <4>1, <4>2
    <3>. QED
      BY <3>5, <3>6 DEF u
  <2>. HIDE DEF y, z
  <2>3. /\ Tail(y) \in Seq(Nat) /\ Len(Tail(y)) = WindowSize - 1
        /\ \A j \in 1 .. WindowSize - 1 : Tail(y)[j] = y[j + 1]
    BY <1>1, <2>1
  <2>4. /\ Append(Tail(y), i) \in Seq(Nat) /\ Len(Append(Tail(y), i)) = WindowSize
    BY <1>1, <2>3
  <2>5. ASSUME NEW j \in 1 .. WindowSize PROVE z[j] = Append(Tail(y), i)[j]
    <3>1. CASE j \in 1 .. WindowSize - 1
      <4>1. Append(Tail(y), i)[j] = x[m - WindowSize + (j + 1)]
        BY <1>1, <2>1, <2>3, <3>1
      <4>2. m + 1 - WindowSize + j \in 1 .. m /\ m + 1 - WindowSize + j = m - WindowSize + (j + 1)
        BY <1>1, <1>7, <3>1
      <4>3. z[j] = x[m + 1 - WindowSize + j]
        BY <1>7, <2>2, <4>2 DEF m
      <4>. QED
        BY <4>1, <4>2, <4>3
    <3>2. CASE j = WindowSize
      <4>1. m + 1 - WindowSize + j = m + 1 /\ Append(x, i)[m + 1] = i
        BY <1>1, <1>7, <3>2 DEF m
      <4>2. Append(Tail(y), i)[j] = i
        BY <1>1, <2>3, <3>2
      <4>. QED
        BY <2>2, <4>1, <4>2
    <3>3. j \in 1 .. WindowSize - 1 \/ j = WindowSize
      BY <1>1
    <3>. QED
      BY <3>1, <3>2, <3>3
  <2>. QED
    BY <2>2, <2>4, <2>5, SameSeq
<1>. QED
  BY <1>8, <1>9, <1>10, <1>11 DEF t, n

\* A full window is as long as it should be.
LEMMA LastIsWindow ==
  ASSUME NEW s \in Seq(Nat), WindowSize <= Len(s)
  PROVE  LastOf(Kept(s, Len(s))) \in Seq(Nat) /\ Len(LastOf(Kept(s, Len(s)))) = WindowSize
<1>. DEFINE f == SubSeq(s, 1, WindowSize)
            w == WindowSize + SlideSize
            n == Len(s)
            r == SubSeq(s, w, n)
            x == f \o r
            m == Len(x)
<1>1. WindowSize \in Nat \ {0} /\ w \in Nat \ {0} /\ n \in Nat /\ WindowSize <= n
  BY RxAssumption
<1>. HIDE DEF w
<1>2. f \in Seq(Nat) /\ Len(f) = WindowSize
  BY <1>1, SubSeqFacts
<1>3. r \in Seq(Nat) /\ Len(r) \in Nat
  <2>1. r \in Seq(Nat)
    BY <1>1, SubSeqFacts
  <2>. QED
    BY <2>1
<1>. HIDE DEF f, r
<1>4. x \in Seq(Nat) /\ m \in Nat /\ m = WindowSize + Len(r)
  <2>1. x \in Seq(Nat) /\ m = Len(f) + Len(r)
    BY <1>2, <1>3, ConcatFacts
  <2>. QED
    BY <1>1, <1>2, <1>3, <2>1
<1>5. Kept(s, n) = x
  BY DEF Kept, f, r, w
<1>. HIDE DEF x
<1>. DEFINE a == m - WindowSize + 1
<1>6. a \in Nat \ {0} /\ m - a + 1 = WindowSize /\ a <= m
  BY <1>1, <1>3, <1>4
<1>7. LastOf(x) = SubSeq(x, a, m)
  BY DEF LastOf
<1>8. m <= Len(x)
  BY <1>4
<1>. HIDE DEF a, m
<1>9. SubSeq(x, a, m) \in Seq(Nat) /\ Len(SubSeq(x, a, m)) = IF a <= m THEN m - a + 1 ELSE 0
  BY <1>4, <1>6, <1>8, SubSeqFacts
<1>. QED
  BY <1>5, <1>6, <1>7, <1>9

-----------------------------------------------------------------------------
(* The state of the window operator.                                       *)

Item == [n : Nat, kind : {"none", "bytes", "error", "other"}]

RxType ==
  [phase : {"off", "running", "exited", "crashed"}, runtime : {"raw", "pipe"},
   op : RxOperators, own : BOOLEAN, fed : Seq({"bytes", "error", "other"}),
   ticks : Nat, piped : BOOLEAN, cancelled : BOOLEAN, rawClosed : BOOLEAN]

WinType ==
  [count : Nat, slide : Nat, buf : Seq(Nat), firstTimeSend : BOOLEAN,
   windows : Seq(Seq(Nat)), locked : BOOLEAN,
   pc : {"loop", "lock", "failing", "ended"}, item : Item,
   timer : {"select", "check", "last", "failing", "lastFailing", "ended"},
   failed : BOOLEAN]

RxTypeOK ==
  /\ rx \in RxType
  /\ raw \subseteq Item
  /\ offer \in [Stages -> Item]
  /\ win \in WinType
  /\ observed \in Seq(Nat)

\* The window is being filled; nothing has been handled.
Filling(w, o) ==
  /\ w.count = Len(o) /\ w.slide = 0
  /\ w.buf = o
  /\ w.firstTimeSend /\ w.windows = <<>>

\* The window is full, and has been handled with every SlideSize-th item.
Sliding(w, o) ==
  LET k == Len(w.windows)
  IN  /\ w.count = WindowSize /\ w.slide = Len(o) - WindowSize + 1
      /\ w.buf = LastOf(Kept(o, Len(o)))
      /\ w.firstTimeSend <=> k = 0
      /\ k * SlideSize <= w.slide /\ w.slide < (k + 1) * SlideSize
      /\ \A j \in 1 .. k : w.windows[j] = LastOf(Kept(o, CallAt(j)))

Windowed(w, o) == IF Len(o) < WindowSize THEN Filling(w, o) ELSE Sliding(w, o)

RxInv ==
  /\ RxTypeOK
  /\ rx.phase = "off" => rx.op = "count"
  /\ rx.op = "count" => /\ win.pc # "lock" /\ win.timer = "select"
                        /\ Windowed(win, observed)


LEMMA FilledIs ==
  ASSUME NEW w \in WinType, NEW i \in Nat
  PROVE  LET v == [w EXCEPT !.buf = Append(@, i), !.count = @ + 1]
         IN  /\ v \in WinType
             /\ v.count = w.count + 1 /\ v.slide = w.slide /\ v.buf = Append(w.buf, i)
             /\ v.firstTimeSend = w.firstTimeSend /\ v.windows = w.windows
             /\ v.timer = w.timer /\ v.pc = w.pc
<1>. DEFINE b == Append(w.buf, i)
            c == w.count + 1
            v == [w EXCEPT !.buf = b, !.count = c]
<1>1. b \in Seq(Nat) /\ c \in Nat
  BY DEF WinType
<1>. HIDE DEF b, c
<1>2. /\ v \in WinType
      /\ v.count = c /\ v.slide = w.slide /\ v.buf = b
      /\ v.firstTimeSend = w.firstTimeSend /\ v.windows = w.windows
      /\ v.timer = w.timer /\ v.pc = w.pc
  BY <1>1 DEF WinType
<1>. QED
  BY <1>2 DEF b, c

LEMMA SlidIs ==
  ASSUME NEW w \in WinType, NEW b \in Seq(Nat)
  PROVE  LET v == [w EXCEPT !.slide = @ + 1, !.buf = b]
         IN  /\ v \in WinType
             /\ v.count = w.count /\ v.slide = w.slide + 1 /\ v.buf = b
             /\ v.firstTimeSend = w.firstTimeSend /\ v.windows = w.windows
             /\ v.timer = w.timer /\ v.pc = w.pc
<1>. DEFINE c == w.slide + 1
            v == [w EXCEPT !.slide = c, !.buf = b]
<1>1. c \in Nat
  BY DEF WinType
<1>. HIDE DEF c
<1>2. /\ v \in WinType
      /\ v.count = w.count /\ v.slide = c /\ v.buf = b
      /\ v.firstTimeSend = w.firstTimeSend /\ v.windows = w.windows
      /\ v.timer = w.timer /\ v.pc = w.pc
  BY <1>1 DEF WinType
<1>. QED
  BY <1>2 DEF c

\* What Slide does to a window that is to be handled for the first time, or is
\* full.
SlideResult(w, i, v) ==
  /\ v \in WinType
  /\ v.firstTimeSend = w.firstTimeSend /\ v.windows = w.windows
  /\ v.timer = w.timer /\ v.pc = w.pc
  /\ v.count = IF w.count < WindowSize THEN w.count + 1 ELSE w.count
  /\ v.slide = IF v.count < WindowSize THEN w.slide ELSE w.slide + 1
  /\ v.buf = IF w.count < WindowSize THEN Append(w.buf, i)
             ELSE IF w.firstTimeSend THEN w.buf ELSE Append(Tail(w.buf), i)

LEMMA SlideIs ==
  ASSUME NEW w \in WinType, NEW i \in Nat,
         w.firstTimeSend \/ (w.count >= WindowSize /\ w.buf # <<>>)
  PROVE  SlideResult(w, i, Slide(w, i))
<1>. DEFINE v == [w EXCEPT !.buf = Append(@, i), !.count = @ + 1]
            filled == IF w.count < WindowSize THEN v ELSE w
            b == IF w.firstTimeSend THEN filled.buf ELSE Append(Tail(filled.buf), i)
            u == [filled EXCEPT !.slide = @ + 1, !.buf = b]
<1>0. w.count \in Nat /\ w.buf \in Seq(Nat) /\ WindowSize \in Nat
  BY RxAssumption DEF WinType
<1>1. Slide(w, i) = IF filled.count < WindowSize THEN filled ELSE u
  BY DEF Slide
<1>2. /\ v \in WinType
      /\ v.count = w.count + 1 /\ v.slide = w.slide /\ v.buf = Append(w.buf, i)
      /\ v.firstTimeSend = w.firstTimeSend /\ v.windows = w.windows
      /\ v.timer = w.timer /\ v.pc = w.pc
  BY FilledIs
<1>. HIDE DEF v
<1>3. /\ filled \in WinType /\ filled.buf \in Seq(Nat)
      /\ filled.count = IF w.count < WindowSize THEN w.count + 1 ELSE w.count
      /\ filled.buf = IF w.count < WindowSize THEN Append(w.buf, i) ELSE w.buf
      /\ filled.slide = w.slide
      /\ filled.firstTimeSend = w.firstTimeSend /\ filled.windows = w.windows
      /\ filled.timer = w.timer /\ filled.pc = w.pc
  <2>1. CASE w.count < WindowSize
    <3>1. filled = v /\ v.buf \in Seq(Nat)
      BY <1>2, <2>1 DEF WinType
    <3>. HIDE DEF filled
    <3>. QED
      BY <1>2, <2>1, <3>1
  <2>2. CASE ~(w.count < WindowSize)
    BY <1>0, <2>2
  <2>. QED
    BY <2>1, <2>2
<1>. HIDE DEF filled
<1>4. b \in Seq(Nat)
  <2>1. CASE w.firstTimeSend
    BY <1>3, <2>1
  <2>2. CASE ~w.firstTimeSend
    <3>1. w.buf # <<>> /\ filled.buf = w.buf
      BY <1>0, <1>3, <2>2
    <3>. QED
      BY <1>0, <2>2, <3>1
  <2>. QED
    BY <2>1, <2>2
<1>5. b = IF w.count < WindowSize THEN Append(w.buf, i)
          ELSE IF w.firstTimeSend THEN w.buf ELSE Append(Tail(w.buf), i)
  BY <1>0, <1>3
<1>. HIDE DEF b
<1>6. /\ u \in WinType
      /\ u.count = filled.count /\ u.slide = filled.slide + 1 /\ u.buf = b
      /\ u.firstTimeSend = filled.firstTimeSend /\ u.windows = filled.windows
      /\ u.timer = filled.timer /\ u.pc = filled.pc
  BY <1>3, <1>4, SlidIs
<1>. HIDE DEF u
<1>7. CASE filled.count < WindowSize
  <2>1. Slide(w, i) = filled /\ w.count < WindowSize
    BY <1>0, <1>1, <1>3, <1>7
  <2>. QED
    BY <1>3, <1>7, <2>1 DEF SlideResult
<1>8. CASE ~(filled.count < WindowSize)
  <2>1. Slide(w, i) = u
    BY <1>1, <1>8
  <2>. QED
    BY <1>3, <1>5, <1>6, <1>8, <2>1 DEF SlideResult
<1>. QED
  BY <1>7, <1>8

\* The handler is called with a window, or not.
LEMMA HandledIs ==
  ASSUME NEW w \in WinType, NEW called \in BOOLEAN, NEW ok \in BOOLEAN
  PROVE  LET v == Handled(w, called, ok)
         IN  /\ v \in WinType
             /\ v.count = w.count /\ v.slide = w.slide /\ v.buf = w.buf
             /\ v.firstTimeSend <=> w.firstTimeSend /\ ~called
             /\ v.windows = IF called THEN Append(w.windows, w.buf) ELSE w.windows
             /\ v.timer = w.timer /\ v.pc # "lock"
<1>1. /\ w.buf \in Seq(Nat) /\ w.windows \in Seq(Seq(Nat))
      /\ (IF called THEN Append(w.windows, w.buf) ELSE w.windows) \in Seq(Seq(Nat))
  BY DEF WinType
<1>. QED
  BY <1>1 DEF WinType, Handled

LEMMA WindowedFacts ==
  ASSUME NEW w \in WinType, NEW o \in Seq(Nat), Windowed(w, o)
  PROVE  /\ w.firstTimeSend \/ (w.count >= WindowSize /\ w.buf # <<>>)
         /\ w.count = IF Len(o) < WindowSize THEN Len(o) ELSE WindowSize
<1>1. CASE Len(o) < WindowSize
  BY <1>1 DEF Windowed, Filling
<1>2. CASE ~(Len(o) < WindowSize)
  <2>1. Sliding(w, o) /\ WindowSize \in Nat \ {0} /\ Len(o) \in Nat
    BY <1>2, RxAssumption DEF Windowed
  <2>2. w.count = WindowSize /\ w.buf = LastOf(Kept(o, Len(o)))
    BY <2>1 DEF Sliding
  <2>3. w.buf # <<>>
    BY <1>2, <2>1, <2>2, LastIsWindow
  <2>. QED
    BY <1>2, <2>1, <2>2, <2>3
<1>. QED
  BY <1>1, <1>2

\* An item more, with a call of the handler or without.
LEMMA WindowStep ==
  ASSUME NEW w \in WinType, NEW o \in Seq(Nat), Windowed(w, o), NEW i \in Nat,
         NEW u \in WinType, SlideResult(w, i, u),
         NEW called \in BOOLEAN, called <=> u.count = WindowSize /\ u.slide % SlideSize = 0,
         NEW v \in WinType,
         v.count = u.count, v.slide = u.slide, v.buf = u.buf,
         v.firstTimeSend <=> u.firstTimeSend /\ ~called,
         v.windows = IF called THEN Append(u.windows, u.buf) ELSE u.windows
  PROVE  Windowed(v, Append(o, i))
<1>. DEFINE n == Len(o)
            p == Append(o, i)
<1>0. /\ WindowSize \in Nat \ {0} /\ SlideSize \in Nat \ {0} /\ n \in Nat
      /\ p \in Seq(Nat) /\ Len(p) = n + 1
      /\ \A j \in 1 .. n : p[j] = o[j]
  BY RxAssumption, AppendFacts
<1>. HIDE DEF p, n
<1>1. CASE n + 1 < WindowSize
  <2>1. Filling(w, o)
    BY <1>0, <1>1 DEF Windowed, n
  <2>2. w.count = n /\ w.slide = 0 /\ w.buf = o /\ w.firstTimeSend /\ w.windows = <<>>
    BY <2>1 DEF Filling, n
  <2>3. u.count = n + 1 /\ u.slide = 0 /\ u.buf = p /\ u.firstTimeSend /\ u.windows = <<>>
    BY <1>0, <1>1, <2>2 DEF SlideResult, p
  <2>4. ~called
    BY <1>0, <1>1, <2>3
  <2>5. Filling(v, p)
    BY <1>0, <2>3, <2>4 DEF Filling
  <2>. QED
    BY <1>0, <1>1, <2>5 DEF Windowed, p
<1>2. CASE n + 1 = WindowSize
  <2>1. Filling(w, o)
    BY <1>0, <1>2 DEF Windowed, n
  <2>2. w.count = n /\ w.slide = 0 /\ w.buf = o /\ w.firstTimeSend /\ w.windows = <<>>
    BY <2>1 DEF Filling, n
  <2>3. u.count = WindowSize /\ u.slide = 1 /\ u.buf = p /\ u.firstTimeSend /\ u.windows = <<>>
    BY <1>0, <1>2, <2>2 DEF SlideResult, p
  <2>4. LastOf(Kept(p, WindowSize)) = p
    <3>1. LastOf(Kept(p, WindowSize)) = SubSeq(p, 1, WindowSize)
      BY <1>0, <1>2, KeptFirst
    <3>2. SubSeq(p, 1, WindowSize) = p
      BY <1>0, <1>2
    <3>. QED
      BY <3>1, <3>2
  <2>5. called <=> SlideSize = 1
    <3>1. SlideSize = 1 => 1 % SlideSize = 0
      OBVIOUS
    <3>2. SlideSize # 1 => 1 % SlideSize # 0
      BY <1>0, OneIsNoMultiple
    <3>. QED
      BY <2>3, <3>1, <3>2
  <2>6. CASE called
    <3>1. v.windows = Append(u.windows, p) /\ ~v.firstTimeSend
      BY <2>3, <2>6
    <3>2. Len(v.windows) = 1 /\ v.windows[1] = p
      <4>. DEFINE x == v.windows
                  e == u.windows
      <4>1. x = Append(e, p) /\ e \in Seq(Seq(Nat)) /\ Len(e) = 0
        BY <2>3, <3>1 DEF WinType
      <4>. HIDE DEF x, e
      <4>2. Len(x) = 1 /\ x[1] = p
        BY <1>0, <4>1
      <4>. QED
        BY <4>2 DEF x
    <3>3. CallAt(1) = WindowSize
      BY <1>0, <2>5, <2>6 DEF CallAt
    <3>4. 1 * SlideSize = 1 /\ (1 + 1) * SlideSize = 2
      BY <2>5, <2>6
    <3>5. Sliding(v, p)
      BY <1>0, <1>2, <2>3, <2>4, <3>1, <3>2, <3>3, <3>4 DEF Sliding
    <3>. QED
      BY <1>0, <1>2, <3>5 DEF Windowed, p
  <2>7. CASE ~called
    <3>1. v.windows = <<>> /\ v.firstTimeSend /\ Len(v.windows) = 0
      BY <2>3, <2>7
    <3>2. 0 * SlideSize = 0 /\ (0 + 1) * SlideSize = SlideSize /\ 1 < SlideSize
      BY <1>0, <2>5, <2>7
    <3>3. Sliding(v, p)
      BY <1>0, <1>2, <2>3, <2>4, <3>1, <3>2 DEF Sliding
    <3>. QED
      BY <1>0, <1>2, <3>3 DEF Windowed, p
  <2>. QED
    BY <2>6, <2>7
<1>3. CASE WindowSize <= n
  <2>. DEFINE k == Len(w.windows)
  <2>1. Sliding(w, o)
    BY <1>0, <1>3 DEF Windowed, n
  <2>2. /\ w.count = WindowSize /\ w.slide = n - WindowSize + 1
        /\ w.buf = LastOf(Kept(o, n))
        /\ w.firstTimeSend <=> k = 0
        /\ k * SlideSize <= w.slide /\ w.slide < (k + 1) * SlideSize
        /\ \A j \in 1 .. k : w.windows[j] = LastOf(Kept(o, CallAt(j)))
    BY <2>1 DEF Sliding, n
  <2>3. k \in Nat /\ w.slide \in Nat /\ w.windows \in Seq(Seq(Nat)) /\ u.buf \in Seq(Nat)
    BY DEF WinType
  <2>4. /\ u.count = WindowSize /\ u.slide = w.slide + 1
        /\ u.buf = IF w.firstTimeSend THEN w.buf ELSE Append(Tail(w.buf), i)
        /\ (u.firstTimeSend <=> k = 0) /\ u.windows = w.windows
    BY <1>0, <2>2 DEF SlideResult
  <2>. HIDE DEF k
  <2>5. /\ k * SlideSize \in Nat /\ (k + 1) * SlideSize = k * SlideSize + SlideSize
        /\ (k + 2) * SlideSize = (k + 1) * SlideSize + SlideSize
        /\ k = 0 => (k + 1) * SlideSize = SlideSize
        /\ k > 0 => SlideSize <= k * SlideSize
    BY <1>0, <2>3
  <2>6. u.buf = LastOf(Kept(p, n + 1))
    <3>1. CASE k = 0
      <4>1. n + 1 < WindowSize + SlideSize
        BY <1>0, <2>2, <2>3, <2>5, <3>1
      <4>2. LastOf(Kept(o, n)) = SubSeq(o, 1, WindowSize)
        BY <1>0, <1>3, <4>1, KeptFirst DEF n
      <4>3. LastOf(Kept(p, n + 1)) = SubSeq(p, 1, WindowSize)
        <5>1. n + 1 \in Nat /\ n + 1 <= Len(p) /\ WindowSize <= n + 1
          BY <1>0, <1>3
        <5>. QED
          BY <1>0, <4>1, <5>1, KeptFirst
      <4>4. SubSeq(p, 1, WindowSize) = SubSeq(o, 1, WindowSize)
        <5>1. /\ WindowSize <= Len(p) /\ WindowSize <= Len(o)
              /\ \A j \in 1 .. WindowSize : p[j] = o[j]
          BY <1>0, <1>3 DEF n
        <5>2. 1 \in Nat \ {0} /\ WindowSize \in Nat
          BY <1>0
        <5>. QED
          BY <1>0, <5>1, <5>2, SameSubSeq
      <4>. QED
        BY <2>2, <2>4, <3>1, <4>2, <4>3, <4>4
    <3>2. CASE k # 0
      <4>1. WindowSize + SlideSize <= n + 1
        <5>1. SlideSize <= w.slide
          <6>. DEFINE a == k * SlideSize
          <6>1. a \in Nat /\ SlideSize <= a /\ a <= w.slide
            BY <2>2, <2>3, <2>5, <3>2
          <6>. HIDE DEF a
          <6>. QED
            BY <1>0, <2>3, <6>1
        <5>. QED
          BY <1>0, <2>2, <5>1
      <4>2. LastOf(Kept(p, n + 1)) = Append(Tail(LastOf(Kept(o, n))), i)
        BY <4>1, KeptNext DEF n, p
      <4>. QED
        BY <2>2, <2>4, <3>2, <4>2
    <3>. QED
      BY <3>1, <3>2
  <2>7. called <=> u.slide = (k + 1) * SlideSize
    <3>1. u.slide \in Nat /\ k * SlideSize < u.slide /\ u.slide <= (k + 1) * SlideSize
      BY <1>0, <2>2, <2>3, <2>4, <2>5
    <3>2. u.slide % SlideSize = 0 <=> u.slide = (k + 1) * SlideSize
      BY <1>0, <2>3, <3>1, NextMultiple
    <3>. QED
      BY <2>4, <3>2
  <2>8. ASSUME NEW j \in 1 .. k PROVE w.windows[j] = LastOf(Kept(p, CallAt(j)))
    <3>1. j \in Nat /\ j * SlideSize \in Nat /\ j * SlideSize <= k * SlideSize
      BY <1>0, <2>3, Multiples
    <3>2. CallAt(j) \in Nat /\ CallAt(j) <= n
      <4>. DEFINE a == j * SlideSize
      <4>1. a \in Nat /\ a <= w.slide
        BY <2>2, <2>3, <2>5, <3>1
      <4>2. CallAt(j) = WindowSize - 1 + a
        BY DEF CallAt
      <4>. HIDE DEF a
      <4>. QED
        BY <1>0, <2>2, <4>1, <4>2
    <3>3. Kept(p, CallAt(j)) = Kept(o, CallAt(j))
      BY <1>3, <3>2, KeptStays DEF p, n
    <3>. QED
      BY <2>2, <3>3
  <2>9. CASE called
    <3>1. /\ v.windows = Append(w.windows, u.buf) /\ ~v.firstTimeSend
          /\ v.slide = (k + 1) * SlideSize
      BY <2>4, <2>7, <2>9
    <3>2. /\ Len(v.windows) = k + 1 /\ v.windows[k + 1] = u.buf
          /\ \A j \in 1 .. k : v.windows[j] = w.windows[j]
      <4>. DEFINE x == w.windows
                  y == u.buf
                  z == v.windows
      <4>1. x \in Seq(Seq(Nat)) /\ y \in Seq(Nat) /\ k = Len(x) /\ z = Append(x, y)
        BY <2>3, <3>1 DEF k
      <4>. HIDE DEF x, y, z
      <4>2. /\ Len(z) = k + 1 /\ z[k + 1] = y
            /\ \A j \in 1 .. k : z[j] = x[j]
        BY <4>1, AppendFacts
      <4>. QED
        BY <4>2 DEF x, y, z
    <3>3. CallAt(k + 1) = n + 1
      BY <1>0, <2>2, <2>3, <2>4, <2>5, <2>7, <2>9 DEF CallAt
    <3>4. ASSUME NEW j \in 1 .. k + 1 PROVE v.windows[j] = LastOf(Kept(p, CallAt(j)))
      <4>1. CASE j \in 1 .. k
        BY <2>8, <3>2, <4>1
      <4>2. CASE j = k + 1
        BY <2>6, <3>2, <3>3, <4>2
      <4>3. j \in 1 .. k \/ j = k + 1
        BY <2>3
      <4>. QED
        BY <4>1, <4>2, <4>3
    <3>5. /\ (k + 1) * SlideSize <= v.slide /\ v.slide < ((k + 1) + 1) * SlideSize
          /\ v.slide = (n + 1) - WindowSize + 1
      <4>1. (k + 1) + 1 = k + 2
        BY <2>3
      <4>. QED
        BY <1>0, <2>2, <2>3, <2>4, <2>5, <3>1, <4>1
    <3>6. k + 1 # 0
      BY <2>3
    <3>7. v.count = WindowSize /\ v.buf = LastOf(Kept(p, n + 1))
      BY <2>4, <2>6
    <3>8. Sliding(v, p)
      BY <1>0, <3>1, <3>2, <3>4, <3>5, <3>6, <3>7 DEF Sliding
    <3>. QED
      BY <1>0, <1>3, <3>8 DEF Windowed, p
  <2>10. CASE ~called
    <3>1. /\ v.windows = w.windows /\ (v.firstTimeSend <=> k = 0)
          /\ v.slide = w.slide + 1 /\ Len(v.windows) = k
      BY <2>4, <2>10 DEF k
    <3>2. /\ k * SlideSize <= v.slide /\ v.slide < (k + 1) * SlideSize
          /\ v.slide = (n + 1) - WindowSize + 1
      BY <1>0, <2>2, <2>3, <2>4, <2>5, <2>7, <2>10, <3>1
    <3>3. v.count = WindowSize /\ v.buf = LastOf(Kept(p, n + 1))
      BY <2>4, <2>6
    <3>4. Sliding(v, p)
      BY <1>0, <2>8, <3>1, <3>2, <3>3 DEF Sliding
    <3>. QED
      BY <1>0, <1>3, <3>4 DEF Windowed, p
  <2>. QED
    BY <2>9, <2>10
<1>4. n + 1 < WindowSize \/ n + 1 = WindowSize \/ WindowSize <= n
  BY <1>0
<1>. QED
  BY <1>1, <1>2, <1>3, <1>4

\* The window is what these fields of the operator say.
SameWindow(w, v) ==
  /\ v.count = w.count /\ v.slide = w.slide /\ v.buf = w.buf
  /\ v.firstTimeSend = w.firstTimeSend /\ v.windows = w.windows

LEMMA SameWindowed ==
  ASSUME NEW w, NEW v, NEW o, Windowed(w, o), SameWindow(w, v)
  PROVE  Windowed(v, o)
BY DEF Windowed, Filling, Sliding, SameWindow

\* A step that leaves the window of SlidingWindowWithCount alone.
LEMMA WindowStays ==
  ASSUME RxInv, RxTypeOK', rx'.op = rx.op, rx'.phase = "off" => rx.phase = "off",
         observed' = observed,
         rx.op = "count" => /\ SameWindow(win, win') /\ win'.pc # "lock"
                            /\ win'.timer = win.timer
  PROVE  RxInv'
<1>1. CASE rx.op = "count"
  <2>1. Windowed(win', observed')
    BY <1>1, SameWindowed DEF RxInv
  <2>. QED
    BY <1>1, <2>1 DEF RxInv
<1>2. CASE rx.op # "count"
  BY <1>2 DEF RxInv
<1>. QED
  BY <1>1, <1>2

LEMMA OfferFacts ==
  ASSUME RxTypeOK
  PROVE  /\ None \in Item /\ Failure \in Item /\ Default \in Item
         /\ \A s \in Stages : offer[s] \in Item /\ Taken(s) \in [Stages -> Item]
         /\ \A s \in Stages, i \in Item, offers \in [Stages -> Item] :
              Send(s, i, offers) \in [Stages -> Item]
         /\ win.item \in Item /\ win.item.n \in Nat /\ offer["from"].n \in Nat
         /\ offer["from"] \in Item
<1>1. None \in Item /\ Failure \in Item /\ Default \in Item
  BY DEF None, Failure, Default, Item
<1>2. offer \in [Stages -> Item] /\ win.item \in Item /\ "from" \in Stages
  BY DEF RxTypeOK, WinType, Stages
<1>3. \A i \in Item : i.n \in Nat
  BY DEF Item
<1>4. \A s \in Stages, i \in Item, offers \in [Stages -> Item] :
        Send(s, i, offers) \in [Stages -> Item]
  BY DEF Send
<1>5. \A s \in Stages : Taken(s) \in [Stages -> Item]
  BY <1>1, <1>2 DEF Taken
<1>. QED
  BY <1>1, <1>2, <1>3, <1>4, <1>5

\* A step of the channels alone.
LEMMA ChannelStep ==
  ASSUME RxInv, raw' \subseteq Item, offer' \in [Stages -> Item],
         UNCHANGED <<rx, win, observed>>
  PROVE  RxInv'
<1>1. RxTypeOK'
  BY DEF RxInv, RxTypeOK
<1>2. SameWindow(win, win')
  BY DEF SameWindow
<1>. QED
  BY <1>1, <1>2, WindowStays DEF RxInv

LEMMA RxChannels ==
  ASSUME RxInv,
         \/ \E s \in Stages : GiveUp(s)
         \/ FromTake \/ FromEnd
         \/ Forward("stdout") \/ Forward("default")
         \/ WindowDrops
         \/ PipeTakes \/ PipeEnd \/ WriteResult
  PROVE  RxInv'
<1>0. /\ RxTypeOK /\ raw \subseteq Item /\ offer \in [Stages -> Item]
      /\ {"from", "op", "timer", "pipe"} \subseteq Stages
  BY DEF RxInv, RxTypeOK, Stages
<1>1. ASSUME NEW s \in Stages, GiveUp(s) PROVE RxInv'
  BY <1>0, <1>1, OfferFacts, ChannelStep DEF GiveUp
<1>2. CASE FromTake
  <2>1. PICK i \in raw : raw' = raw \ {i} /\ offer' = Send("from", i, offer)
    BY <1>2 DEF FromTake
  <2>2. offer' \in [Stages -> Item] /\ raw' \subseteq Item
    BY <1>0, <2>1, OfferFacts
  <2>. QED
    BY <1>2, <2>2, ChannelStep DEF FromTake
<1>3. CASE FromEnd \/ PipeEnd
  BY <1>0, <1>3, ChannelStep DEF FromEnd, PipeEnd
<1>4. CASE Forward("stdout") \/ Forward("default")
  <2>1. offer' = Send("op", offer["from"], Taken("from"))
    BY <1>4 DEF Forward
  <2>2. offer' \in [Stages -> Item]
    BY <1>0, <2>1, OfferFacts
  <2>. QED
    BY <1>0, <1>4, <2>2, ChannelStep DEF Forward
<1>5. CASE WindowDrops
  BY <1>0, <1>5, OfferFacts, ChannelStep DEF WindowDrops
<1>6. CASE PipeTakes
  <2>1. PICK s \in {"op", "timer"} :
          offer' = IF offer[s].kind = "bytes" THEN Send("pipe", offer[s], Taken(s))
                   ELSE Taken(s)
    BY <1>6 DEF PipeTakes
  <2>2. s \in Stages
    BY <1>0
  <2>3. offer' \in [Stages -> Item]
    BY <1>0, <2>1, <2>2, OfferFacts
  <2>. QED
    BY <1>0, <1>6, <2>3, ChannelStep DEF PipeTakes
<1>7. CASE WriteResult
  BY <1>0, <1>7, OfferFacts, ChannelStep DEF WriteResult
<1>. QED
  BY <1>1, <1>2, <1>3, <1>4, <1>5, <1>6, <1>7

\* A step of the program, which is not off.
LEMMA ProgramRuns ==
  ASSUME RxInv, rx' \in RxType, rx'.op = rx.op, rx'.phase # "off",
         raw' \subseteq Item, offer' \in [Stages -> Item], UNCHANGED <<win, observed>>
  PROVE  RxInv'
<1>1. RxTypeOK'
  BY DEF RxInv, RxTypeOK
<1>2. SameWindow(win, win')
  BY DEF SameWindow
<1>. QED
  BY <1>1, <1>2, WindowStays DEF RxInv

LEMMA RxExcept ==
  ASSUME NEW r \in RxType
  PROVE  /\ \A x \in {"exited", "crashed"} :
              LET v == [r EXCEPT !.phase = x] IN v \in RxType /\ v.op = r.op /\ v.phase = x
         /\ LET v == [r EXCEPT !.piped = TRUE]
            IN  v \in RxType /\ v.op = r.op /\ v.phase = r.phase
         /\ LET v == [r EXCEPT !.cancelled = TRUE]
            IN  v \in RxType /\ v.op = r.op /\ v.phase = r.phase
         /\ LET v == [r EXCEPT !.rawClosed = TRUE]
            IN  v \in RxType /\ v.op = r.op /\ v.phase = r.phase
<1>1. ASSUME NEW x \in {"exited", "crashed"}
      PROVE  LET v == [r EXCEPT !.phase = x] IN v \in RxType /\ v.op = r.op /\ v.phase = x
  BY DEF RxType
<1>2. LET v == [r EXCEPT !.piped = TRUE] IN v \in RxType /\ v.op = r.op /\ v.phase = r.phase
  BY DEF RxType
<1>3. LET v == [r EXCEPT !.cancelled = TRUE] IN v \in RxType /\ v.op = r.op /\ v.phase = r.phase
  BY DEF RxType
<1>4. LET v == [r EXCEPT !.rawClosed = TRUE] IN v \in RxType /\ v.op = r.op /\ v.phase = r.phase
  BY DEF RxType
<1>. QED
  BY <1>1, <1>2, <1>3, <1>4

LEMMA RxTicks ==
  ASSUME NEW r \in RxType
  PROVE  LET v == [r EXCEPT !.ticks = @ + 1]
         IN  v \in RxType /\ v.op = r.op /\ v.phase = r.phase
<1>. DEFINE t == r.ticks + 1
            v == [r EXCEPT !.ticks = t]
<1>1. t \in Nat
  BY DEF RxType
<1>. HIDE DEF t
<1>2. v \in RxType /\ v.op = r.op /\ v.phase = r.phase
  BY <1>1 DEF RxType
<1>. QED
  BY <1>2 DEF t

LEMMA RxFed ==
  ASSUME NEW r \in RxType, NEW kind \in {"bytes", "error", "other"}
  PROVE  LET v == [r EXCEPT !.fed = Append(@, kind)]
         IN  v \in RxType /\ v.op = r.op /\ v.phase = r.phase
<1>. DEFINE t == Append(r.fed, kind)
            v == [r EXCEPT !.fed = t]
<1>1. t \in Seq({"bytes", "error", "other"})
  BY DEF RxType
<1>. HIDE DEF t
<1>2. v \in RxType /\ v.op = r.op /\ v.phase = r.phase
  BY <1>1 DEF RxType
<1>. QED
  BY <1>2 DEF t

LEMMA RxProgram ==
  ASSUME RxInv,
         \/ Pipe \/ \E kind \in {"bytes", "error", "other"} : Feed(kind)
         \/ CancelContext \/ CloseChannel \/ DefaultTimeout \/ EndRx
  PROVE  RxInv'
<1>0. /\ RxTypeOK /\ rx \in RxType /\ raw \subseteq Item /\ offer \in [Stages -> Item]
      /\ "op" \in Stages
  BY DEF RxInv, RxTypeOK, Stages
<1>1. CASE Pipe
  <2>. DEFINE v == [rx EXCEPT !.piped = TRUE]
  <2>1. v \in RxType /\ v.op = rx.op /\ v.phase = rx.phase
    BY <1>0, RxExcept
  <2>2. rx' = v /\ rx.phase = "running" /\ UNCHANGED <<raw, offer, win, observed>>
    BY <1>1 DEF Pipe
  <2>. HIDE DEF v
  <2>. QED
    BY <1>0, <2>1, <2>2, ProgramRuns
<1>2. ASSUME NEW kind \in {"bytes", "error", "other"}, Feed(kind) PROVE RxInv'
  <2>1. rx.phase = "running" /\ UNCHANGED <<offer, win, observed>>
    BY <1>2 DEF Feed
  <2>2. CASE rx.piped
    <3>. DEFINE v == [rx EXCEPT !.fed = Append(@, kind)]
                i == [n |-> Len(rx.fed) + 1, kind |-> kind]
    <3>1. v \in RxType /\ v.op = rx.op /\ v.phase = rx.phase
      BY <1>0, RxFed
    <3>2. i \in Item
      <4>1. Len(rx.fed) + 1 \in Nat
        <5>1. rx.fed \in Seq({"bytes", "error", "other"})
          BY <1>0 DEF RxType
        <5>. QED
          BY <5>1
      <4>. QED
        BY <4>1 DEF Item
    <3>3. rx' = v /\ raw' = raw \union {i}
      BY <1>2, <2>2 DEF Feed
    <3>. HIDE DEF v, i
    <3>. QED
      BY <1>0, <2>1, <3>1, <3>2, <3>3, ProgramRuns
  <2>3. CASE ~rx.piped
    <3>. DEFINE v == [rx EXCEPT !.phase = "crashed"]
    <3>1. v \in RxType /\ v.op = rx.op /\ v.phase = "crashed"
      BY <1>0, RxExcept
    <3>2. rx' = v /\ raw' = raw
      BY <1>2, <2>3 DEF Feed
    <3>. HIDE DEF v
    <3>. QED
      BY <1>0, <2>1, <3>1, <3>2, ProgramRuns
  <2>. QED
    BY <2>2, <2>3
<1>3. CASE CancelContext
  <2>. DEFINE v == [rx EXCEPT !.cancelled = TRUE]
  <2>1. v \in RxType /\ v.op = rx.op /\ v.phase = rx.phase
    BY <1>0, RxExcept
  <2>2. rx' = v /\ rx.phase = "running" /\ UNCHANGED <<raw, offer, win, observed>>
    BY <1>3 DEF CancelContext, Running
  <2>. HIDE DEF v
  <2>. QED
    BY <1>0, <2>1, <2>2, ProgramRuns
<1>4. CASE CloseChannel
  <2>. DEFINE v == [rx EXCEPT !.rawClosed = TRUE]
  <2>1. v \in RxType /\ v.op = rx.op /\ v.phase = rx.phase
    BY <1>0, RxExcept
  <2>2. rx' = v /\ rx.phase = "running" /\ UNCHANGED <<raw, offer, win, observed>>
    BY <1>4 DEF CloseChannel, Running
  <2>. HIDE DEF v
  <2>. QED
    BY <1>0, <2>1, <2>2, ProgramRuns
<1>5. CASE DefaultTimeout
  <2>. DEFINE v == [rx EXCEPT !.ticks = @ + 1]
  <2>1. v \in RxType /\ v.op = rx.op /\ v.phase = rx.phase
    BY <1>0, RxTicks
  <2>2. /\ rx' = v /\ rx.phase = "running" /\ UNCHANGED <<raw, win, observed>>
        /\ offer' = Send("op", Default, offer)
    BY <1>5 DEF DefaultTimeout, OpLoop, Running
  <2>3. offer' \in [Stages -> Item]
    BY <1>0, <2>2, OfferFacts
  <2>. HIDE DEF v
  <2>. QED
    BY <1>0, <2>1, <2>2, <2>3, ProgramRuns
<1>6. CASE EndRx
  <2>. DEFINE v == [rx EXCEPT !.phase = "exited"]
  <2>1. v \in RxType /\ v.op = rx.op /\ v.phase = "exited"
    BY <1>0, RxExcept
  <2>2. rx' = v /\ UNCHANGED <<raw, offer, win, observed>>
    BY <1>6 DEF EndRx
  <2>. HIDE DEF v
  <2>. QED
    BY <1>0, <2>1, <2>2, ProgramRuns
<1>. QED
  BY <1>1, <1>2, <1>3, <1>4, <1>5, <1>6

LEMMA StartRxStep ==
  ASSUME RxInv, NEW runtime \in {"raw", "pipe"}, NEW op \in RxOperators,
         NEW own \in BOOLEAN, StartRx(runtime, op, own)
  PROVE  RxInv'
<1>. DEFINE v == [rx EXCEPT !.phase = "running", !.runtime = runtime, !.op = op,
                            !.own = own, !.piped = own]
<1>1. v \in RxType /\ v.op = op /\ v.phase = "running"
  BY DEF RxInv, RxTypeOK, RxType
<1>2. /\ rx' = v /\ rx.phase = "off"
      /\ UNCHANGED <<raw, offer, win, observed>>
  BY DEF StartRx
<1>. HIDE DEF v
<1>3. /\ rx.op = "count" /\ win'.pc # "lock" /\ win'.timer = "select"
      /\ Windowed(win', observed')
  BY <1>2 DEF RxInv
<1>4. RxTypeOK'
  BY <1>1, <1>2 DEF RxInv, RxTypeOK
<1>. QED
  BY <1>1, <1>2, <1>3, <1>4 DEF RxInv

\* A step of the operators other than SlidingWindowWithCount: with that one it
\* is not taken.
LEMMA OtherWindowStep ==
  ASSUME RxInv, rx.op # "count", win' \in WinType,
         rx' \in RxType, rx'.op = rx.op, rx'.phase # "off",
         offer' \in [Stages -> Item], UNCHANGED <<raw, observed>>
  PROVE  RxInv'
<1>1. RxTypeOK'
  BY DEF RxInv, RxTypeOK
<1>. QED
  BY <1>1 DEF RxInv

LEMMA OpEndStep ==
  ASSUME RxInv, OpEnd \/ CountFailed
  PROVE  RxInv'
<1>. DEFINE v == [win EXCEPT !.pc = "ended"]
<1>1. v \in WinType /\ SameWindow(win, v) /\ v.pc = "ended" /\ v.timer = win.timer
  BY DEF RxInv, RxTypeOK, WinType, SameWindow
<1>2. win' = v /\ UNCHANGED <<rx, raw, offer, observed>>
  BY DEF OpEnd, CountFailed
<1>. HIDE DEF v
<1>3. RxTypeOK'
  BY <1>1, <1>2 DEF RxInv, RxTypeOK
<1>. QED
  BY <1>1, <1>2, <1>3, WindowStays

LEMMA CountStep ==
  ASSUME RxInv, NEW ok \in BOOLEAN, SlidingWindowWithCount(ok)
  PROVE  RxInv'
<1>. DEFINE i == offer["from"].n
            u == Slide(win, i)
            called == u.count = WindowSize /\ u.slide % SlideSize = 0
            v == Handled(u, called, ok)
<1>0. /\ rx.op = "count" /\ RxTypeOK /\ win \in WinType /\ observed \in Seq(Nat)
      /\ Windowed(win, observed) /\ win.timer = "select"
      /\ {"from", "op"} \subseteq Stages
  BY DEF RxInv, RxTypeOK, SlidingWindowWithCount, OpTakes, Stages
<1>1. /\ win' = v /\ observed' = Append(observed, i)
      /\ offer' = Send("op", IF ok THEN offer["from"] ELSE Failure, Taken("from"))
      /\ UNCHANGED <<rx, raw>>
  BY DEF SlidingWindowWithCount
<1>2. i \in Nat /\ offer' \in [Stages -> Item]
  BY <1>0, <1>1, OfferFacts
<1>. HIDE DEF i
<1>3. SlideResult(win, i, u)
  BY <1>0, <1>2, WindowedFacts, SlideIs
<1>4. u \in WinType /\ u.timer = win.timer
  BY <1>3 DEF SlideResult
<1>. HIDE DEF u
<1>5. called \in BOOLEAN
  OBVIOUS
<1>6. called <=> u.count = WindowSize /\ u.slide % SlideSize = 0
  OBVIOUS
<1>. HIDE DEF called
<1>7. /\ v \in WinType
      /\ v.count = u.count /\ v.slide = u.slide /\ v.buf = u.buf
      /\ v.firstTimeSend <=> u.firstTimeSend /\ ~called
      /\ v.windows = IF called THEN Append(u.windows, u.buf) ELSE u.windows
      /\ v.timer = u.timer /\ v.pc # "lock"
  BY <1>4, <1>5, HandledIs
<1>. HIDE DEF v
<1>8. Windowed(v, Append(observed, i))
  BY <1>0, <1>2, <1>3, <1>4, <1>5, <1>6, <1>7, WindowStep
<1>9. observed' \in Seq(Nat)
  BY <1>0, <1>1, <1>2, AppendFacts
<1>10. RxTypeOK'
  BY <1>1, <1>2, <1>7, <1>9 DEF RxInv, RxTypeOK
<1>. QED
  BY <1>0, <1>1, <1>4, <1>7, <1>8, <1>10 DEF RxInv

LEMMA TimeStep ==
  ASSUME RxInv,
         \/ WindowTakes \/ WindowBuffers \/ TimerFires \/ TimerStops \/ TimerCancelled
         \/ \E keep \in 0 .. Len(win.buf), ok \in BOOLEAN : CheckBuffer(keep, ok)
         \/ CheckFailed
  PROVE  RxInv'
<1>0. /\ RxTypeOK /\ rx \in RxType /\ win \in WinType /\ offer \in [Stages -> Item]
      /\ {"from", "op", "timer"} \subseteq Stages
      /\ rx.op = "count" => win.pc # "lock" /\ win.timer = "select"
  BY DEF RxInv, RxTypeOK, Stages
<1>1. CASE WindowTakes
  <2>1. /\ rx.op # "count" /\ rx.phase = "running"
        /\ win' = [win EXCEPT !.pc = "lock", !.item = offer["from"]]
        /\ offer' = Taken("from") /\ UNCHANGED <<rx, raw, observed>>
    BY <1>1 DEF WindowTakes, OpTakes, OpLoop, Running
  <2>2. offer["from"] \in Item /\ offer' \in [Stages -> Item]
    BY <1>0, <2>1, OfferFacts
  <2>3. win' \in WinType
    BY <1>0, <2>1, <2>2 DEF WinType
  <2>. QED
    BY <1>0, <2>1, <2>2, <2>3, OtherWindowStep
<1>2. CASE WindowBuffers
  <2>1. /\ rx.op # "count" /\ rx.phase = "running"
        /\ win' = [win EXCEPT !.buf = Append(@, win.item.n), !.pc = "loop", !.item = None]
        /\ offer' = Send("op", win.item, offer) /\ UNCHANGED <<rx, raw, observed>>
    BY <1>0, <1>2 DEF WindowBuffers, Running
  <2>2. offer' \in [Stages -> Item] /\ win.item.n \in Nat /\ None \in Item
    BY <1>0, <2>1, OfferFacts
  <2>3. win' \in WinType
    <3>. DEFINE b == Append(win.buf, win.item.n)
    <3>1. b \in Seq(Nat)
      BY <1>0, <2>2 DEF WinType
    <3>2. win' = [win EXCEPT !.buf = b, !.pc = "loop", !.item = None]
      BY <2>1
    <3>. HIDE DEF b
    <3>. QED
      BY <1>0, <2>2, <3>1, <3>2 DEF WinType
  <2>. QED
    BY <1>0, <2>1, <2>2, <2>3, OtherWindowStep
<1>3. ASSUME NEW t \in {"select", "check", "last", "failing", "lastFailing", "ended"}
      PROVE  [win EXCEPT !.timer = t] \in WinType
  BY <1>0 DEF WinType
<1>4. CASE TimerFires
  <2>. DEFINE v == [rx EXCEPT !.ticks = @ + 1]
  <2>1. v \in RxType /\ v.op = rx.op /\ v.phase = rx.phase
    BY <1>0, RxTicks
  <2>2. /\ rx.op # "count" /\ rx.phase = "running" /\ rx' = v
        /\ win' = [win EXCEPT !.timer = "check"] /\ UNCHANGED <<raw, offer, observed>>
    BY <1>4 DEF TimerFires, Running
  <2>3. win' \in WinType
    BY <1>3, <2>2
  <2>. HIDE DEF v
  <2>. QED
    BY <1>0, <2>1, <2>2, <2>3, OtherWindowStep
<1>5. CASE TimerStops
  <2>1. /\ rx.op # "count" /\ rx.phase = "running"
        /\ win' = [win EXCEPT !.timer = "last"] /\ UNCHANGED <<rx, raw, offer, observed>>
    BY <1>5 DEF TimerStops, Running
  <2>2. win' \in WinType
    BY <1>3, <2>1
  <2>. QED
    BY <1>0, <2>1, <2>2, OtherWindowStep
<1>6. CASE TimerCancelled
  <2>. DEFINE v == [rx EXCEPT !.phase = "crashed"]
  <2>1. v \in RxType /\ v.op = rx.op /\ v.phase = "crashed"
    BY <1>0, RxExcept
  <2>2. /\ rx.op # "count" /\ rx.phase = "running" /\ (rx' = rx \/ rx' = v)
        /\ win' = [win EXCEPT !.timer = "ended"]
        /\ offer' = Taken("op") /\ UNCHANGED <<raw, observed>>
    BY <1>6 DEF TimerCancelled, Running
  <2>3. win' \in WinType
    BY <1>3, <2>2
  <2>4. offer' \in [Stages -> Item]
    BY <1>0, <2>2, OfferFacts
  <2>. HIDE DEF v
  <2>5. rx' \in RxType /\ rx'.op = rx.op /\ rx'.phase # "off"
    BY <1>0, <2>1, <2>2
  <2>. QED
    BY <2>2, <2>3, <2>4, <2>5, OtherWindowStep
<1>7. ASSUME NEW keep \in 0 .. Len(win.buf), NEW ok \in BOOLEAN, CheckBuffer(keep, ok)
      PROVE  RxInv'
  <2>. DEFINE n == Len(win.buf)
              buf == SubSeq(win.buf, n - keep + 1, n)
              last == win.timer = "last"
              t == CASE ok /\ ~last -> "select"
                     [] ok /\ last -> "ended"
                     [] ~ok /\ ~last -> "failing"
                     [] ~ok /\ last -> "lastFailing"
  <2>1. /\ rx.op # "count" /\ rx.phase = "running" /\ UNCHANGED <<rx, raw, observed>>
        /\ offer' = IF ok THEN offer ELSE Send("timer", Failure, offer)
    BY <1>0, <1>7 DEF CheckBuffer, Running
  <2>2. buf \in Seq(Nat)
    <3>1. win.buf \in Seq(Nat)
      BY <1>0 DEF WinType
    <3>2. n \in Nat /\ n - keep + 1 \in Nat \ {0}
      BY <3>1
    <3>3. n <= Len(win.buf)
      BY <3>2
    <3>. HIDE DEF n
    <3>. QED
      BY <3>1, <3>2, <3>3, SubSeqFacts
  <2>3. t \in {"select", "check", "last", "failing", "lastFailing", "ended"}
    OBVIOUS
  <2>4. win' = [win EXCEPT !.buf = buf, !.locked = ~ok, !.failed = @ \/ ~ok,
                           !.firstTimeSend = @ /\ ~ok, !.timer = t]
    BY <1>7 DEF CheckBuffer
  <2>. HIDE DEF buf, t
  <2>5. win' \in WinType
    BY <1>0, <2>2, <2>3, <2>4 DEF WinType
  <2>6. offer' \in [Stages -> Item]
    BY <1>0, <2>1, OfferFacts
  <2>. QED
    BY <1>0, <2>1, <2>5, <2>6, OtherWindowStep
<1>8. CASE CheckFailed
  <2>1. /\ rx.op # "count" /\ rx.phase = "running" /\ UNCHANGED <<rx, raw, offer, observed>>
        /\ \/ win' = [win EXCEPT !.timer = "select"]
           \/ win' = [win EXCEPT !.timer = "ended"]
    BY <1>0, <1>8 DEF CheckFailed, Running
  <2>2. win' \in WinType
    BY <1>3, <2>1
  <2>. QED
    BY <1>0, <2>1, <2>2, OtherWindowStep
<1>. QED
  BY <1>1, <1>2, <1>4, <1>5, <1>6, <1>7, <1>8

LEMMA RxInitHolds == Init => RxInv
<1>. SUFFICES ASSUME RxInit PROVE RxInv
  BY DEF Init
<1>1. None \in Item
  BY DEF None, Item
<1>2. /\ rx \in RxType /\ rx.op = "count"
  BY DEF RxInit, RxType, RxOperators
<1>3. win \in WinType
  BY <1>1 DEF RxInit, WinType
<1>4. RxTypeOK
  BY <1>1, <1>2, <1>3 DEF RxInit, RxTypeOK
<1>5. Windowed(win, observed)
  <2>1. Len(observed) = 0 /\ 0 < WindowSize
    BY RxAssumption DEF RxInit
  <2>2. Filling(win, observed)
    BY <2>1 DEF RxInit, Filling
  <2>. QED
    BY <2>1, <2>2 DEF Windowed
<1>6. win.pc = "loop" /\ win.timer = "select"
  BY DEF RxInit
<1>. QED
  BY <1>2, <1>4, <1>5, <1>6 DEF RxInv

LEMMA RxStepHolds ==
  ASSUME RxInv, [Next]_serverlessVars
  PROVE  RxInv'
<1>1. ASSUME UNCHANGED rxVars PROVE RxInv'
  BY <1>1, ChannelStep DEF rxVars, RxInv, RxTypeOK
<1>2. CASE StartChild
  <2>1. PICK envOk \in BOOLEAN, own \in BOOLEAN, op \in RxOperators, runtime \in {"raw", "pipe"} :
          RunChild(envOk, op, runtime, own)
    BY <1>2 DEF StartChild
  <2>2. UNCHANGED rxVars \/ StartRx(runtime, op, own)
    BY <2>1 DEF RunChild
  <2>. QED
    BY <1>1, <2>2, StartRxStep
<1>3. CASE RunRx
  <2>1. CASE RxSteps
    BY <2>1, RxChannels, OpEndStep, CountStep, TimeStep DEF RxSteps
  <2>2. CASE Pipe \/ (\E kind \in {"bytes", "error", "other"} : Feed(kind))
             \/ CancelContext \/ CloseChannel \/ DefaultTimeout
    BY <2>2, RxProgram
  <2>3. CASE (\E s \in Stages : GiveUp(s)) \/ TimerFires
    BY <2>3, RxChannels, TimeStep
  <2>. QED
    BY <1>3, <2>1, <2>2, <2>3 DEF RunRx
<1>4. CASE Create
  BY <1>1, <1>4 DEF Create, CreateUnsupported, CreateExec, CreateDeno,
     CreateWasm, CreateGolang, runtimes
<1>5. CASE Build \/ Run
  BY <1>1, <1>2, <1>5 DEF Build, BuildGolang, BuildNothing, Run,
     RunWasmServerless, RunDenoServerless, runtimes
<1>6. CASE WasmStep \/ DenoStep \/ RxStep
  BY <1>1, <1>3, <1>6 DEF WasmStep, DenoStep, RxStep
<1>7. CASE ChildExits \/ RunReturned
  BY <1>1, <1>7, RxProgram DEF ChildExits, RunReturned, runtimes
<1>8. ASSUME NEW command, NEW arg, NEW files, parseFileArg(command, arg, files)
      PROVE  RxInv'
  BY <1>1, <1>8 DEF parseFileArg, runtimes
<1>9. ASSUME NEW nameOk, NEW addrOk, Options(nameOk, addrOk) PROVE RxInv'
  BY <1>1, <1>9 DEF Options, runtimes
<1>10. CASE UNCHANGED serverlessVars
  BY <1>1, <1>10 DEF serverlessVars
<1>. QED
  BY <1>4, <1>5, <1>6, <1>7, <1>8, <1>9, <1>10 DEF Next

\* The buffer, the counters and the flag of SlidingWindowWithCount are a function
\* of the items it has taken, whatever the other stages of the stream do; the
\* other operators never touch them (rx/stream_operator.go).
THEOREM RxInvariant == Spec => []RxInv
<1>1. RxInv /\ [Next]_serverlessVars => RxInv'
  BY RxStepHolds
<1>. QED
  BY <1>1, RxInitHolds, PTL DEF Spec

\* For every size of the window and of the slide, and however the items, the
\* errors and the end of the context interleave with the other stages, the
\* handler of SlidingWindowWithCount is called with exactly the items the
\* reference says, and has been called exactly as often (SlidingWindowWithCount in
\* rx/stream_operator.go).
THEOREM WindowsAsReferred == Spec => []WindowsMatchReference
<1>1. RxInv => WindowsMatchReference
  <2>. SUFFICES ASSUME RxInv, rx.op = "count"
                PROVE  WindowsMatchReference
    BY DEF WindowsMatchReference
  <2>. DEFINE o == observed
              n == Len(o)
              k == Len(win.windows)
              calls == {j \in DOMAIN o : CallAt(j) <= n}
  <2>1. /\ o \in Seq(Nat) /\ n \in Nat /\ k \in Nat /\ DOMAIN o = 1 .. n
        /\ WindowSize \in Nat \ {0} /\ SlideSize \in Nat \ {0}
    BY RxAssumption DEF RxInv, RxTypeOK, WinType
  <2>2. calls = 1 .. k /\ \A j \in 1 .. k : win.windows[j] = LastOf(Kept(o, CallAt(j)))
    <3>0. Windowed(win, o)
      BY DEF RxInv
    <3>1. CASE n < WindowSize
      <4>1. win.windows = <<>> /\ k = 0
        BY <3>0, <3>1 DEF Windowed, Filling
      <4>2. ASSUME NEW j \in calls PROVE FALSE
        <5>1. j \in Nat /\ j >= 1 /\ CallAt(j) <= n
          BY <2>1, <4>2
        <5>. DEFINE a == j * SlideSize
        <5>2. a \in Nat /\ a >= 1
          BY <2>1, <5>1
        <5>3. CallAt(j) = WindowSize - 1 + a
          BY DEF CallAt
        <5>. HIDE DEF a, n
        <5>. QED
          BY <2>1, <3>1, <5>1, <5>2, <5>3
      <4>3. 1 .. k = {}
        BY <4>1
      <4>. QED
        BY <4>2, <4>3
    <3>2. CASE ~(n < WindowSize)
      <4>1. Sliding(win, o)
        BY <3>0, <3>2 DEF Windowed
      <4>2. /\ win.slide = n - WindowSize + 1
            /\ k * SlideSize <= win.slide /\ win.slide < (k + 1) * SlideSize
            /\ \A j \in 1 .. k : win.windows[j] = LastOf(Kept(o, CallAt(j)))
        BY <4>1 DEF Sliding
      <4>. HIDE DEF n, k, o
      <4>3. ASSUME NEW j \in 1 .. k PROVE j \in 1 .. n /\ CallAt(j) <= n
        <5>. DEFINE a == j * SlideSize
                    b == k * SlideSize
        <5>1. a \in Nat /\ b \in Nat /\ a <= b /\ j <= a
          BY <2>1, Multiples
        <5>2. CallAt(j) = WindowSize - 1 + a /\ b <= win.slide
          BY <4>2 DEF CallAt
        <5>. HIDE DEF a, b
        <5>. QED
          BY <2>1, <4>2, <5>1, <5>2
      <4>4. ASSUME NEW j \in 1 .. n, CallAt(j) <= n PROVE j \in 1 .. k
        <5>. DEFINE a == j * SlideSize
                    b == (k + 1) * SlideSize
        <5>1. j \in Nat /\ k + 1 \in Nat
          BY <2>1
        <5>2. a \in Nat /\ b \in Nat /\ (k + 1 <= j => b <= a)
          BY <2>1, <5>1, Multiples
        <5>3. CallAt(j) = WindowSize - 1 + a /\ win.slide < b
          BY <4>2 DEF CallAt
        <5>. HIDE DEF a, b
        <5>4. a < b
          BY <2>1, <4>2, <4>4, <5>2, <5>3
        <5>. QED
          BY <2>1, <5>2, <5>4
      <4>5. calls = 1 .. k
        BY <2>1, <4>3, <4>4
      <4>. QED
        BY <4>2, <4>5
    <3>. QED
      BY <3>1, <3>2
  <2>3. Cardinality(1 .. k) = k
    <3>1. 1 \in Int /\ k \in Int
      BY <2>1
    <3>2. Cardinality(1 .. k) = IF 1 > k THEN 0 ELSE k - 1 + 1
      BY <3>1, FS_Interval
    <3>. QED
      BY <2>1, <3>2
  <2>. QED
    BY <2>2, <2>3 DEF WindowsMatchReference
<1>. QED
  BY <1>1, RxInvariant, PTL

=============================================================================
