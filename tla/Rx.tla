--------------------------------- MODULE Rx ---------------------------------
(***************************************************************************)
(* A stream function that handles its frames as an rx stream (rx/).  The   *)
(* runtime (rx/runtime.go) feeds the data of the frames into a channel;    *)
(* Factory.FromChannel makes a stream of it, the user's handler applies an *)
(* operator (rx/stream_operator.go), PipeBackToZipper makes data frames of *)
(* the results, and the runtime writes them.  Each of these stages is a    *)
(* goroutine, between channels without a buffer:                           *)
(*                                                                         *)
(*   raw --> FromChannel --> operator --> PipeBackToZipper --> runtime     *)
(*                             + timer of SlidingWindowWithTime            *)
(*                                                                         *)
(* offer[s] is what stage s is blocked sending, closed the channels that   *)
(* are closed.  The runtime is RawByteHandler, which the generated main    *)
(* program uses: a goroutine per frame that feeds its data and then writes *)
(* every result it can get, or PipeHandler: one goroutine that does both.  *)
(* The generated program connects before it calls Pipe, which sets the     *)
(* stream.  Streams that a program builds on a channel and a context of    *)
(* its own may also end: the channel is closed or the context cancelled.   *)
(*                                                                         *)
(* An item is a number, in the order of arrival, and its kind: "bytes", an *)
(* "error", or some "other" value.  Time is left out: a timer may fire     *)
(* whenever it is waited for, and what is still inside the time window is  *)
(* any suffix of the buffer.                                               *)
(***************************************************************************)
EXTENDS Naturals, Sequences, SequencesExt, FiniteSets

CONSTANTS
  MaxItems,    \* bounds, for each operator, the items fed to the stream
  MaxSenders,  \* bounds the handlers that wait to feed theirs at a time
  WindowSize,  \* windowSize of SlidingWindowWithCount
  SlideSize,   \* slideSize of SlidingWindowWithCount
  MaxTicks     \* bounds the firings of the timers

ASSUME RxAssumption ==
  /\ {MaxSenders, MaxTicks} \subseteq Nat
  /\ WindowSize \in Nat \ {0} /\ SlideSize \in Nat \ {0}

VARIABLES
  rx,          \* the program: its runtime, operator, input, and how that ends
  raw,         \* the items whose senders are blocked on rawBytesChan
  offer,       \* what every stage is sending
  closed,      \* the stages whose channel is closed
  win,         \* the state of the window operators
  observed,    \* the items SlidingWindowWithCount has taken, in order
  rxOut        \* the items written to the zipper

rxVars == <<rx, raw, offer, closed, win, observed, rxOut>>

RxOperators == {"count", "time", "default", "stdout"}
Stages == {"from", "op", "timer", "pipe"}
None == [n |-> 0, kind |-> "none"]
Failure == [n |-> 0, kind |-> "error"]
Default == [n |-> 0, kind |-> "bytes"]

RxInit ==
  /\ rx = [phase |-> "off", runtime |-> "raw", op |-> "count", own |-> FALSE, fed |-> <<>>,
           ticks |-> 0, piped |-> FALSE, cancelled |-> FALSE, rawClosed |-> FALSE]
  /\ raw = {}
  /\ offer = [s \in Stages |-> None]
  /\ closed = {}
  /\ win = [count |-> 0, slide |-> 0, buf |-> <<>>, firstTimeSend |-> TRUE,
            windows |-> <<>>, locked |-> FALSE, pc |-> "loop", item |-> None,
            timer |-> "select", failed |-> FALSE]
  /\ observed = <<>>
  /\ rxOut = {}

----------------------------------------------------------------------------
(* The program.                                                            *)

\* A program with the given runtime and operator has connected; one that
\* builds the stream itself (own) has a context and a channel that may end.
StartRx(runtime, op, own) ==
  /\ rx.phase = "off"
  /\ own => runtime = "raw"
  /\ rx' = [rx EXCEPT !.phase = "running", !.runtime = runtime, !.op = op,
                      !.own = own, !.piped = own]
  /\ UNCHANGED <<raw, offer, closed, win, observed, rxOut>>

\* Runtime.Pipe.
Pipe ==
  /\ rx.phase = "running" /\ ~rx.piped
  /\ rx' = [rx EXCEPT !.piped = TRUE]
  /\ UNCHANGED <<raw, offer, closed, win, observed, rxOut>>

\* The program ends.
EndRx ==
  /\ rx.phase = "running"
  /\ rx' = [rx EXCEPT !.phase = "exited"]
  /\ UNCHANGED <<raw, offer, closed, win, observed, rxOut>>

Running == rx.phase = "running" /\ rx.piped

\* A frame arrives.  RawByteHandler sends its data in a goroutine of its own
\* and then observes the stream, which is nil before Pipe.  PipeHandler takes
\* the next frame when it is not itself blocked.  At most one item of a stream
\* is not bytes: a bound.
Feed(kind) ==
  /\ rx.phase = "running"
  /\ Len(rx.fed) < MaxItems[rx.op] /\ ~rx.rawClosed
  /\ Cardinality(raw) < MaxSenders
  /\ kind # "bytes" => rx.own /\ \A i \in DOMAIN rx.fed : rx.fed[i] = "bytes"
  /\ rx.runtime = "pipe" => raw = {} /\ rx.piped
  /\ IF rx.piped
       THEN /\ rx' = [rx EXCEPT !.fed = Append(@, kind)]
            /\ raw' = raw \cup {[n |-> Len(rx.fed) + 1, kind |-> kind]}
       ELSE /\ rx' = [rx EXCEPT !.phase = "crashed"]
            /\ UNCHANGED raw
  /\ UNCHANGED <<offer, closed, win, observed, rxOut>>

CancelContext ==
  /\ Running /\ rx.own /\ ~rx.cancelled
  /\ rx' = [rx EXCEPT !.cancelled = TRUE]
  /\ UNCHANGED <<raw, offer, closed, win, observed, rxOut>>

CloseChannel ==
  /\ Running /\ rx.own /\ ~rx.rawClosed /\ raw = {}
  /\ rx' = [rx EXCEPT !.rawClosed = TRUE]
  /\ UNCHANGED <<raw, offer, closed, win, observed, rxOut>>

----------------------------------------------------------------------------
(* Sending: Item.SendContext of rxgo, for which a cancelled context comes   *)
(* before the channel.                                                     *)

Free(s) == offer[s] = None

\* A receiver takes what the stage s is sending.
Taken(s) == [offer EXCEPT ![s] = None]

\* Stage s begins to send i; the rest of the offers is as given.
Send(s, i, offers) == IF rx.cancelled THEN offers ELSE [offers EXCEPT ![s] = i]

\* A send that is under way gives up when the context is cancelled.
GiveUp(s) ==
  /\ Running /\ rx.cancelled
  /\ ~Free(s)
  /\ offer' = Taken(s)
  /\ UNCHANGED <<rx, raw, closed, win, observed, rxOut>>

----------------------------------------------------------------------------
(* FromChannel.                                                            *)

FromTake ==
  /\ Running /\ Free("from") /\ "from" \notin closed
  /\ \E i \in raw : raw' = raw \ {i} /\ offer' = Send("from", i, offer)
  /\ UNCHANGED <<rx, closed, win, observed, rxOut>>

FromEnd ==
  /\ Running /\ Free("from") /\ "from" \notin closed
  /\ rx.cancelled \/ rx.rawClosed
  /\ closed' = closed \cup {"from"}
  /\ UNCHANGED <<rx, raw, offer, win, observed, rxOut>>

----------------------------------------------------------------------------
(* The operators.  The main loop of each takes an item in state "loop".    *)

OpLoop == Running /\ win.pc = "loop" /\ Free("op")

OpTakes(op) == OpLoop /\ rx.op = op /\ ~Free("from")

OpEnded == rx.cancelled \/ ("from" \in closed /\ Free("from"))

\* StdOut and DefaultIfEmptyWithTime hand every item on.
Forward(op) ==
  /\ OpTakes(op)
  /\ offer' = Send("op", offer["from"], Taken("from"))
  /\ UNCHANGED <<rx, raw, closed, win, observed, rxOut>>

\* Nothing came for the duration: the default value is sent.
DefaultTimeout ==
  /\ OpLoop /\ rx.op = "default"
  /\ rx.ticks < MaxTicks
  /\ rx' = [rx EXCEPT !.ticks = @ + 1]
  /\ offer' = Send("op", Default, offer)
  /\ UNCHANGED <<raw, closed, win, observed, rxOut>>

\* The end of the main loop: the channel is closed, except by
\* SlidingWindowWithTime, which closes stop and leaves that to its timer.
OpEnd ==
  /\ OpLoop /\ OpEnded
  /\ win' = [win EXCEPT !.pc = "ended"]
  /\ closed' = IF rx.op = "time" THEN closed ELSE closed \cup {"op"}
  /\ UNCHANGED <<rx, raw, offer, observed, rxOut>>

\* Both window operators drop errors.
WindowDrops ==
  /\ OpLoop /\ rx.op \in {"count", "time"}
  /\ offer["from"].kind = "error"
  /\ offer' = Taken("from")
  /\ UNCHANGED <<rx, raw, closed, win, observed, rxOut>>

\* Mutant: a window that slides as soon as it is full, while it is filled too.
SlideAtOnce(w, i) ==
  LET filled == IF w.count < WindowSize
                  THEN [w EXCEPT !.buf = Append(@, i), !.count = @ + 1] ELSE w
  IN  IF filled.count < WindowSize THEN filled
      ELSE [filled EXCEPT !.slide = @ + 1, !.buf = Append(Tail(@), i)]

\* SlidingWindowWithCount: the buffer is filled, then slides, but only from
\* the first call of the handler on.
Slide(w, i) ==
  LET filled == IF w.count < WindowSize
                  THEN [w EXCEPT !.buf = Append(@, i), !.count = @ + 1] ELSE w
  IN  IF filled.count < WindowSize THEN filled
      ELSE [filled EXCEPT !.slide = @ + 1,
              !.buf = IF w.firstTimeSend THEN @ ELSE Append(Tail(@), i)]

\* The handler has been called with the buffer, or not.
Handled(w, called, ok) ==
  [w EXCEPT !.windows = IF called THEN Append(@, w.buf) ELSE @,
            !.firstTimeSend = @ /\ ~called,
            !.failed = ~ok,
            !.pc = IF ok THEN "loop" ELSE "failing"]

\* The handler has a window; when it fails, its error is sent and the
\* operator ends, otherwise the item goes on.
SlidingWindowWithCount(ok) ==
  /\ OpTakes("count") /\ offer["from"].kind # "error"
  /\ LET i == offer["from"]
         w == Slide(win, i.n)
         called == w.count = WindowSize /\ w.slide % SlideSize = 0
     IN  /\ ~called => ok
         /\ win' = Handled(w, called, ok)
         /\ offer' = Send("op", IF ok THEN i ELSE Failure, Taken("from"))
         /\ observed' = Append(observed, i.n)
  /\ UNCHANGED <<rx, raw, closed, rxOut>>

\* The error has been taken: the deferred close.
CountFailed ==
  /\ Running /\ win.pc = "failing" /\ Free("op")
  /\ win' = [win EXCEPT !.pc = "ended"]
  /\ closed' = closed \cup {"op"}
  /\ UNCHANGED <<rx, raw, offer, observed, rxOut>>

\* SlidingWindowWithTime: the main loop buffers an item under the mutex ...
WindowTakes ==
  /\ OpTakes("time") /\ offer["from"].kind # "error"
  /\ win' = [win EXCEPT !.pc = "lock", !.item = offer["from"]]
  /\ offer' = Taken("from")
  /\ UNCHANGED <<rx, raw, closed, observed, rxOut>>

\* ... and sends it on.
WindowBuffers ==
  /\ Running /\ win.pc = "lock" /\ ~win.locked
  /\ win' = [win EXCEPT !.buf = Append(@, win.item.n), !.pc = "loop", !.item = None]
  /\ offer' = Send("op", win.item, offer)
  /\ UNCHANGED <<rx, raw, closed, observed, rxOut>>

\* checkBuffer, in the goroutine of the timers: it is called by a timer, and
\* once more when the main loop has ended (stop).
TimerFires ==
  /\ Running /\ rx.op = "time" /\ win.timer = "select"
  /\ rx.ticks < MaxTicks
  /\ rx' = [rx EXCEPT !.ticks = @ + 1]
  /\ win' = [win EXCEPT !.timer = "check"]
  /\ UNCHANGED <<raw, offer, closed, observed, rxOut>>

TimerStops ==
  /\ Running /\ rx.op = "time" /\ win.timer = "select"
  /\ win.pc = "ended"
  /\ win' = [win EXCEPT !.timer = "last"]
  /\ UNCHANGED <<rx, raw, offer, closed, observed, rxOut>>

TimerCloses == closed' = closed \cup {"op"}

\* A cancelled context ends the goroutine, which closes the channel.  The
\* main loop may be about to send on it, having seen the context before: it
\* then gives up, or ends the program.
TimerCancelled ==
  /\ Running /\ rx.op = "time" /\ win.timer = "select"
  /\ rx.cancelled
  /\ win' = [win EXCEPT !.timer = "ended"]
  /\ TimerCloses
  /\ \/ UNCHANGED rx
     \/ ~Free("op") /\ rx' = [rx EXCEPT !.phase = "crashed"]
  /\ offer' = Taken("op")
  /\ UNCHANGED <<raw, observed, rxOut>>

\* Mutant: a checkBuffer that leaves the mutex locked when there is nothing to hand
\* to the handler.
CheckBufferEmptyLocked(keep, ok) ==
  /\ Running /\ win.timer \in {"check", "last"} /\ ~win.locked
  /\ keep = 0 => ok
  /\ win' = [win EXCEPT !.locked = ~ok \/ keep = 0, !.failed = @ \/ ~ok, !.timer = "select"]
  /\ UNCHANGED <<rx, raw, offer, closed, observed, rxOut>>

\* The items of the window are handed to the handler.  When it fails, its
\* error is sent and checkBuffer returns without unlocking the mutex.
CheckBuffer(keep, ok) ==
  /\ Running /\ win.timer \in {"check", "last"} /\ ~win.locked
  /\ keep = 0 => ok
  /\ LET buf == SubSeq(win.buf, Len(win.buf) - keep + 1, Len(win.buf))
         last == win.timer = "last"
     IN  /\ win' = [win EXCEPT !.buf = buf, !.locked = ~ok, !.failed = @ \/ ~ok,
                      !.firstTimeSend = @ /\ ~ok,
                      !.timer = CASE ok /\ ~last -> "select"
                                  [] ok /\ last -> "ended"
                                  [] ~ok /\ ~last -> "failing"
                                  [] ~ok /\ last -> "lastFailing"]
         /\ offer' = IF ok THEN offer ELSE Send("timer", Failure, offer)
         /\ IF ok /\ last THEN TimerCloses ELSE UNCHANGED closed
  /\ UNCHANGED <<rx, raw, observed, rxOut>>

\* The error has been taken; the next checkBuffer waits for the mutex.
CheckFailed ==
  /\ Running /\ Free("timer")
  /\ \/ /\ win.timer = "failing"
        /\ win' = [win EXCEPT !.timer = "select"]
        /\ UNCHANGED closed
     \/ /\ win.timer = "lastFailing"
        /\ win' = [win EXCEPT !.timer = "ended"]
        /\ TimerCloses
  /\ UNCHANGED <<rx, raw, offer, observed, rxOut>>

----------------------------------------------------------------------------
(* PipeBackToZipper, and the runtime that writes its results.              *)

\* Errors, and what is not bytes, go no further.
PipeTakes ==
  /\ Running /\ Free("pipe") /\ "pipe" \notin closed
  /\ \E s \in {"op", "timer"} :
       /\ ~Free(s)
       /\ offer' = IF offer[s].kind = "bytes" THEN Send("pipe", offer[s], Taken(s))
                   ELSE Taken(s)
  /\ UNCHANGED <<rx, raw, closed, win, observed, rxOut>>

PipeEnd ==
  /\ Running /\ Free("pipe") /\ "pipe" \notin closed
  /\ rx.cancelled \/ ("op" \in closed /\ Free("op") /\ Free("timer"))
  /\ closed' = closed \cup {"pipe"}
  /\ UNCHANGED <<rx, raw, offer, win, observed, rxOut>>

\* A RawByteHandler, of whichever frame, writes the result through its own
\* context; PipeHandler puts it out when it is not blocked feeding.
WriteResult ==
  /\ Running /\ ~Free("pipe")
  /\ rx.fed # <<>>
  /\ rx.runtime = "pipe" => raw = {}
  /\ offer' = Taken("pipe")
  /\ rxOut' = rxOut \cup {offer["pipe"].n}
  /\ UNCHANGED <<rx, raw, closed, win, observed>>

RxSteps ==
  \/ FromTake \/ FromEnd
  \/ Forward("stdout") \/ Forward("default")
  \/ OpEnd \/ WindowDrops
  \/ \E ok \in BOOLEAN : SlidingWindowWithCount(ok)
  \/ CountFailed
  \/ WindowTakes \/ WindowBuffers
  \/ TimerStops \/ TimerCancelled
  \/ \E keep \in 0..Len(win.buf), ok \in BOOLEAN : CheckBuffer(keep, ok)
  \/ CheckFailed
  \/ PipeTakes \/ PipeEnd \/ WriteResult

RunRx ==
  \/ Pipe
  \/ \E kind \in {"bytes", "error", "other"} : Feed(kind)
  \/ CancelContext \/ CloseChannel
  \/ \E s \in Stages : GiveUp(s)
  \/ DefaultTimeout \/ TimerFires
  \/ RxSteps

----------------------------------------------------------------------------
(* Properties.                                                             *)

\* The item that brings the k-th call of the handler, the items that are in the
\* buffer at some time when n items of s have come, and the latest of them.
CallAt(k) == WindowSize - 1 + k * SlideSize
Kept(s, n) == SubSeq(s, 1, WindowSize) \o SubSeq(s, WindowSize + SlideSize, n)
LastOf(s) == SubSeq(s, Len(s) - WindowSize + 1, Len(s))

\* The windows SlidingWindowWithCount hands to its handler, as a function of
\* the items it has taken: the k-th comes with item WindowSize - 1 + k *
\* SlideSize, and holds the last WindowSize items of those before it; the
\* items that come between the filling of the first window and its handling,
\* SlideSize - 1 of them, are in no window at all.
WindowsMatchReference ==
  rx.op = "count" =>
    LET calls == {k \in DOMAIN observed : CallAt(k) <= Len(observed)}
    IN  /\ Len(win.windows) = Cardinality(calls)
        /\ \A k \in calls : win.windows[k] = LastOf(Kept(observed, CallAt(k)))

\* Every stage of the pipe is full, and PipeHandler, which would empty it, is
\* itself blocked feeding it (runtime.go:61).
PipeHandlerStuck ==
  /\ rx.runtime = "pipe" /\ raw # {}
  /\ \A s \in {"from", "op", "pipe"} : ~Free(s)

\* All the bytes that were fed have come out at the other end.
Drained == \A n \in DOMAIN rx.fed : rx.fed[n] = "bytes" => n \in rxOut

\* Again and again the stream is drained, whatever the timers, the windows and
\* the other items do: nothing that was fed stays inside for ever, unless the
\* user's handler has failed, the context was cancelled, the program ended (as
\* it does when a frame comes before the stream is set up), or PipeHandler has
\* filled the pipe up.
BytesPassThrough ==
  []<>(Drained \/ win.failed \/ rx.cancelled \/ rx.phase # "running" \/ PipeHandlerStuck)
=============================================================================
