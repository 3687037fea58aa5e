-------------------------------- MODULE Deno --------------------------------
(***************************************************************************)
(* A stream function in JavaScript or TypeScript                           *)
(* (cli/serverless/deno/runtime.go).  run starts a deno process, which     *)
(* connects back to a unix socket and sends the tags it observes.  Every   *)
(* frame is then a conversation on that one connection: the handler writes *)
(* the tag, the length and the data of the frame, in three writes, and     *)
(* reads replies until one with tag 0 and length 0.  Handlers run          *)
(* concurrently and nothing locks the connection.  An error of anybody     *)
(* goes into the unbuffered channel errCh, from which run receives once.   *)
(*                                                                         *)
(* The connection is two sequences of fields.  A field is read whole; its  *)
(* place among the fields (tag, length, data) is not on the wire, so that  *)
(* a reader takes the next field for whatever it expects.                  *)
(***************************************************************************)
EXTENDS Naturals, Sequences, SequencesExt, FiniteSets

CONSTANTS
  DFrames,      \* the frames the zipper delivers to the function
  MaxReplies    \* bounds the replies of the deno program to one frame

VARIABLES
  deno,         \* run: the phase it is in
  proc,         \* the deno process
  program,      \* the deno program: the frame it answers and its replies so far
  toDeno,       \* fields written to the connection and not yet read by deno
  fromDeno,     \* fields deno wrote and no handler has read
  denoHandler,  \* the goroutine of every frame
  errCh,        \* the goroutines that are blocked sending an error
  overlapped,   \* were two handlers ever under way at the same time?
  replied,      \* the replies deno sent to each frame, and
  denoEmitted   \* what each frame's context has written, both recorded for
                \* as long as no handlers have overlapped

denoVars == <<deno, proc, program, toDeno, fromDeno, denoHandler, errCh,
              overlapped, replied, denoEmitted>>

\* A field of a reply: 0, or the frame and the number of the reply.
Zero == <<>>
Field(f, n) == <<f, n>>

DenoIdle == [pc |-> "idle", tag |-> Zero]

DenoInit ==
  /\ deno = "off"
  /\ proc = "none"
  /\ program = Zero
  /\ toDeno = <<>> /\ fromDeno = <<>>
  /\ denoHandler = [f \in DFrames |-> DenoIdle]
  /\ errCh = {}
  /\ overlapped = FALSE
  /\ replied = [f \in DFrames |-> <<>>]
  /\ denoEmitted = [f \in DFrames |-> <<>>]

wireVars == <<program, toDeno, fromDeno, denoHandler, overlapped, replied, denoEmitted>>

----------------------------------------------------------------------------
(* run                                                                     *)

\* The deno command is looked up, the socket's path is removed and listened
\* on, and the process is started.
StartDeno(found, listening) ==
  /\ deno = "off"
  /\ IF found /\ listening
       THEN deno' = "accepting" /\ proc' = "started"
       ELSE deno' = "returned" /\ UNCHANGED proc
  /\ UNCHANGED <<errCh, wireVars>>

\* The process connects to the socket.
DenoConnects ==
  /\ deno = "accepting" /\ proc = "started"
  /\ proc' = "connected"
  /\ UNCHANGED <<deno, errCh, wireVars>>

\* accept: the process has connected and sent the tags in time.
Accept ==
  /\ deno = "accepting" /\ proc = "connected"
  /\ deno' = "starting"
  /\ UNCHANGED <<proc, errCh, wireVars>>

\* One of the two deadlines passes, or the connection ends before the tags
\* have come: run returns, and leaves the process alone.
AcceptFails ==
  /\ deno = "accepting"
  /\ deno' = "returned"
  /\ UNCHANGED <<proc, errCh, wireVars>>

\* startSfn: Connect has no reconnect option, so it returns either way.
StartSfn(ok) ==
  /\ deno = "starting"
  /\ deno' = IF ok THEN "running" ELSE "returned"
  /\ UNCHANGED <<proc, errCh, wireVars>>

\* The zipper closes the connection of the stream function, or sends a Goaway
\* ("cut"): run goes on waiting for an error.
ZipperClosesDeno ==
  /\ deno \in {"running", "closing"}
  /\ deno' = IF deno = "running" THEN "cut" ELSE "hung"
  /\ UNCHANGED <<proc, errCh, wireVars>>

\* run receives the first error; the deferred sfn.Close comes first.  It is
\* Client.Close, which never returns once the zipper closed the connection.
ReceiveError ==
  /\ deno \in {"running", "cut"}
  /\ \E who \in errCh : errCh' = errCh \ {who}
  /\ deno' = IF deno = "running" THEN "closing" ELSE "hung"
  /\ UNCHANGED <<proc, wireVars>>

\* Close returns, the connection to the process is closed and run returns.
CloseDeno ==
  /\ deno = "closing"
  /\ deno' = "returned"
  /\ UNCHANGED <<proc, errCh, wireVars>>

\* Mutant: an error that is only delivered when run waits for it already.
ProcessExitsTries(clean) ==
  /\ proc \in {"started", "connected"}
  /\ proc' = IF clean THEN "exited" ELSE "failed"
  /\ errCh' = IF clean \/ deno # "running" THEN errCh ELSE errCh \cup {"process"}
  /\ UNCHANGED <<deno, wireVars>>

\* runDeno: only an error of the process is reported.
ProcessExits(clean) ==
  /\ proc \in {"started", "connected"}
  /\ proc' = IF clean THEN "exited" ELSE "failed"
  /\ errCh' = IF clean THEN errCh ELSE errCh \cup {"process"}
  /\ UNCHANGED <<deno, wireVars>>

----------------------------------------------------------------------------
(* The handler of a frame.                                                 *)

\* The handlers go on until the command ends, or the process does.
Serving == deno \in {"running", "cut", "closing", "hung"}
Broken == proc # "connected"

runVars == <<deno, proc, program, replied>>

Underway(f) == denoHandler[f].pc \notin {"idle", "done", "errch"}

DenoGoto(f, pc) == denoHandler' = [denoHandler EXCEPT ![f].pc = pc]
DenoHolds(f, pc, tag) == denoHandler' = [denoHandler EXCEPT ![f].pc = pc, ![f].tag = tag]

\* errCh <- err, then return: the sender waits until run receives.
SendError(f) ==
  /\ errCh' = errCh \cup {f}
  /\ DenoGoto(f, "errch")

DenoArrive(f) ==
  /\ deno \in {"running", "closing"} /\ denoHandler[f].pc = "idle"
  /\ DenoGoto(f, "tag")
  /\ overlapped' = (overlapped \/ \E g \in DFrames : Underway(g))
  /\ UNCHANGED <<runVars, toDeno, fromDeno, errCh, denoEmitted>>

\* One of the three writes.
WriteField(f, pc, next) ==
  /\ Serving /\ denoHandler[f].pc = pc
  /\ IF Broken
       THEN SendError(f) /\ UNCHANGED toDeno
       ELSE /\ toDeno' = Append(toDeno, f)
            /\ DenoGoto(f, next)
            /\ UNCHANGED errCh
  /\ UNCHANGED <<runVars, fromDeno, overlapped, denoEmitted>>

\* The next read of the handler: a field, or the end of a broken connection.
Read(f, pc, Then(_)) ==
  /\ Serving /\ denoHandler[f].pc = pc
  /\ \/ /\ fromDeno # <<>>
        /\ fromDeno' = Tail(fromDeno)
        /\ Then(Head(fromDeno))
        /\ UNCHANGED errCh
     \/ /\ fromDeno = <<>> /\ Broken
        /\ SendError(f)
        /\ UNCHANGED <<fromDeno, denoEmitted>>
  /\ UNCHANGED <<runVars, toDeno, overlapped>>

ReadTag(f) ==
  Read(f, "read", LAMBDA v :
    DenoHolds(f, "length", v) /\ UNCHANGED denoEmitted)

\* ctx.Write of a reply; whether it fails nobody asks.
ContextWrites(f, v) ==
  denoEmitted' = IF overlapped THEN denoEmitted ELSE [denoEmitted EXCEPT ![f] = Append(@, v)]

\* Tag 0 and length 0 end the conversation; a length of 0 has no data.
ReadLength(f) ==
  Read(f, "length", LAMBDA v :
    IF v = Zero
      THEN IF denoHandler[f].tag = Zero
             THEN DenoGoto(f, "done") /\ UNCHANGED denoEmitted
             ELSE /\ DenoGoto(f, "read")
                  /\ ContextWrites(f, denoHandler[f].tag)
      ELSE DenoHolds(f, "data", Zero) /\ UNCHANGED denoEmitted)

\* Mutant: a handler that takes one reply to a frame for granted.
ReadDataOnce(f) ==
  Read(f, "data", LAMBDA v :
    /\ DenoGoto(f, "done")
    /\ ContextWrites(f, v))

\* The data of a reply, which the frame's context writes.
ReadData(f) ==
  Read(f, "data", LAMBDA v :
    /\ DenoGoto(f, "read")
    /\ ContextWrites(f, v))

----------------------------------------------------------------------------
(* The deno program (external): it reads a frame, which is garbled when the *)
(* fields it finds are of different frames, and answers it with replies,    *)
(* some of them without data maybe, and the end of the conversation.        *)

ProgramReads ==
  /\ Serving /\ ~Broken
  /\ program = Zero /\ Len(toDeno) >= 3
  /\ toDeno' = SubSeq(toDeno, 4, Len(toDeno))
  /\ IF toDeno[2] = toDeno[1] /\ toDeno[3] = toDeno[1]
       THEN program' = Field(toDeno[1], 0) /\ UNCHANGED fromDeno
       ELSE fromDeno' = fromDeno \o <<Zero, Zero>> /\ UNCHANGED program
  /\ UNCHANGED <<deno, proc, denoHandler, errCh, overlapped, replied, denoEmitted>>

Reply(v, empty) == IF empty THEN <<v, Zero>> ELSE <<v, v, v>>

ProgramReplies(empty) ==
  /\ Serving /\ ~Broken
  /\ program # Zero /\ program[2] < MaxReplies
  /\ LET f == program[1]
         v == Field(f, program[2] + 1)
     IN  /\ program' = v
         /\ fromDeno' = fromDeno \o Reply(v, empty)
         /\ replied' = IF overlapped THEN replied ELSE [replied EXCEPT ![f] = Append(@, v)]
  /\ UNCHANGED <<deno, proc, toDeno, denoHandler, errCh, overlapped, denoEmitted>>

ProgramEnds ==
  /\ Serving /\ ~Broken
  /\ program # Zero
  /\ program' = Zero
  /\ fromDeno' = fromDeno \o <<Zero, Zero>>
  /\ UNCHANGED <<deno, proc, toDeno, denoHandler, errCh, overlapped, replied, denoEmitted>>

HandleDeno(f) ==
  \/ DenoArrive(f)
  \/ WriteField(f, "tag", "len") \/ WriteField(f, "len", "payload")
  \/ WriteField(f, "payload", "read")
  \/ ReadTag(f) \/ ReadLength(f) \/ ReadData(f)

RunDeno ==
  \/ DenoConnects \/ Accept \/ AcceptFails
  \/ \E ok \in BOOLEAN : StartSfn(ok) \/ ProcessExits(ok)
  \/ ReceiveError \/ ZipperClosesDeno \/ CloseDeno
  \/ ProgramReads \/ ProgramEnds \/ \E empty \in BOOLEAN : ProgramReplies(empty)
  \/ \E f \in DFrames : HandleDeno(f)

----------------------------------------------------------------------------
(* Properties.                                                             *)

\* As long as frames come one at a time, the context of a frame writes the
\* replies of the deno program to that frame, in order: it never writes any
\* other, and has written them all when the handler is done.  (Handlers that
\* overlap share the connection without a lock, and may take each other's
\* replies: that is the hazard at runtime.go:107.)
RepliesAreAttributed ==
  ~overlapped =>
    \A f \in DFrames :
      /\ IsPrefix(denoEmitted[f], replied[f])
      /\ denoHandler[f].pc = "done" => denoEmitted[f] = replied[f]
=============================================================================
