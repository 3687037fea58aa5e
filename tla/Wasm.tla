-------------------------------- MODULE Wasm --------------------------------
(***************************************************************************)
(* A stream function compiled to WebAssembly: wasmServerless               *)
(* (cli/serverless/wasm/serverless.go) runs the guest in a wazero runtime  *)
(* (wazero.go), whose host functions answer the calls the guest SDK        *)
(* (serverless/guest) makes.  The stream function delivers every frame in  *)
(* a goroutine of its own; two mutexes make the handlers take turns:       *)
(* wasmServerless.mu around RunHandler and wazeroRuntime.mu inside it,     *)
(* which Close takes as well.                                              *)
(*                                                                         *)
(* A guest is a record: does its module load and instantiate, which of the *)
(* yomo functions it exports, how each of them ends when it is called      *)
(* ("ok"; "exit0" and "exit1", an os.Exit; "trap"), what yomo_init         *)
(* returns, the tags it observes and the target it wants.  Data is the     *)
(* frame it comes from and a length: what happens to it is a matter of     *)
(* whose it is and whether all of it is there.                             *)
(*                                                                         *)
(* The wasmtime and wasmedge runtimes are left out of the build unless a   *)
(* tag asks for them, and then do not implement GetWantedTarget of the     *)
(* Runtime interface, so NewRuntime is modelled as the default build has   *)
(* it: it refuses them.                                                    *)
(***************************************************************************)
EXTENDS Naturals, FiniteSets

CONSTANTS
  WFrames,        \* the frames the zipper delivers to the function
  WLen,           \* [WFrames -> Nat]: the length of the data of each
  ReadBufSize,    \* the size of the buffer the guest SDK reads into
  Guests,         \* the guest modules that may be run
  GuestTarget,    \* a target a guest writes to
  MaxGuestCalls,  \* bounds the host calls a guest makes for one frame
  Nothing         \* the empty value: nil, no holder, no context

ASSUME WasmAssumption ==
  /\ ReadBufSize \in Nat \ {0}
  /\ WLen \in [WFrames -> Nat]
  /\ Nothing \notin WFrames

VARIABLES
  wasm,           \* the runtime and the stream function that owns it
  smu,            \* the handler that holds wasmServerless.mu
  rmu,            \* the handler, or "close", that holds wazeroRuntime.mu
  serverlessCtx,  \* wazeroRuntime.serverlessCtx
  readBuf,        \* guest.ReadBuf, in the memory of the guest
  handler,        \* the goroutine of every frame
  emitted         \* what went out through a serverless.Context

wasmVars == <<wasm, smu, rmu, serverlessCtx, readBuf, handler, emitted>>

Data(f) == [of |-> f, len |-> WLen[f]]

Idle == [pc |-> "idle", tag |-> Nothing, data |-> Nothing, size |-> 0, calls |-> 0]

WasmInit ==
  /\ wasm = [phase |-> "off", guest |-> Nothing, observed |-> {},
             wanted |-> Nothing, exited |-> FALSE, closed |-> FALSE,
             client |-> "none"]
  /\ smu = Nothing /\ rmu = Nothing
  /\ serverlessCtx = Nothing
  /\ readBuf = [of |-> Nothing, len |-> 0]
  /\ handler = [f \in WFrames |-> Idle]
  /\ emitted = {}

----------------------------------------------------------------------------
(* Create: NewRuntime, and Init of the runtime with the guest's module.    *)

\* "" is the default of the --runtime flag.
NewRuntime(type) == type \in {"", "wazero"}

\* A call of an exported function fails when the guest traps, or exits with
\* a code other than 0.
Fails(g, fn) == g.ends[fn] \in {"exit1", "trap"}

\* yomo_observe_datatags and yomo_wanted_target run on the guest's side, and
\* call observeDataTag for each tag, and wantedTarget unless it is "".
observeDataTag(g) == g.tags
wantedTarget(g) == g.target

\* wazeroRuntime.Init: everything it needs of the module, in order.
Loads(g) ==
  /\ g.loads
  /\ "observe" \in g.exports /\ ~Fails(g, "observe")
  /\ "wanted" \in g.exports /\ ~Fails(g, "wanted")

\* wasmServerless.Init.
InitWasm(type, g) ==
  /\ wasm.phase = "off"
  /\ IF NewRuntime(type) /\ Loads(g)
       THEN wasm' = [wasm EXCEPT !.phase = "inited", !.guest = g,
                                 !.observed = observeDataTag(g),
                                 !.wanted = wantedTarget(g)]
       ELSE wasm' = [wasm EXCEPT !.phase = "failed"]
  /\ UNCHANGED <<smu, rmu, serverlessCtx, readBuf, handler, emitted>>

----------------------------------------------------------------------------
(* wasmServerless.Run                                                      *)

\* RunInit: a guest that exits with code 0 passes the test of the error, but
\* has no result to look at.
RunInit ==
  /\ wasm.phase = "inited"
  /\ wasm' = [wasm EXCEPT !.phase =
       CASE "init" \notin wasm.guest.exports -> "connecting"
         [] Fails(wasm.guest, "init") -> "failed"
         [] wasm.guest.ends.init = "exit0" -> "crashed"
         [] OTHER -> IF wasm.guest.initCode # 0 THEN "failed" ELSE "connecting"]
  /\ UNCHANGED <<smu, rmu, serverlessCtx, readBuf, handler, emitted>>

\* sfn.Connect: the runtime of a function that does not connect stays open.
ConnectWasm(ok) ==
  /\ wasm.phase = "connecting"
  /\ wasm' = IF ok THEN [wasm EXCEPT !.phase = "running", !.client = "open"]
             ELSE [wasm EXCEPT !.phase = "failed"]
  /\ UNCHANGED <<smu, rmu, serverlessCtx, readBuf, handler, emitted>>

\* From Connect to the end of Run.
Alive == wasm.phase \in {"running", "closing", "closed"}

\* The zipper closes the connection, or sends a Goaway: the loop of the client
\* ends, or waits for itself, and closes neither done nor reConnect.
ZipperClosesWasm ==
  /\ Alive /\ wasm.client = "open"
  /\ wasm' = [wasm EXCEPT !.client = "remote"]
  /\ UNCHANGED <<smu, rmu, serverlessCtx, readBuf, handler, emitted>>

\* Wait returns on a signal, which also cancels the client's context, or when
\* the zipper refused a reconnection ("done"; after a "remote" close only the
\* signal is left).  The deferred calls run, the runtime's Close before the
\* stream function's.
WaitReturns(why) ==
  /\ wasm.phase = "running"
  /\ why = "done" => wasm.client = "open"
  /\ wasm' = IF why = "done" THEN [wasm EXCEPT !.phase = "closing", !.client = "done"]
             ELSE [wasm EXCEPT !.phase = "closing"]
  /\ UNCHANGED <<smu, rmu, serverlessCtx, readBuf, handler, emitted>>

\* wazeroRuntime.Close.
CloseRuntime ==
  /\ wasm.phase = "closing"
  /\ rmu = Nothing
  /\ wasm' = [wasm EXCEPT !.phase = "closed", !.closed = TRUE]
  /\ UNCHANGED <<smu, rmu, serverlessCtx, readBuf, handler, emitted>>

\* sfn.Close is Client.Close: it returns when done or reConnect is closed,
\* which nobody does any more once the zipper has closed the connection.
CloseSfn ==
  /\ wasm.phase = "closed"
  /\ wasm.client # "remote"
  /\ wasm' = [wasm EXCEPT !.phase = "returned"]
  /\ UNCHANGED <<smu, rmu, serverlessCtx, readBuf, handler, emitted>>

----------------------------------------------------------------------------
(* The handler of a frame.                                                 *)

Goto(f, pc) == handler' = [handler EXCEPT ![f].pc = pc]

\* The client reads a frame and starts its goroutine (sfn.onDataFrame), which
\* it may do until it sees the cancelled context.
Arrive(f) ==
  /\ Alive /\ wasm.client = "open"
  /\ handler[f].pc = "idle"
  /\ Goto(f, "arrived")
  /\ UNCHANGED <<wasm, smu, rmu, serverlessCtx, readBuf, emitted>>

LockServerless(f) ==
  /\ Alive /\ handler[f].pc = "arrived"
  /\ smu = Nothing
  /\ smu' = f
  /\ Goto(f, "locked")
  /\ UNCHANGED <<wasm, rmu, serverlessCtx, readBuf, emitted>>

\* Mutant: a RunHandler that leaves the locking to wasmServerless.
RunHandlerUnlocked(f) ==
  /\ Alive /\ handler[f].pc = "locked"
  /\ serverlessCtx' = f
  /\ Goto(f, IF wasm.closed \/ wasm.exited THEN "return" ELSE "guest")
  /\ UNCHANGED <<wasm, smu, rmu, readBuf, emitted>>

\* RunHandler up to the call of the guest.  A guest that was closed or that
\* exited answers at once with the error it ended with; one that exports no
\* yomo_handler is a nil function, whose call ends the program.
RunHandler(f) ==
  /\ Alive /\ handler[f].pc = "locked"
  /\ rmu = Nothing
  /\ rmu' = f
  /\ serverlessCtx' = f
  /\ Goto(f, IF wasm.closed \/ wasm.exited THEN "return" ELSE "guest")
  /\ wasm' = IF "handler" \in wasm.guest.exports THEN wasm
             ELSE [wasm EXCEPT !.phase = "crashed"]
  /\ UNCHANGED <<smu, readBuf, emitted>>

\* Both deferred Unlocks, once RunHandler has returned.
HandlerReturns(f) ==
  /\ Alive /\ handler[f].pc = "return"
  /\ rmu' = Nothing /\ smu' = Nothing
  /\ Goto(f, "done")
  /\ UNCHANGED <<wasm, serverlessCtx, readBuf, emitted>>

----------------------------------------------------------------------------
(* The guest, and the host functions it calls.                             *)

InGuest(f, pc) == Alive /\ handler[f].pc = pc

MayCall(f) == InGuest(f, "guest") /\ handler[f].calls < MaxGuestCalls

Called(f) == [handler EXCEPT ![f].pc = "guest", ![f].calls = @ + 1]

\* GuestContext.Tag; a tag is named by the frame that carries it.
contextTag == serverlessCtx

GuestTag(f) ==
  /\ MayCall(f)
  /\ handler' = [Called(f) EXCEPT ![f].tag = contextTag]
  /\ UNCHANGED <<wasm, smu, rmu, serverlessCtx, readBuf, emitted>>

\* What contextData puts into a buffer of the given size, and answers.
contextData(limit) ==
  LET data == Data(serverlessCtx)
  IN  [fits |-> data.len <= limit /\ data.len # 0, size |-> data.len, data |-> data]

\* GuestContext.Data: GetBytes reads into ReadBuf first, and copies what the
\* host says it wrote there.
GetBytes(f) ==
  /\ MayCall(f)
  /\ LET r == contextData(ReadBufSize)
     IN  /\ readBuf' = IF r.fits THEN r.data ELSE readBuf
         /\ handler' =
              IF r.size > ReadBufSize
                THEN [handler EXCEPT ![f].pc = "grow", ![f].size = r.size]
                ELSE [Called(f) EXCEPT ![f].data =
                        IF r.size = 0 THEN Nothing ELSE [readBuf' EXCEPT !.len = r.size]]
  /\ UNCHANGED <<wasm, smu, rmu, serverlessCtx, emitted>>

\* Data that does not fit is asked for a second time, with a buffer of the
\* size the host answered.
GetBytesAgain(f) ==
  /\ InGuest(f, "grow")
  /\ LET r == contextData(handler[f].size)
     IN  handler' = [Called(f) EXCEPT ![f].data =
                       IF r.fits THEN r.data ELSE [of |-> Nothing, len |-> handler[f].size]]
  /\ UNCHANGED <<wasm, smu, rmu, serverlessCtx, readBuf, emitted>>

\* What the guest makes of the data it has read.
Result(f) == [from |-> handler[f].data, by |-> f]

\* The host functions write and writeWithTarget hand a copy of a piece of the
\* guest's memory to the context; the copied target is handed over as the
\* data too (wazero.go:275).  The context's Write may fail (code 2),
\* and does when the client has ended.
write(f, data, target, ok) ==
  /\ ok => wasm.client = "open"
  /\ emitted' = IF ok THEN emitted \cup {[by |-> f, ctx |-> serverlessCtx,
                                          data |-> data, target |-> target]}
                ELSE emitted

writeWithTarget(f, data, target, ok) == write(f, target, target, ok)

\* GuestContext.Write of a result, or of nil, which stays with the guest.
\* The address of the first byte of an empty slice is a panic of the guest.
GuestWrite(f, what, ok) ==
  /\ MayCall(f)
  /\ CASE what = "nil" -> /\ handler' = Called(f)
                          /\ UNCHANGED emitted
       [] what = "empty" -> /\ Goto(f, "return")
                            /\ UNCHANGED emitted
       [] what = "result" -> /\ handler' = Called(f)
                             /\ write(f, Result(f), Nothing, ok)
  /\ UNCHANGED <<wasm, smu, rmu, serverlessCtx, readBuf>>

\* GuestContext.WriteWithTarget: an empty target is a plain Write.  (Nil and
\* empty data end as in Write.)
GuestWriteWithTarget(f, target, ok) ==
  /\ MayCall(f)
  /\ handler' = Called(f)
  /\ IF target = Nothing THEN write(f, Result(f), Nothing, ok)
                         ELSE writeWithTarget(f, Result(f), target, ok)
  /\ UNCHANGED <<wasm, smu, rmu, serverlessCtx, readBuf>>

\* GuestHTTP.send: the host does the request with both mutexes held.
GuestHTTPSend(f) ==
  /\ MayCall(f)
  /\ Goto(f, "http")
  /\ UNCHANGED <<wasm, smu, rmu, serverlessCtx, readBuf, emitted>>

\* wasmhttp.Do ended within its timeout, with a response or an error, and
\* the host allocated memory of the guest for it; a guest without yomo_alloc
\* is a nil function.
HTTPDone(f, outcome) ==
  /\ InGuest(f, "http")
  /\ handler' = Called(f)
  /\ wasm' = IF outcome = "response" /\ "alloc" \notin wasm.guest.exports
               THEN [wasm EXCEPT !.phase = "crashed"] ELSE wasm
  /\ UNCHANGED <<smu, rmu, serverlessCtx, readBuf, emitted>>

\* The guest's handler returns; or it traps, as the operations the SDK does
\* not implement do: RunHandler logs the error.
GuestReturns(f) ==
  /\ InGuest(f, "guest")
  /\ Goto(f, "return")
  /\ UNCHANGED <<wasm, smu, rmu, serverlessCtx, readBuf, emitted>>

\* os.Exit in the guest closes its module for every later frame.
GuestExits(f) ==
  /\ InGuest(f, "guest")
  /\ wasm.guest.ends.handler \in {"exit0", "exit1"}
  /\ wasm' = [wasm EXCEPT !.exited = TRUE]
  /\ Goto(f, "return")
  /\ UNCHANGED <<smu, rmu, serverlessCtx, readBuf, emitted>>

HandleWasm(f) ==
  \/ Arrive(f) \/ LockServerless(f) \/ RunHandler(f) \/ HandlerReturns(f)
  \/ GuestTag(f) \/ GetBytes(f) \/ GetBytesAgain(f)
  \/ \E ok \in BOOLEAN :
       \/ \E what \in {"nil", "empty", "result"} : GuestWrite(f, what, ok)
       \/ \E target \in {Nothing, GuestTarget} : GuestWriteWithTarget(f, target, ok)
  \/ GuestHTTPSend(f)
  \/ \E outcome \in {"response", "error"} : HTTPDone(f, outcome)
  \/ GuestReturns(f) \/ GuestExits(f)

RunWasm ==
  \/ RunInit
  \/ \E ok \in BOOLEAN : ConnectWasm(ok)
  \/ \E why \in {"signal", "done"} : WaitReturns(why)
  \/ ZipperClosesWasm \/ CloseRuntime \/ CloseSfn
  \/ \E f \in WFrames : HandleWasm(f)

----------------------------------------------------------------------------
(* Properties.                                                             *)

\* However many frames arrive at once, a guest works on its own: what it has
\* read is the tag and all of the data of its frame, or nothing, what it writes goes out
\* through the context of its frame and is what it made of that data (what
\* is written with a target is left to WriteWithTargetKeepsData), and the
\* runtime is never closed under it.
GuestSeesItsFrame ==
  /\ \A f \in WFrames :
       /\ handler[f].tag \in {Nothing, f}
       /\ handler[f].data \in {Nothing, Data(f)}
       /\ handler[f].pc \in {"guest", "grow", "http"} => ~wasm.closed
  /\ \A e \in emitted :
       /\ e.ctx = e.by
       /\ e.target = Nothing => /\ e.data.by = e.by
                                /\ e.data.from \in {Nothing, Data(e.by)}

\* serverless/context.go:16: "WriteWithTarget writes data to sfn instance with
\* specified target": what goes out is the data the guest wrote.
WriteWithTargetKeepsData ==
  \A e \in emitted : e.target # Nothing => e.data # e.target
=============================================================================
