----------------------------- MODULE Serverless -----------------------------
(***************************************************************************)
(* The commands yomo run, yomo dev and yomo build (cli/): they find the    *)
(* file of the stream function, choose the serverless driver by its        *)
(* extension (cli/serverless/serverless.go), and initialise, build and run *)
(* it.  The driver of .go files generates and compiles a program           *)
(* (cli/serverless/golang) and runs it as a child process, as the driver   *)
(* of compiled files does (cli/serverless/exec); WebAssembly and           *)
(* JavaScript run under the command itself.  What a function does while it *)
(* runs is in Wasm, Deno and, for a Go program that uses rx, Rx.           *)
(*                                                                         *)
(* A file is its name, and the name stands for the extension.  Reading,    *)
(* parsing, rendering and compiling are outcomes.  Executable() is true of *)
(* every driver, so the refusal of the others is not reachable.            *)
(***************************************************************************)
EXTENDS Wasm, Deno, Rx

CONSTANTS
  Commands,   \* the commands that are given
  Files,      \* the sets of files there may be in the directory
  Args        \* the files a command may be given, "" for none

VARIABLE
  cli         \* the command

serverlessVars == <<cli, wasmVars, denoVars, rxVars>>

runtimes == <<wasmVars, denoVars, rxVars>>

Init ==
  /\ cli = [pc |-> "start", building |-> FALSE, file |-> "", exists |-> FALSE,
            wasi |-> FALSE, isRx |-> FALSE, tempDir |-> FALSE, exit |-> 0]
  /\ WasmInit /\ DenoInit /\ RxInit

----------------------------------------------------------------------------
(* Register and Create.                                                    *)

drivers == [go |-> {"app.go"}, exec |-> {"sfn.yomo"}, wasm |-> {"sfn.wasm"},
            deno |-> {"app.ts"}]

Driver(d) == cli.file \in drivers[d]

Unsupported == \A d \in DOMAIN drivers : ~Driver(d)

\* A command that fails prints the error; build, and every failure of the
\* Go compiler, end with exit code 127.
Ends(pc, code) == cli' = [cli EXCEPT !.pc = pc, !.exit = code]

Fail == Ends("ended", IF cli.building THEN 127 ELSE 0)

At(pc) == cli.pc = pc

----------------------------------------------------------------------------
(* The commands up to Create.                                              *)

\* The files a command looks for when it is given none, in order.
DefaultFiles(command) ==
  IF command = "build" THEN <<"app.go">> ELSE <<"sfn.yomo", "sfn.wasm", "app.go">>

\* parseFileArg without an argument: the first default that exists, or the
\* last of them, whose absence it does not report.
FirstExisting(defaults, files) ==
  LET found == {i \in DOMAIN defaults : defaults[i] \in files}
  IN  IF found = {} THEN defaults[Len(defaults)]
      ELSE defaults[CHOOSE i \in found : \A j \in found : i <= j]

parseFileArg(command, arg, files) ==
  /\ At("start")
  /\ LET file == IF arg = "" THEN FirstExisting(DefaultFiles(command), files) ELSE arg
         found == [cli EXCEPT !.pc = IF command = "run" THEN "options" ELSE "create",
                              !.building = command = "build", !.file = file,
                              !.exists = file \in files]
     IN  cli' = IF arg # "" /\ arg \notin files
                  THEN [found EXCEPT !.pc = "ended",
                                     !.exit = IF command = "build" THEN 127 ELSE 0]
                  ELSE found
  /\ UNCHANGED runtimes

\* loadOptionsFromViper, and the checks yomo run makes of the name and of the
\* address of the zipper (parseZipperAddr).  yomo dev sets both itself, and
\* yomo build needs neither.
Options(nameOk, addrOk) ==
  /\ At("options")
  /\ IF nameOk /\ addrOk THEN cli' = [cli EXCEPT !.pc = "create"] ELSE Fail
  /\ UNCHANGED runtimes

CreateUnsupported ==
  /\ At("create") /\ Unsupported
  /\ Fail
  /\ UNCHANGED runtimes

\* ExecServerless.Init.
CreateExec ==
  /\ At("create") /\ Driver("exec")
  /\ IF cli.exists THEN cli' = [cli EXCEPT !.pc = "created"] ELSE Fail
  /\ UNCHANGED runtimes

\* denoServerless.Init.
CreateDeno ==
  /\ At("create") /\ Driver("deno")
  /\ cli' = [cli EXCEPT !.pc = "created"]
  /\ UNCHANGED runtimes

CreateWasm(type, g) ==
  /\ At("create") /\ Driver("wasm")
  /\ InitWasm(type, g)
  /\ IF wasm'.phase = "failed" THEN Fail ELSE cli' = [cli EXCEPT !.pc = "created"]
  /\ UNCHANGED <<denoVars, rxVars>>

\* GolangServerless.Init.  It fails before it has a temporary directory when
\* the source is missing, empty or cannot be parsed, or asks for both wasi
\* and rx; and after, when the imports, the file or go mod init fail: then
\* the directory stays.
CreateGolang(wasi, isRx, outcome) ==
  /\ At("create") /\ Driver("go")
  /\ LET usable == cli.exists /\ outcome # "badSource" /\ ~(wasi /\ isRx)
     IN  CASE ~usable -> Fail
           [] usable /\ outcome = "tempFails" ->
                cli' = [cli EXCEPT !.pc = "ended", !.tempDir = TRUE,
                                   !.exit = IF cli.building THEN 127 ELSE 0]
           [] OTHER -> cli' = [cli EXCEPT !.pc = "created", !.wasi = wasi,
                                          !.isRx = isRx, !.tempDir = TRUE]
  /\ UNCHANGED runtimes

----------------------------------------------------------------------------
(* Build and Run.                                                          *)

\* yomo build builds whatever was created; the others only Go.
BuildGolang(outcome) ==
  /\ At("created") /\ Driver("go")
  /\ cli' = [cli EXCEPT
       !.tempDir = outcome = "modFails",  \* the removal is deferred only later
       !.pc = IF outcome = "built" /\ ~cli.building THEN "built" ELSE "ended",
       !.exit = IF outcome = "built" THEN 0 ELSE 127]
  /\ UNCHANGED runtimes

\* The Build of the other drivers is empty.
BuildNothing ==
  /\ At("created") /\ ~Driver("go")
  /\ cli' = [cli EXCEPT !.pc = IF cli.building THEN "ended" ELSE "built"]
  /\ UNCHANGED runtimes

\* GolangServerless.Run and ExecServerless.Run: the child process starts,
\* unless the .env file cannot be loaded or the file is not executable, as
\* one that was compiled for wasi is not.
RunChild(envOk, op, runtime, own) ==
  /\ At("built") /\ (Driver("go") \/ Driver("exec"))
  /\ IF ~envOk \/ cli.wasi
       THEN Ends("ended", 0) /\ UNCHANGED rxVars
       ELSE /\ cli' = [cli EXCEPT !.pc = "child"]
            /\ IF cli.isRx THEN StartRx(runtime, op, own) ELSE UNCHANGED rxVars
  /\ UNCHANGED <<wasmVars, denoVars>>

StartChild ==
  \E envOk, own \in BOOLEAN, op \in RxOperators, runtime \in {"raw", "pipe"} :
    RunChild(envOk, op, runtime, own)

RunWasmServerless ==
  /\ At("built") /\ Driver("wasm")
  /\ cli' = [cli EXCEPT !.pc = "running"]
  /\ UNCHANGED runtimes

RunDenoServerless(found, listening) ==
  /\ At("built") /\ Driver("deno")
  /\ StartDeno(found, listening)
  /\ cli' = [cli EXCEPT !.pc = "running"]
  /\ UNCHANGED <<wasmVars, rxVars>>

\* The steps of the function that runs.
WasmStep == At("running") /\ RunWasm /\ UNCHANGED <<cli, denoVars, rxVars>>
DenoStep == At("running") /\ RunDeno /\ UNCHANGED <<cli, wasmVars, rxVars>>
RxStep   == At("child")   /\ RunRx   /\ UNCHANGED <<cli, wasmVars, denoVars>>

\* The child process ends of itself, or is killed.
ChildExits ==
  /\ At("child")
  /\ cli' = [cli EXCEPT !.pc = "childExited"]
  /\ IF cli.isRx THEN EndRx ELSE UNCHANGED rxVars
  /\ UNCHANGED <<wasmVars, denoVars>>

\* Run returns, with an error or without: the command ends.
RunReturned ==
  /\ \/ At("childExited")
     \/ At("child") /\ rx.phase = "crashed"
     \/ At("running") /\ wasm.phase \in {"failed", "returned", "crashed"}
     \/ At("running") /\ deno = "returned"
  /\ Ends("ended", 0)
  /\ UNCHANGED runtimes

Create ==
  \/ CreateUnsupported \/ CreateExec \/ CreateDeno
  \/ \E type \in {"", "wasmtime"}, g \in Guests : CreateWasm(type, g)
  \/ \E wasi, isRx \in BOOLEAN, outcome \in {"badSource", "tempFails", "ok"} :
       CreateGolang(wasi, isRx, outcome)

Build ==
  \/ BuildNothing
  \/ \E outcome \in {"modFails", "compileFails", "built"} : BuildGolang(outcome)

Run ==
  \/ StartChild \/ RunWasmServerless
  \/ \E found, listening \in BOOLEAN : RunDenoServerless(found, listening)

Next ==
  \/ \E command \in Commands, files \in Files, arg \in Args :
       parseFileArg(command, arg, files)
  \/ \E nameOk, addrOk \in BOOLEAN : Options(nameOk, addrOk)
  \/ Create \/ Build \/ Run
  \/ WasmStep \/ DenoStep \/ RxStep
  \/ ChildExits \/ RunReturned

Spec == Init /\ [][Next]_serverlessVars

----------------------------------------------------------------------------
(* Fairness.  The goroutines of the command and of its runtimes take their  *)
(* steps; the deadlines of accept pass; Connect, which does not retry,      *)
(* returns.  The handler of a guest is assumed to return, and what it waits *)
(* for, an HTTP request, has a timeout.  Nothing is assumed of the peers:   *)
(* the deno process, the frames, the timers, the end of a client or child.  *)

GuestFinishes(f) ==
  \/ LockServerless(f) \/ RunHandler(f) \/ HandlerReturns(f)
  \/ HTTPDone(f, "error") \/ GetBytesAgain(f) \/ GuestReturns(f)

WasmFinishes ==
  /\ At("running")
  /\ \/ RunInit \/ ConnectWasm(FALSE) \/ CloseRuntime \/ CloseSfn
     \/ \E f \in WFrames : GuestFinishes(f)
  /\ UNCHANGED <<cli, denoVars, rxVars>>

DenoFinishes ==
  /\ At("running")
  /\ AcceptFails \/ StartSfn(FALSE) \/ ReceiveError \/ CloseDeno
  /\ UNCHANGED <<cli, wasmVars, rxVars>>

RxFinishes == At("child") /\ RxSteps /\ UNCHANGED <<cli, wasmVars, denoVars>>

Fairness ==
  /\ WF_serverlessVars(RunReturned)
  /\ WF_serverlessVars(WasmFinishes)
  /\ WF_serverlessVars(DenoFinishes)
  /\ WF_serverlessVars(RxFinishes)

FairSpec == Spec /\ Fairness

----------------------------------------------------------------------------
(* Properties.                                                             *)

\* What the command runs is over: the client of the stream function has been
\* stopped or has failed to connect, the deno process has died, or the child
\* process is gone.
FunctionOver ==
  \/ At("running") /\ wasm.phase \in {"failed", "crashed", "closing", "closed", "returned"}
  \/ At("running") /\ proc = "failed"
  \/ At("childExited")
  \/ At("child") /\ rx.phase = "crashed"

\* Run is in the deferred sfn.Close, after the zipper closed the connection:
\* Client.Close waits for channels that nobody closes (CloseReturns of Client).
HangsInClose ==
  /\ At("running")
  /\ \/ wasm.phase = "closed" /\ wasm.client = "remote"
     \/ deno = "hung"

\* A command does not outlive its function: whatever it was doing, and
\* whichever handlers hold the mutexes or wait to report an error, Run gets
\* through its deferred calls and returns, or stops in the one of them that
\* closes a stream function the zipper has closed already, and nowhere else.
\* (A deno process that exits with code 0 reports nothing, and the command then
\* waits until a frame fails: runtime.go:82.)
CommandEnds == FunctionOver ~> At("ended") \/ HangsInClose
=============================================================================
