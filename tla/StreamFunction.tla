-------------------------- MODULE StreamFunction --------------------------
(***************************************************************************)
(* A stream function (sfn.go) with its handler contexts                    *)
(* (core/serverless) and a source (source.go) that feeds it.               *)
(*                                                                         *)
(* The function runs an async handler (a goroutine per frame), a pipe      *)
(* (the user's function between two unbuffered channels, and a forwarder)  *)
(* and cron jobs.  All of them write through the client's loop, which is   *)
(* also the goroutine that reads frames and calls onDataFrame.  Of the     *)
(* client (module Client) the loop, its context and the end the zipper may *)
(* put to both are kept; of the zipper the rule by which it routes a frame *)
(* to this function.                                                       *)
(***************************************************************************)
EXTENDS Naturals, Sequences, SequencesExt

CONSTANTS
    Targets, NoTarget,      \* target names, and the empty string
    Configurations,         \* how the setters have configured the function
    MaxFrames,              \* bound on the frames of the source, for a pipe ...
    MaxCalls,               \* ... and for a handler, with the runs of the cron job
    MaxOps                  \* bound on the calls a handler makes on its context

VARIABLES
    conf,       \* what the setters have stored
    phase,      \* of Connect and Close
    cron,       \* is the cron scheduler running?
    issued,     \* ids that id.New has issued
    inbox,      \* frames for the function that its loop has not read
    loop,       \* what serveConn is at
    held,       \* the payload onDataFrame is sending into pIn
    ctxs,       \* the contexts created so far, async and cron
    pfn,        \* the user's pipe function: what it is at and with which item
    fwd,        \* the forwarder: what it is at and with which item
    wire        \* the frames written to the zipper, in order

vars == <<conf, phase, cron, issued, inbox, loop, held, ctxs, pfn, fwd, wire>>
pipeVars == <<pfn, fwd>>

None == [at |-> "off", item |-> 0]
Step(at, item) == [at |-> at, item |-> item]
AnyTarget == Targets \union {NoTarget}

\* The metadata of a frame, of which the transaction id and the target are kept.
NewMetadata(target) == [tid |-> issued + 1, target |-> target]

Bound == IF conf.fn \/ conf.cron THEN MaxCalls ELSE MaxFrames

\* Payloads: a function call, other bytes.
Payloads == {"call", "raw"}

Init ==
    /\ conf \in Configurations
    /\ phase = "new"
    /\ cron = FALSE
    /\ issued = 0
    /\ inbox = <<>>
    /\ loop = "off"
    /\ held = 0
    /\ ctxs = <<>>
    /\ pfn = None
    /\ fwd = None
    /\ wire = <<>>

-----------------------------------------------------------------------------
(***************************************************************************)
(* The source.                                                             *)
(***************************************************************************)

\* A frame reaches the function when the router finds it among the observers of
\* the tag and, for a targeted frame, of the target.
Deliver(target, payload) ==
    inbox' = IF phase \in {"connected", "closing"} /\ loop # "cut" /\ conf.tags
                  /\ (target = NoTarget \/ target = conf.want)
               THEN Append(inbox, [md |-> NewMetadata(target), payload |-> payload])
               ELSE inbox

\* Source.WriteWithTarget, with an empty target Source.Write: every frame has
\* metadata of its own.
SourceWrite(target, payload) ==
    /\ issued < Bound
    /\ payload = "raw" \/ conf.fn
    /\ issued' = issued + 1
    /\ Deliver(target, payload)
    /\ UNCHANGED <<conf, phase, cron, loop, held, ctxs, pfn, fwd, wire>>

-----------------------------------------------------------------------------
(***************************************************************************)
(* Connect and Close.                                                      *)
(***************************************************************************)

\* Connect starts the cron scheduler before it looks at the tags, and the
\* goroutines of the pipe before the client connects.
Connect ==
    /\ phase = "new"
    /\ cron' = conf.cron
    /\ IF ~conf.tags /\ ~conf.cron
         THEN phase' = "failed" /\ UNCHANGED pipeVars
         ELSE /\ phase' = "connecting"
              /\ pfn' = IF conf.pfn THEN Step("recv", 0) ELSE None
              /\ fwd' = IF conf.pfn THEN Step("recv", 0) ELSE None
    /\ UNCHANGED <<conf, issued, inbox, loop, held, ctxs, wire>>

\* client.Connect returns; when it fails, cron and pipe are left running.
ClientConnected(ok) ==
    /\ phase = "connecting"
    /\ phase' = IF ok THEN "connected" ELSE "failed"
    /\ loop' = IF ok THEN "serve" ELSE "off"
    /\ UNCHANGED <<conf, cron, issued, inbox, held, ctxs, pfn, fwd, wire>>

\* Close stops the scheduler, but no running job, and cancels the context ...
Close ==
    /\ phase = "connected"
    /\ cron' = FALSE
    /\ phase' = "closing"
    /\ UNCHANGED <<conf, issued, inbox, loop, held, ctxs, pfn, fwd, wire>>

\* The loop, back in its select, finds that the zipper has closed the connection
\* or sent a Goaway: it cancels the context as well, but ends without closing
\* done, or waits for itself inside handleFrame.
LoopCut ==
    /\ loop = "serve"
    /\ loop' = "cut"
    /\ UNCHANGED <<conf, phase, cron, issued, inbox, held, ctxs, pfn, fwd, wire>>

Cancelled == phase \in {"closing", "closed"} \/ loop = "cut"

\* ... and returns when the loop, back in its select, has seen that.
LoopEnds ==
    /\ phase = "closing"
    /\ loop = "serve"
    /\ loop' = "off"
    /\ phase' = "closed"
    /\ UNCHANGED <<conf, cron, issued, inbox, held, ctxs, pfn, fwd, wire>>

-----------------------------------------------------------------------------
(***************************************************************************)
(* Contexts.                                                               *)
(***************************************************************************)

\* Mutant: the metadata of the last context are used again.
NewContextReuses(kind, md, payload) ==
    [kind |-> kind, incoming |-> md,
     md |-> IF ctxs = <<>> THEN md ELSE ctxs[1].md,
     mdBytes |-> md, payload |-> payload,
     fnCall |-> FALSE, asked |-> <<>>, out |-> <<>>]

\* A context: its metadata, the bytes a cron context has cached of them, the
\* payload, whether a function call was read, the calls made on it (for the
\* properties) and the frame it is inside WriteFrame with.
NewContext(kind, md, payload) ==
    [kind |-> kind, incoming |-> md, md |-> md, mdBytes |-> md, payload |-> payload,
     fnCall |-> FALSE, asked |-> <<>>, out |-> <<>>]

\* A run of the cron job, with a context of its own.
CronTick ==
    /\ cron
    /\ issued < Bound
    /\ issued' = issued + 1
    /\ ctxs' = Append(ctxs, NewContext("cron", NewMetadata(NoTarget), "raw"))
    /\ UNCHANGED <<conf, phase, cron, inbox, loop, held, pfn, fwd, wire>>

\* The handler may make a call on context i; nothing shows when it returns.
Calls(i) ==
    /\ ctxs[i].out = <<>>
    /\ Len(ctxs[i].asked) < MaxOps

\* Context i with the call added and, inside WriteFrame, the given metadata.
Writing(i, op, target, md, bytes) ==
    [ctxs EXCEPT ![i].asked = Append(@, [op |-> op, target |-> target]),
                 ![i].md = md, ![i].out = <<bytes>>]

\* Context.WriteWithTarget: a target stays in the metadata of the context.
\* (Nil data and reserved tags are refused before anything changes.)
ContextWriteWithTarget(i, target) ==
    /\ Calls(i)
    /\ ctxs[i].kind = "async"
    /\ LET md == IF target = NoTarget THEN ctxs[i].md
                 ELSE [ctxs[i].md EXCEPT !.target = target]
       IN  ctxs' = Writing(i, "WriteWithTarget", target, md, md)
    /\ UNCHANGED <<conf, phase, cron, issued, inbox, loop, held, pfn, fwd, wire>>

\* Context.Write, which encodes the metadata as they are now.
ContextWrite(i) ==
    /\ Calls(i)
    /\ ctxs[i].kind = "async"
    /\ ctxs' = Writing(i, "Write", NoTarget, ctxs[i].md, ctxs[i].md)
    /\ UNCHANGED <<conf, phase, cron, issued, inbox, loop, held, pfn, fwd, wire>>

\* CronContext.Write, with the bytes encoded when the context was created.
CronContextWrite(i) ==
    /\ Calls(i)
    /\ ctxs[i].kind = "cron"
    /\ ctxs' = Writing(i, "Write", NoTarget, ctxs[i].md, ctxs[i].mdBytes)
    /\ UNCHANGED <<conf, phase, cron, issued, inbox, loop, held, pfn, fwd, wire>>

\* CronContext.WriteWithTarget; with an empty target it is Write.
CronContextWriteWithTarget(i, target) ==
    /\ Calls(i)
    /\ ctxs[i].kind = "cron"
    /\ target # NoTarget
    /\ LET md == [ctxs[i].md EXCEPT !.target = target]
       IN  ctxs' = Writing(i, "WriteWithTarget", target, md, md)
    /\ UNCHANGED <<conf, phase, cron, issued, inbox, loop, held, pfn, fwd, wire>>

\* ReadLLMArguments keeps the function call even when it has no arguments and
\* an error is returned.
ReadLLMArguments(i) ==
    /\ Calls(i)
    /\ ctxs[i].kind = "async"
    /\ ctxs' = [ctxs EXCEPT
                    ![i].asked = Append(@, [op |-> "Read", target |-> NoTarget]),
                    ![i].fnCall = @ \/ ctxs[i].payload = "call"]
    /\ UNCHANGED <<conf, phase, cron, issued, inbox, loop, held, pfn, fwd, wire>>

\* WriteLLMResult: a Write to the tag of the reducer, once a call was read.
WriteLLMResult(i) ==
    /\ Calls(i)
    /\ ctxs[i].fnCall
    /\ ctxs' = Writing(i, "Result", NoTarget, ctxs[i].md, ctxs[i].md)
    /\ UNCHANGED <<conf, phase, cron, issued, inbox, loop, held, pfn, fwd, wire>>

\* WriteFrame of a context: the loop takes the frame and writes it ...
LoopWrites(i) ==
    /\ loop = "serve"
    /\ ctxs[i].out # <<>>
    /\ wire' = Append(wire, [ctx |-> i, nth |-> Len(ctxs[i].asked),
                             md |-> Head(ctxs[i].out), item |-> 0])
    /\ ctxs' = [ctxs EXCEPT ![i].out = <<>>]
    /\ UNCHANGED <<conf, phase, cron, issued, inbox, loop, held, pfn, fwd>>

\* ... or the context of the client is cancelled.
WriteCancelled(i) ==
    /\ Cancelled
    /\ ctxs[i].out # <<>>
    /\ ctxs' = [ctxs EXCEPT ![i].out = <<>>]
    /\ UNCHANGED <<conf, phase, cron, issued, inbox, loop, held, pfn, fwd, wire>>

-----------------------------------------------------------------------------
(***************************************************************************)
(* onDataFrame and the pipe.                                               *)
(***************************************************************************)

\* Mutant: the frame is sent into pIn by a goroutine of its own.
onDataFrameAsync ==
    \E i \in DOMAIN inbox :
        /\ loop = "serve"
        /\ inbox' = RemoveAt(inbox, i)
        /\ loop' = "pIn"
        /\ held' = inbox[i].md.tid
        /\ UNCHANGED <<conf, phase, cron, issued, ctxs, pfn, fwd, wire>>

\* The loop has read a frame.  A handler comes before a pipe function; without
\* either the frame is dropped.
onDataFrame ==
    /\ loop = "serve"
    /\ inbox # <<>>
    /\ inbox' = Tail(inbox)
    /\ LET f == Head(inbox)
       IN  CASE conf.fn ->
                  /\ ctxs' = Append(ctxs, NewContext("async", f.md, f.payload))
                  /\ UNCHANGED <<loop, held>>
             [] ~conf.fn /\ conf.pfn ->
                  /\ loop' = "pIn"
                  /\ held' = f.md.tid
                  /\ UNCHANGED ctxs
             [] OTHER -> UNCHANGED <<ctxs, loop, held>>
    /\ UNCHANGED <<conf, phase, cron, issued, pfn, fwd, wire>>

\* The user's function receives from pIn; the loop is free again.
PipeReceives ==
    /\ loop = "pIn"
    /\ pfn.at = "recv"
    /\ pfn' = Step("work", held)
    /\ loop' = "serve"
    /\ held' = 0
    /\ UNCHANGED <<conf, phase, cron, issued, inbox, ctxs, fwd, wire>>

\* It has a result, none, or returns for good.
PipeWorks(next) ==
    /\ pfn.at = "work"
    /\ pfn' = IF next = "send" THEN Step("send", pfn.item) ELSE Step(next, 0)
    /\ UNCHANGED <<conf, phase, cron, issued, inbox, loop, held, ctxs, fwd, wire>>

\* It sends to pOut.  The forwarder skips nil, and ends for good on metadata it
\* cannot decode or encode.
PipeSends(kind) ==
    /\ pfn.at = "send"
    /\ fwd.at = "recv"
    /\ pfn' = Step("recv", 0)
    /\ fwd' = CASE kind = "frame" -> Step("write", pfn.item)
                [] kind = "nil" -> fwd
                [] kind = "badMetadata" -> Step("ended", 0)
    /\ UNCHANGED <<conf, phase, cron, issued, inbox, loop, held, ctxs, wire>>

\* Mutant: the forwarder does not loop.
ForwardWritesOnce ==
    /\ fwd.at = "write"
    /\ loop = "serve"
    /\ wire' = Append(wire, [ctx |-> 0, nth |-> 0, md |-> NewMetadata(NoTarget),
                             item |-> fwd.item])
    /\ fwd' = None
    /\ UNCHANGED <<conf, phase, cron, issued, inbox, loop, held, ctxs, pfn>>

\* The forwarder's WriteFrame, whose error is not looked at.
ForwardWrites ==
    /\ fwd.at = "write"
    /\ loop = "serve"
    /\ wire' = Append(wire, [ctx |-> 0, nth |-> 0, md |-> NewMetadata(NoTarget),
                             item |-> fwd.item])
    /\ fwd' = Step("recv", 0)
    /\ UNCHANGED <<conf, phase, cron, issued, inbox, loop, held, ctxs, pfn>>

\* Mutant: the write does not look at the context.
ForwardCancelledDeaf == FALSE /\ UNCHANGED vars

ForwardCancelled ==
    /\ fwd.at = "write"
    /\ Cancelled
    /\ fwd' = Step("recv", 0)
    /\ UNCHANGED <<conf, phase, cron, issued, inbox, loop, held, ctxs, pfn, wire>>

-----------------------------------------------------------------------------

Context(i) ==
    \/ ContextWrite(i) \/ CronContextWrite(i)
    \/ \E target \in AnyTarget :
        ContextWriteWithTarget(i, target) \/ CronContextWriteWithTarget(i, target)
    \/ ReadLLMArguments(i) \/ WriteLLMResult(i)
    \/ LoopWrites(i) \/ WriteCancelled(i)

Pipe ==
    \/ PipeReceives
    \/ \E next \in {"send", "recv", "returned"} : PipeWorks(next)
    \/ \E kind \in {"frame", "nil", "badMetadata"} : PipeSends(kind)
    \/ ForwardWrites \/ ForwardCancelled

Next ==
    \/ \E target \in AnyTarget, payload \in Payloads : SourceWrite(target, payload)
    \/ Connect \/ (\E ok \in BOOLEAN : ClientConnected(ok)) \/ Close \/ LoopEnds \/ LoopCut
    \/ CronTick
    \/ \E i \in DOMAIN ctxs : Context(i)
    \/ onDataFrame
    \/ Pipe

Spec == Init /\ [][Next]_vars

\* Goroutines that can go on do, and the user's pipe function comes back from
\* every item.  Nobody has to write, tick, connect or close.
Fairness ==
    /\ WF_vars(onDataFrame)
    /\ WF_vars(LoopEnds)
    /\ WF_vars(PipeReceives)
    /\ WF_vars(\E next \in {"send", "recv", "returned"} : PipeWorks(next))
    /\ WF_vars(\E kind \in {"frame", "nil", "badMetadata"} : PipeSends(kind))
    /\ SF_vars(ForwardWrites)
    /\ WF_vars(ForwardCancelled)

FairSpec == Spec /\ Fairness

-----------------------------------------------------------------------------
(***************************************************************************)
(* Properties.                                                             *)
(***************************************************************************)

\* The target a call is asked to use: the last one named on the same context,
\* up to and including the call, or else that of the frame.
LastAsked(c, n) ==
    LET named == {k \in 1 .. n : c.asked[k].target # NoTarget}
    IN  IF named = {} THEN c.incoming.target
        ELSE c.asked[CHOOSE k \in named : \A j \in named : j <= k].target

\* A frame that a handler writes belongs to the frame it was called for: it has
\* its transaction id and, unless the handler named another target on this same
\* context, its target.  A target named once stays for the later writes of an
\* async context; a cron context forgets it.  Contexts never share metadata,
\* however their handlers interleave (core/serverless/context.go).
MetadataFollows ==
    \A k \in DOMAIN wire : wire[k].ctx # 0 =>
        LET w == wire[k]
            c == ctxs[w.ctx]
        IN  /\ w.md.tid = c.incoming.tid
            /\ w.md.target = IF c.kind = "cron" THEN c.asked[w.nth].target
                             ELSE LastAsked(c, w.nth)

\* The pipe keeps the order in which frames arrived, and passes none on twice
\* (sfn.go: onDataFrame sends into an unbuffered channel on the loop's own
\* goroutine).
PipeInOrder ==
    \A j, k \in DOMAIN wire :
        j < k /\ wire[j].ctx = 0 /\ wire[k].ctx = 0 => wire[j].item < wire[k].item

\* The pipe's three goroutines wait for each other: the loop for the user's
\* function, that for the forwarder, and the forwarder for the loop.
WaitInACircle == loop = "pIn" /\ pfn.at = "send" /\ fwd.at = "write"

\* The user's function, or the forwarder it waits for, is gone.
PipeIsBroken == pfn.at = "returned" \/ (pfn.at = "send" /\ fwd.at = "ended")

\* A frame that was read is taken by the pipe, unless one of two things has
\* happened: the pipe is broken, or all of it waits in a circle.
PipeTakes == loop = "pIn" ~> loop # "pIn" \/ WaitInACircle \/ PipeIsBroken

\* Close returns, from any state of handlers, cron jobs and pipe, the circle
\* included: cancelling the context frees the forwarder, that the user's
\* function and that the loop.  Two things keep it waiting: a broken pipe, and a
\* zipper that closed the connection or sent a Goaway before the loop saw the
\* cancelled context (core/client.go:177-181, 405-409).
CloseReturns == phase = "closing" ~> phase = "closed" \/ PipeIsBroken \/ loop = "cut"
=============================================================================
