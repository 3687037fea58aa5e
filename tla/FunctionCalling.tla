--------------------------- MODULE FunctionCalling ---------------------------
(***************************************************************************)
(* LLM function calling (pkg/bridge/ai/service.go): a request asks the LLM *)
(* which of the registered functions to call, fires one data frame per     *)
(* tool call, and waits on a WaitGroup until the reducer has counted the   *)
(* answers.  How many answers a call will get is taken from the function   *)
(* register (SfnFactor) after the call was fired; who answers is decided   *)
(* by the router of the zipper when the frame gets there.                  *)
(*                                                                         *)
(* The zipper is reduced to what Zipper.tla shows of it: a function is in  *)
(* the router before it is in the register and leaves in the opposite      *)
(* order, and a frame goes to every connection routed for its tag.  The    *)
(* reducer handles every answer on a goroutine of its own.                 *)
(***************************************************************************)
EXTENDS Register, Integers

CONSTANTS
    Requests,   \* concurrent invocations of the service
    Calls,      \* tool call ids the LLM may answer with
    NoCall,     \* no tool call
    TagOf,      \* connection -> the tag its function observes
    CallTag,    \* tool call id -> the tag of the function it names
    Stable,     \* connections of functions that stay connected and answer
    Faults,     \* what may happen besides
    MaxLost     \* bound on the results that get lost before another loss

ASSUME FunctionCallingAssumption ==
    /\ IsFiniteSet(Conns) /\ IsFiniteSet(Calls)
    /\ NoCall \notin Calls
    /\ TagOf \in [Conns -> Tags]
    /\ CallTag \in [Calls -> Tags]
    /\ Stable \subseteq Conns
    /\ Faults \subseteq {"churn", "overtake", "writeFails", "silent", "loss"}
    /\ MaxLost \in Nat

VARIABLES
    stage,      \* connection -> where its handler in the zipper is
    live,       \* connections whose function is alive
    pc,         \* control of GetInvoke / GetChatCompletions
    tools,      \* the tags ListToolCalls returned to the request
    wanted,     \* tool calls still to be fired
    current,    \* the tool call whose wg.Add is next
    fired,      \* tool calls written to the source
    wg,         \* the counter of the request's WaitGroup
    val,        \* the tool calls with a result in the request's call cache
    sent,       \* calls on their way to the zipper
    answers,    \* results to come: a function works on the call, or has answered
    lost,       \* results that will not come, for the want of a connection
    panicked    \* the WaitGroup counter went below zero: the process is dead

connVars == <<functions, stage, live>>
requestVars == <<pc, tools, wanted, current, fired>>
networkVars == <<sent, answers, lost>>
vars == <<connVars, requestVars, wg, val, networkVars, panicked>>

Messages == [req : Requests, call : Calls, conn : Conns]
Msg(r, k, c) == [req |-> r, call |-> k, conn |-> c]

TypeOK ==
    /\ RegisterTypeOK
    /\ stage \in [Conns -> {"out", "routed", "registered", "leaving"}]
    /\ live \subseteq Conns
    /\ pc \in [Requests -> {"idle", "llm", "fire", "add", "returned"}]
    /\ tools \in [Requests -> SUBSET Tags]
    /\ wanted \in [Requests -> SUBSET Calls]
    /\ current \in [Requests -> Calls \union {NoCall}]
    /\ fired \in [Requests -> SUBSET Calls]
    /\ wg \in [Requests -> Int]
    /\ val \in [Requests -> SUBSET Calls]
    /\ sent \subseteq Requests \X Calls
    /\ answers \subseteq Messages
    /\ lost \subseteq Messages
    /\ panicked \in BOOLEAN

Init ==
    /\ functions = [c \in Conns |-> IF c \in Stable THEN TagOf[c] ELSE NoTag]
    /\ stage = [c \in Conns |-> IF c \in Stable THEN "registered" ELSE "out"]
    /\ live = Stable
    /\ pc = [r \in Requests |-> "idle"]
    /\ tools = [r \in Requests |-> {}]
    /\ wanted = [r \in Requests |-> {}]
    /\ current = [r \in Requests |-> NoCall]
    /\ fired = [r \in Requests |-> {}]
    /\ wg = [r \in Requests |-> 0]
    /\ val = [r \in Requests |-> {}]
    /\ sent = {}
    /\ answers = {}
    /\ lost = {}
    /\ panicked = FALSE

-----------------------------------------------------------------------------
(***************************************************************************)
(* The request: GetInvoke or GetChatCompletions, and runFunctionCalls.     *)
(***************************************************************************)

\* The tools offered to the LLM are those registered now.
GetTools(r) ==
    /\ pc[r] = "idle"
    /\ tools' = [tools EXCEPT ![r] = ListToolCalls]
    /\ pc' = [pc EXCEPT ![r] = "llm"]
    /\ UNCHANGED <<connVars, wanted, current, fired, wg, val,
                   networkVars, panicked>>

\* The LLM answers with tool calls of the offered functions; with none,
\* runFunctionCalls is not entered or returns at once.
LLMAnswers(r, calls) ==
    /\ pc[r] = "llm"
    /\ \A k \in calls : CallTag[k] \in tools[r]
    /\ wanted' = [wanted EXCEPT ![r] = calls]
    /\ pc' = [pc EXCEPT ![r] = IF calls = {} THEN "returned" ELSE "fire"]
    /\ UNCHANGED <<connVars, tools, current, fired, wg, val,
                   networkVars, panicked>>

\* fireLlmSfn: source.Write takes the frame, which is not yet to say that it gets
\* to the zipper.
fireLlmSfn(r, k) ==
    /\ pc[r] = "fire"
    /\ k \in wanted[r]
    /\ wanted' = [wanted EXCEPT ![r] = @ \ {k}]
    /\ fired' = [fired EXCEPT ![r] = @ \union {k}]
    /\ sent' = sent \union {<<r, k>>}
    /\ current' = [current EXCEPT ![r] = k]
    /\ pc' = [pc EXCEPT ![r] = "add"]
    /\ UNCHANGED <<connVars, tools, wg, val, answers, lost, panicked>>

\* source.Write returned an error: the call is skipped.
FireFails(r, k) ==
    /\ "writeFails" \in Faults
    /\ pc[r] = "fire"
    /\ k \in wanted[r]
    /\ wanted' = [wanted EXCEPT ![r] = @ \ {k}]
    /\ UNCHANGED <<connVars, pc, tools, current, fired, wg, val,
                   networkVars, panicked>>

\* Mutant: one answer per call is expected.
WgAddOne(r) ==
    /\ pc[r] = "add"
    /\ wg' = [wg EXCEPT ![r] = @ + 1]
    /\ current' = [current EXCEPT ![r] = NoCall]
    /\ pc' = [pc EXCEPT ![r] = "fire"]
    /\ UNCHANGED <<connVars, tools, wanted, fired, val, networkVars, panicked>>

\* wg.Add(SfnFactor(tag)), with the register as it is by now.
WgAdd(r) ==
    /\ pc[r] = "add"
    /\ wg' = [wg EXCEPT ![r] = @ + SfnFactor(CallTag[current[r]])]
    /\ current' = [current EXCEPT ![r] = NoCall]
    /\ pc' = [pc EXCEPT ![r] = "fire"]
    /\ UNCHANGED <<connVars, tools, wanted, fired, val, networkVars,
                   panicked>>

\* Mutant: nobody waits.
WgWaitNot(r) ==
    /\ pc[r] = "fire"
    /\ wanted[r] = {}
    /\ pc' = [pc EXCEPT ![r] = "returned"]
    /\ UNCHANGED <<connVars, tools, wanted, current, fired, wg, val,
                   networkVars, panicked>>

\* wg.Wait() returns; the results go into the second LLM call.
WgWait(r) ==
    /\ pc[r] = "fire"
    /\ wanted[r] = {}
    /\ wg[r] = 0
    /\ pc' = [pc EXCEPT ![r] = "returned"]
    /\ UNCHANGED <<connVars, tools, wanted, current, fired, wg, val,
                   networkVars, panicked>>

-----------------------------------------------------------------------------
(***************************************************************************)
(* The zipper, the functions and the reducer.                              *)
(***************************************************************************)

Observers(tag) == {c \in live : stage[c] # "out" /\ TagOf[c] = tag}

\* The zipper routes the frame to every connection routed for its tag; those
\* that died get nothing.
RouteCall(r, k) ==
    /\ <<r, k>> \in sent
    /\ sent' = sent \ {<<r, k>>}
    /\ answers' = answers \union {Msg(r, k, c) : c \in Observers(CallTag[k])}
    /\ UNCHANGED <<connVars, requestVars, wg, val, lost, panicked>>

\* The client of the source drops a frame it has accepted, because its connection
\* breaks in the write: nobody will answer the call.
LoseCall(r, k) ==
    /\ "loss" \in Faults /\ Cardinality(lost) < MaxLost
    /\ <<r, k>> \in sent
    /\ sent' = sent \ {<<r, k>>}
    /\ lost' = lost \union {Msg(r, k, c) : c \in Observers(CallTag[k])}
    /\ UNCHANGED <<connVars, requestVars, wg, val, answers, panicked>>

\* The connection of the reducer breaks, or it is dialling again and is not
\* routed: the zipper has nobody to deliver the result to.
LoseAnswer(m) ==
    /\ "loss" \in Faults /\ Cardinality(lost) < MaxLost
    /\ m \in answers
    /\ answers' = answers \ {m}
    /\ lost' = lost \union {m}
    /\ UNCHANGED <<connVars, requestVars, wg, val, sent, panicked>>

\* A function returns without having called WriteLLMResult, or dies with the call
\* it works on.
SfnSilent(m) ==
    /\ m.conn \notin Stable
    /\ "silent" \in Faults \/ m.conn \notin live
    /\ m \in answers
    /\ answers' = answers \ {m}
    /\ UNCHANGED <<connVars, requestVars, wg, val, sent, lost, panicked>>

\* Mutant: the result goes to every request.
ReduceForAll(m) ==
    /\ m \in answers
    /\ answers' = answers \ {m}
    /\ val' = [r \in Requests |-> val[r] \union {m.call}]
    /\ wg' = [wg EXCEPT ![m.req] = @ - 1]
    /\ panicked' = (wg[m.req] <= 0)
    /\ UNCHANGED <<connVars, requestVars, sent, lost>>

\* Mutant: a second result for a call is dropped.
ReduceFirst(m) ==
    /\ m \in answers
    /\ "overtake" \in Faults \/ current[m.req] # m.call
    /\ answers' = answers \ {m}
    /\ val' = [val EXCEPT ![m.req] = @ \union {m.call}]
    /\ wg' = [wg EXCEPT ![m.req] = IF m.call \in val[m.req] THEN @ ELSE @ - 1]
    /\ UNCHANGED <<connVars, requestVars, sent, lost, panicked>>

\* The handler of the reducer: the entry of the request is looked up, the
\* result stored and the WaitGroup counted down, which panics below zero.  Entries
\* are never deleted, so that only the reducers of other services, which observe
\* the same tag, find none; they drop the result and change nothing.
\* Without "overtake" an answer never gets here before the wg.Add of its call.
Reduce(m) ==
    /\ m \in answers
    /\ "overtake" \in Faults \/ current[m.req] # m.call
    /\ answers' = answers \ {m}
    /\ val' = [val EXCEPT ![m.req] = @ \union {m.call}]
    /\ wg' = [wg EXCEPT ![m.req] = @ - 1]
    /\ panicked' = (wg[m.req] <= 0)
    /\ UNCHANGED <<connVars, requestVars, sent, lost>>

\* A function connects: it is routed ...
Connected(c) ==
    /\ "churn" \in Faults
    /\ stage[c] = "out"
    /\ stage' = [stage EXCEPT ![c] = "routed"]
    /\ live' = live \union {c}
    /\ UNCHANGED <<functions, requestVars, wg, val, networkVars, panicked>>

\* ... then registered.
Registered(c) ==
    /\ stage[c] = "routed"
    /\ stage' = [stage EXCEPT ![c] = "registered"]
    /\ RegisterFunction(c, TagOf[c])
    /\ UNCHANGED <<live, requestVars, wg, val, networkVars, panicked>>

\* It dies ...
Died(c) ==
    /\ "churn" \in Faults
    /\ c \in live \ Stable
    /\ live' = live \ {c}
    /\ UNCHANGED <<functions, stage, requestVars, wg, val, networkVars, panicked>>

\* ... and its handler unregisters it, then removes the route.
Unregistered(c) ==
    /\ stage[c] = "registered"
    /\ c \notin live
    /\ stage' = [stage EXCEPT ![c] = "leaving"]
    /\ UnregisterFunction(c)
    /\ UNCHANGED <<live, requestVars, wg, val, networkVars, panicked>>

Removed(c) ==
    /\ stage[c] = "leaving"
    /\ stage' = [stage EXCEPT ![c] = "out"]
    /\ UNCHANGED <<functions, live, requestVars, wg, val, networkVars,
                   panicked>>

-----------------------------------------------------------------------------

runFunctionCalls(r) ==
    \/ GetTools(r)
    \/ \E calls \in SUBSET Calls : LLMAnswers(r, calls)
    \/ \E k \in Calls : fireLlmSfn(r, k) \/ FireFails(r, k)
    \/ WgAdd(r)
    \/ WgWait(r)

Next ==
    /\ ~panicked
    /\ \/ \E r \in Requests : runFunctionCalls(r)
       \/ \E r \in Requests, k \in Calls : RouteCall(r, k) \/ LoseCall(r, k)
       \/ \E m \in Messages :
            SfnSilent(m) \/ LoseAnswer(m) \/ Reduce(m)
       \/ \E c \in Conns :
            \/ Connected(c) \/ Registered(c)
            \/ Died(c) \/ Unregistered(c) \/ Removed(c)

Spec == Init /\ [][Next]_vars

\* Requests run, the zipper routes, and functions and the reducer answer.  It is
\* enough that some call and some answer moves: there are finitely many of them.
Fairness ==
    /\ \A r \in Requests : WF_vars(~panicked /\ runFunctionCalls(r))
    /\ WF_vars(~panicked /\ \E r \in Requests, k \in Calls : RouteCall(r, k))
    /\ WF_vars(~panicked /\ \E m \in Messages : Reduce(m))

FairSpec == Spec /\ Fairness

-----------------------------------------------------------------------------
(***************************************************************************)
(* Properties.                                                             *)
(***************************************************************************)

\* The answers to routed or lost calls that the reducer has not had.
Due(r) == {m \in answers \union lost : m.req = r}

Factor(k) == Cardinality(Observers(CallTag[k]))

\* The answers still to come for calls that are not routed yet.
Unrouted(r) ==
    Cardinality({p \in Calls \X Conns :
                    <<r, p[1]>> \in sent /\ p[2] \in Observers(CallTag[p[1]])})

\* A request that calls only functions whose instances are all stable.
OnlyStable(r) ==
    \A k \in wanted[r] \union fired[r] : \A c \in Conns :
        TagOf[c] = CallTag[k] => c \in Stable

\* The WaitGroup of a request to stable functions counts exactly the answers
\* that are still to come and those that were lost, whatever functions come and go
\* besides; between fireLlmSfn and wg.Add it is behind by those of the call just
\* fired.  One lost call or answer thus keeps it above zero for ever.
WgCountsAnswers ==
    \A r \in Requests : OnlyStable(r) =>
        wg[r] = Cardinality(Due(r)) + Unrouted(r)
                  - (IF pc[r] = "add" THEN Factor(current[r]) ELSE 0)

\* Results never get into the call cache of another request, nor under a call
\* that was not fired, although all requests share one reducer and late answers
\* come after their request has returned.
Isolated == \A r \in Requests : val[r] \subseteq fired[r]

\* When runFunctionCalls returns for a request to stable functions, every call
\* that was fired has its result ("use reducer to aggregate all the results",
\* service.go).
AggregatesAll ==
    \A r \in Requests :
        pc[r] = "returned" /\ OnlyStable(r) => fired[r] = val[r]

\* Something of the request was lost with a connection.
HasLost(r) == \E m \in lost : m.req = r

\* A request to stable functions returns, unless a reducer goroutine of another
\* request kills the process.  There is no timeout, and so one thing more keeps
\* it, for ever: a call its source accepted and lost, or an answer that was lost
\* with the connection of its reducer.
RequestReturns ==
    \A r \in Requests :
        pc[r] = "fire" /\ OnlyStable(r)
            ~> pc[r] = "returned" \/ panicked \/ HasLost(r)

\* "write parallel function calling results to cache, after all the results are
\* written, the reducer will be done" (service.go).
AllWrittenMeansDone ==
    \A r \in Requests :
        pc[r] \in {"fire", "add"} /\ wanted[r] = {} /\ val[r] = fired[r]
            ~> pc[r] = "returned"
=============================================================================
