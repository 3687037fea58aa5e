------------------------------ MODULE AIBridge ------------------------------
(***************************************************************************)
(* The AI bridge (pkg/bridge/ai, ai): configuration and providers, the     *)
(* cache of services, the HTTP handlers, and the two calls of the LLM that *)
(* a request makes, streamed or not, with the function calls in between.   *)
(*                                                                         *)
(* The LLM is the environment: it answers with an error, a text, tool      *)
(* calls, nothing, or a stream of chunks.  Function calls are what module  *)
(* FunctionCalling shows of them: each call fired is answered by the       *)
(* functions of its tag, or never.                                         *)
(***************************************************************************)
EXTENDS Naturals, Sequences, FiniteSets, SequencesExt

CONSTANTS
    Configs,            \* the "ai" sections the zipper may be started with
    Servers,            \* callers of LoadOrCreateService
    Logins,             \* the credentials they may have: server -> credential
    ServiceCacheSize,   \* the capacity of the cache
    Requests,           \* HTTP requests
    ToolName,           \* tag -> name of the function registered for it
    Chats,              \* the messages a chat may come with, earlier turns included
    CallLists,          \* what the LLM may want called, in an answer
    Deltas,             \* the parts in which it may do so, in a stream
    MaxDeltas,          \* bound on the deltas of a stream
    MaxText             \* bound on the chunks of text of a request

\* Ids, names and what is said.  (What is added to STRING is part of it.)
Text == STRING \union {"", "question", "instructions", "prompt"}

\* The arguments of a call are kept as the places of the deltas they came with.
CallType == [id : Text, type : Text, name : Text, arguments : Seq(Nat)]
DeltaType == [index : Nat, id : Text, type : Text, name : Text, piece : BOOLEAN]
MessageType ==
    [role : {"system", "user", "assistant", "tool"}, what : Text, calls : SUBSET Text]

\* The cache has room for a service.
ASSUME AIBridgeAssumption ==
    /\ ServiceCacheSize \in Nat \ {0}
    /\ Logins \subseteq [Servers -> STRING]
    /\ Chats \subseteq Seq(MessageType)
    /\ CallLists \subseteq Seq(CallType)
    /\ Deltas \subseteq DeltaType

VARIABLES
    conf,       \* the configuration
    cred,       \* server -> its credential
    server,     \* server -> how far it got
    svc,        \* server -> its service, 0 for none
    services,   \* every Service created: credential, source, reducer
    cache,      \* the LRU cache: services, the least recently used first
    displaced,  \* services another one of the credential has replaced
    prompt,     \* what SetSystemPrompt has stored, or nothing
    req,        \* request -> its state
    crashed     \* a goroutine without recover has panicked

vars == <<conf, cred, server, svc, services, cache, displaced, prompt, req, crashed>>
serverVars == <<conf, cred, server, svc, services, cache, displaced>>

\* A message, with its text or, from a tool, the id of the call it answers.
Message(role, what) == [role |-> role, what |-> what, calls |-> {}]
User == Message("user", "question")

\* That of the LLM which asks for calls.
Assistant(calls) ==
    [role |-> "assistant", what |-> "",
     calls |-> {calls[k].id : k \in DOMAIN calls}]

-----------------------------------------------------------------------------
(***************************************************************************)
(* Configuration and providers.                                            *)
(***************************************************************************)

\* What a constructor returns when parameters are missing in the configuration:
\* most take them from the environment, one returns a nil pointer.
openai(complete) == "client"
azopenai(complete) == "client"
cloudflare_openai(complete) == "client"
cloudflare_azure(complete) == IF complete THEN "client" ELSE "nil"

\* registerAIProvider; unknown names are skipped.  A nil *Provider is not a nil
\* LLMProvider, so that RegisterProvider stores it.
registerAIProvider(c) ==
    [n \in c.providers \intersect
            {"openai", "azopenai", "cloudflare_openai", "cloudflare_azure"} |->
        CASE n = "openai" -> openai(c.complete)
          [] n = "azopenai" -> azopenai(c.complete)
          [] n = "cloudflare_openai" -> cloudflare_openai(c.complete)
          [] n = "cloudflare_azure" -> cloudflare_azure(c.complete)]

\* ParseConfig: no section means no bridge, a malformed one no zipper.
ParseConfig(c) == c.section = "ok"

\* GetProviderAndSetDefault.
GetProvider == IF ParseConfig(conf) /\ conf.provider \in DOMAIN registerAIProvider(conf)
                 THEN registerAIProvider(conf)[conf.provider] ELSE "none"

-----------------------------------------------------------------------------
(***************************************************************************)
(* Services and their cache.                                               *)
(***************************************************************************)

\* A request before it has come.
NewRequest ==
    [kind |-> "none", srv |-> "none", pc |-> "idle", at |-> "idle", code |-> 0,
     body |-> <<>>, messages |-> <<>>, messages2 |-> <<>>, prompt |-> "",
     heard |-> <<>>, toolCallsMap |-> [i \in {} |-> i], toolCalls |-> <<>>,
     hits |-> {}, fired |-> {}, pending |-> {}, val |-> {}, expired |-> FALSE,
     result |-> "none"]

Init ==
    /\ conf \in Configs
    /\ cred \in Logins
    /\ server = [s \in Servers |-> "new"]
    /\ svc = [s \in Servers |-> 0]
    /\ services = <<>>
    /\ cache = <<>>
    /\ displaced = {}
    /\ prompt \in {"", "prompt"}
    /\ req = [r \in Requests |-> NewRequest]
    /\ crashed = FALSE

\* The places of the cache with the service of a credential: one, or none.
Entries(c) == {i \in DOMAIN cache : services[cache[i]].cred = c}

\* The cache is locked while it calls back, for ever if Release does not return.
CacheFree == \A s \in Servers : server[s] # "stuck"

\* Serve and WithContextService: the provider is looked up, then the service, in
\* the cache, where a hit becomes the most recently used.
Serve(s) ==
    /\ server[s] = "new"
    /\ GetProvider = "none" \/ CacheFree
    /\ LET hit == Entries(cred[s])
       IN  CASE GetProvider = "none" ->
                  /\ server' = [server EXCEPT ![s] = "down"]
                  /\ UNCHANGED <<svc, services, cache>>
             [] GetProvider # "none" /\ hit # {} ->
                  LET i == CHOOSE i \in hit : TRUE
                  IN  /\ server' = [server EXCEPT ![s] = "up"]
                      /\ svc' = [svc EXCEPT ![s] = cache[i]]
                      /\ cache' = Append(RemoveAt(cache, i), cache[i])
                      /\ UNCHANGED services
             [] OTHER ->
                  /\ server' = [server EXCEPT ![s] = "source"]
                  /\ svc' = [svc EXCEPT ![s] = Len(services) + 1]
                  /\ services' = Append(services,
                        [cred |-> cred[s], source |-> "none", reducer |-> "none"])
                  /\ UNCHANGED cache
    /\ UNCHANGED <<conf, cred, displaced, prompt, req, crashed>>

\* newService: the source connects, or the zipper rejects it and every request
\* gets a 500 ...
createSource(s, ok) ==
    /\ server[s] = "source"
    /\ server' = [server EXCEPT ![s] = IF ok THEN "reducer" ELSE "failing"]
    /\ services' = IF ok THEN [services EXCEPT ![svc[s]].source = "open"] ELSE services
    /\ UNCHANGED <<conf, cred, svc, cache, displaced, prompt, req, crashed>>

\* ... then the reducer; when that fails nobody closes the source.
createReducer(s, ok) ==
    /\ server[s] = "reducer"
    /\ server' = [server EXCEPT ![s] = IF ok THEN "add" ELSE "failing"]
    /\ services' = IF ok THEN [services EXCEPT ![svc[s]].reducer = "open"] ELSE services
    /\ UNCHANGED <<conf, cred, svc, cache, displaced, prompt, req, crashed>>

\* Mutant: an evicted service is forgotten.
ReleaseNot(v) == services

\* Release closes the source, then the reducer, in use or not.  Close never returns
\* for a client whose connection the zipper has closed (module Client).
Release(v) ==
    LET d == services[v]
    IN  [services EXCEPT ![v] =
            IF d.source = "remote" THEN d
            ELSE [d EXCEPT !.source = "closed",
                    !.reducer = IF d.reducer = "remote" THEN "remote" ELSE "closed"]]

ReleaseReturns(v) == services[v].source # "remote" /\ services[v].reducer # "remote"

\* services.Add: a service of the same credential is replaced without a
\* callback; beyond the capacity the least recently used one is released.
AddService(s) ==
    /\ server[s] = "add"
    /\ CacheFree
    /\ LET same == Entries(cred[s])
           rest == IF same = {} THEN cache
                   ELSE RemoveAt(cache, CHOOSE i \in same : TRUE)
           full == Len(rest) = ServiceCacheSize
       IN  /\ server' = [server EXCEPT ![s] =
                    IF full /\ ~ReleaseReturns(Head(rest)) THEN "stuck" ELSE "up"]
           /\ cache' = Append(IF full THEN Tail(rest) ELSE rest, svc[s])
           /\ services' = IF full THEN Release(Head(rest)) ELSE services
           /\ displaced' = displaced \union {cache[i] : i \in same}
    /\ UNCHANGED <<conf, cred, svc, prompt, req, crashed>>

\* The zipper closes the connection of a client of the service, which does not
\* dial again then.  (One in a behaviour, to keep the runs small.)
ZipperCloses(v, client) ==
    /\ services[v][client] = "open"
    /\ \A u \in DOMAIN services : "remote" \notin {services[u].source, services[u].reducer}
    /\ services' = [services EXCEPT ![v] = [@ EXCEPT ![client] = "remote"]]
    /\ UNCHANGED <<conf, cred, server, svc, cache, displaced, prompt, req, crashed>>

-----------------------------------------------------------------------------
(***************************************************************************)
(* Responses.                                                              *)
(***************************************************************************)

\* The status line is sent with the first write; a later WriteHeader is ignored.
Respond(q, code, part) ==
    [q EXCEPT !.code = IF @ = 0 THEN code ELSE @, !.body = Append(@, part)]

\* What the handler and its worker know of a request is gone when they return.
Forgotten(q) ==
    [NewRequest EXCEPT !.kind = q.kind, !.pc = "done", !.at = q.at, !.code = q.code,
                       !.body = q.body, !.expired = q.expired, !.result = q.result]

Returned(q) == [Forgotten(q) EXCEPT !.at = "done"]

\* RespondWithError, of HandleChatCompletions.
RespondWithError(q) == Returned(Respond(q, 400, "error"))

\* Mutant: the channel is unbuffered; after a timeout nobody receives.
FinishUnbuffered(q, outcome) ==
    CASE q.kind = "invoke" ->
            [q EXCEPT !.pc = IF q.at = "select" THEN "done" ELSE "sending",
                      !.result = outcome]
      [] q.kind # "invoke" /\ outcome = "err" -> RespondWithError(q)
      [] OTHER -> Returned(Respond(q, 200, "answer"))

\* What GetInvoke or GetChatCompletions returns.  The worker of HandleInvoke puts
\* it into a channel with room for it.
Finish(q, outcome) ==
    CASE q.kind = "invoke" -> [Forgotten(q) EXCEPT !.result = outcome]
      [] q.kind # "invoke" /\ outcome = "err" -> RespondWithError(q)
      [] OTHER -> Returned(Respond(q, 200, "answer"))

Become(r, q) ==
    /\ req' = [req EXCEPT ![r] = q]
    /\ UNCHANGED <<serverVars, prompt, crashed>>

\* A panic kills the process on the worker's goroutine; net/http recovers that of
\* a handler and drops the connection.
Panic(r) ==
    /\ crashed' = (req[r].kind = "invoke")
    /\ req' = [req EXCEPT ![r] = Returned([req[r] EXCEPT !.body = Append(@, "aborted")])]
    /\ UNCHANGED <<serverVars, prompt>>

-----------------------------------------------------------------------------
(***************************************************************************)
(* Requests.                                                               *)
(***************************************************************************)

\* overWriteSystemPrompt: every system message, or one more at the end.
overWriteSystemPrompt(messages, sysPrompt) ==
    LET system == {i \in DOMAIN messages : messages[i].role = "system"}
    IN  IF sysPrompt = "" THEN messages
        ELSE IF system = {} THEN Append(messages, Message("system", sysPrompt))
        ELSE [i \in DOMAIN messages |->
                IF i \in system THEN Message("system", sysPrompt) ELSE messages[i]]

\* prepareMessages, of GetInvoke: the bridge's own system message, the chain, the
\* question.  The prompt that was set is not used.
prepareMessages(chain) ==
    <<Message("system", "instructions")>> \o chain \o <<User>>

\* A request whose service could not be created.
HandleFailing(r, s) ==
    /\ server[s] = "failing"
    /\ req[r].kind = "none"
    /\ Become(r, [Returned(Respond(NewRequest, 500, "error")) EXCEPT !.kind = "any"])

HandleOverview(r, s) ==
    /\ server[s] = "up"
    /\ req[r].kind = "none"
    /\ Become(r, [Returned(Respond(NewRequest, 200, "functions"))
                    EXCEPT !.kind = "overview"])

\* HandleInvoke: the work is done on a goroutine of its own; the handler waits in
\* a select.
HandleInvoke(r, s, decoded) ==
    /\ server[s] = "up"
    /\ req[r].kind = "none"
    /\ Become(r, IF decoded
            THEN [NewRequest EXCEPT !.kind = "invoke", !.srv = s, !.pc = "llm1",
                        !.at = "select", !.messages = prepareMessages(<<>>)]
            ELSE [Returned(Respond(NewRequest, 400, "error")) EXCEPT !.kind = "invoke"])

\* HandleChatCompletions, streamed or not.
HandleChatCompletions(r, s, decoded, kind, messages) ==
    /\ server[s] = "up"
    /\ req[r].kind = "none"
    /\ kind \in {"chat", "stream"}
    /\ Become(r, IF decoded
            THEN [NewRequest EXCEPT !.kind = kind, !.srv = s, !.pc = "llm1",
                        !.at = "handler", !.prompt = prompt,
                        !.messages = overWriteSystemPrompt(messages, prompt)]
            ELSE [RespondWithError(NewRequest) EXCEPT !.kind = kind])

\* 90 seconds have passed, or the client of a chat has gone: the context of the
\* request is done.
Expire(r) ==
    /\ req[r].pc \notin {"idle", "done"}
    /\ ~req[r].expired
    /\ Become(r, [req[r] EXCEPT !.expired = TRUE])

\* The select of HandleInvoke; its deferred cancel ends the worker's context.
InvokeReturns(r) ==
    /\ req[r].at = "select"
    /\ LET Ended(code, part) ==
            Become(r, [Respond(req[r], code, part) EXCEPT !.at = "done", !.expired = TRUE])
       IN  \/ req[r].result = "res" /\ Ended(200, "answer")
           \/ req[r].result = "err" /\ Ended(500, "error")
           \/ req[r].expired /\ Ended(408, "error")

-----------------------------------------------------------------------------
(***************************************************************************)
(* The calls of the LLM.                                                   *)
(***************************************************************************)

\* A provider that is a nil pointer panics in its first call.
ProviderPanics(r) ==
    /\ req[r].pc \in {"llm1", "llm2"}
    /\ GetProvider = "nil"
    /\ Panic(r)

\* What GetInvoke makes of an answer; with a reason that does not ask for calls
\* it is the result.
ConvertToInvokeResponse(reason, calls) ==
    CASE reason = "stop" -> "res"
      [] reason # "stop" /\ calls = <<>> -> "err"
      [] reason \in {"tool_calls", "gemini_tool_calls"} /\ calls # <<>> -> "calls"
      [] OTHER -> "res"

\* The tools that hit each call, by name and type; one name may be registered for
\* several tags.  For "gemini_tool_calls" names are not compared.
FnCalls(calls, reason) ==
    {p \in (DOMAIN ToolName) \X (DOMAIN calls) :
        \/ ToolName[p[1]] = calls[p[2]].name /\ calls[p[2]].type = "function"
        \/ reason = "gemini_tool_calls"}

Calling(q, calls, reason) ==
    [q EXCEPT !.toolCalls = calls, !.hits = FnCalls(calls, reason), !.pc = "fire"]

\* The first answer; one without choices is a panic.
FirstAnswer(r, reason, calls) ==
    LET q == req[r]
        what == IF q.kind = "invoke" THEN ConvertToInvokeResponse(reason, calls)
                ELSE IF reason = "tool_calls" THEN "calls" ELSE "res"
    IN  /\ q.pc = "llm1"
        /\ q.kind # "stream"
        /\ GetProvider = "client"
        /\ q.expired => reason = "failed"
        /\ CASE reason = "failed" -> Become(r, Finish(q, "err"))
             [] reason = "nothing" -> Panic(r)
             [] reason \notin {"failed", "nothing"} /\ what = "calls" ->
                  Become(r, Calling(q, calls, reason))
             [] OTHER -> Become(r, Finish(q, what))

\* The second one; GetChatCompletions passes on whatever it is.
SecondAnswer(r, reason, calls) ==
    LET q == req[r]
    IN  /\ q.pc = "llm2"
        /\ q.kind # "stream"
        /\ GetProvider = "client"
        /\ q.expired => reason = "failed"
        /\ IF reason = "nothing" /\ q.kind = "invoke" THEN Panic(r)
           ELSE Become(r, Finish(q,
                    IF \/ reason = "failed"
                       \/ /\ q.kind = "invoke"
                          /\ ConvertToInvokeResponse(reason, calls) = "err"
                      THEN "err" ELSE "res"))

\* GetChatCompletionsStream.
OpenStream(r, ok) ==
    /\ req[r].kind = "stream"
    /\ req[r].pc \in {"llm1", "llm2"}
    /\ GetProvider = "client"
    /\ req[r].expired => ~ok
    /\ Become(r, IF ~ok THEN RespondWithError(req[r])
                 ELSE [req[r] EXCEPT !.pc = IF @ = "llm1" THEN "stream1" ELSE "stream2"])

\* A chunk of text is passed on.
RecvText(r) ==
    /\ req[r].pc \in {"stream1", "stream2"}
    /\ ~req[r].expired
    /\ Len(req[r].body) < MaxText
    /\ Become(r, Respond(req[r], 200, "text"))

\* Mutant: the call that a delta opens is not written back.
AddDeltaNotBack(calls, d, place) ==
    [i \in DOMAIN calls \union {d.index} |->
        IF i # d.index THEN calls[i]
        ELSE IF i \notin DOMAIN calls
          THEN [id |-> d.id, type |-> d.type, name |-> "", arguments |-> <<>>]
        ELSE [calls[i] EXCEPT
                !.arguments = IF d.piece THEN Append(@, place) ELSE @,
                !.name = IF d.name # "" THEN d.name ELSE @]]

\* The body of the loop over the deltas: the first one of an index brings id and
\* type, each adds its piece to the arguments and may bring the name.
AddDelta(calls, d, place) ==
    LET item == IF d.index \in DOMAIN calls THEN calls[d.index]
                ELSE [id |-> d.id, type |-> d.type, name |-> "", arguments |-> <<>>]
    IN  [i \in DOMAIN calls \union {d.index} |->
            IF i # d.index THEN calls[i]
            ELSE [item EXCEPT
                    !.arguments = IF d.piece THEN Append(@, place) ELSE @,
                    !.name = IF d.name # "" THEN d.name ELSE @]]

\* A delta of a tool call; a chunk may have several of them.
RecvDelta(r, d) ==
    LET q == req[r]
    IN  /\ q.pc = "stream1"
        /\ ~q.expired
        /\ Len(q.heard) < MaxDeltas
        /\ Become(r, [q EXCEPT !.heard = Append(@, d),
                !.toolCallsMap = AddDelta(@, d, Len(q.heard) + 1)])

\* A delta without index is a nil pointer.
RecvNoIndex(r) ==
    /\ req[r].pc = "stream1"
    /\ ~req[r].expired
    /\ Panic(r)

\* Mutant: the failure is taken for the end.
RecvErrorSwallowed(r) ==
    /\ req[r].pc \in {"stream1", "stream2"}
    /\ Become(r, Returned(req[r]))

\* Recv fails, at any chunk.
RecvError(r) ==
    /\ req[r].pc \in {"stream1", "stream2"}
    /\ Become(r, RespondWithError(req[r]))

\* io.EOF of the first stream.  Without tool calls that was all; otherwise
\* mapToSliceTools, which panics when indices are missing.
FirstEOF(r) ==
    LET q == req[r]
        n == Cardinality(DOMAIN q.toolCallsMap)
    IN  /\ q.pc = "stream1"
        /\ CASE q.heard = <<>> -> Become(r, Returned(Respond(q, 200, "DONE")))
             [] q.heard # <<>> /\ DOMAIN q.toolCallsMap # 0 .. n - 1 -> Panic(r)
             [] OTHER -> Become(r,
                  Calling(q, [i \in 1 .. n |-> q.toolCallsMap[i - 1]], "tool_calls"))

SecondEOF(r) ==
    /\ req[r].pc = "stream2"
    /\ Become(r, Returned(Respond(req[r], 200, "DONE")))

-----------------------------------------------------------------------------
(***************************************************************************)
(* Function calls.                                                         *)
(***************************************************************************)

\* runFunctionCalls fires the calls that were hit.  With a source that is closed a
\* write fails and is skipped; some may have got out before.
FireCalls(r, fired) ==
    /\ req[r].pc = "fire"
    /\ fired = req[r].hits \/ services[svc[req[r].srv]].source # "open"
    /\ Become(r, [req[r] EXCEPT !.pc = "wait", !.fired = fired, !.pending = fired])

\* Mutant: the first answer is taken for all.
FunctionAnswersOnce(r, p) ==
    /\ req[r].pc = "wait"
    /\ p \in req[r].pending
    /\ services[svc[req[r].srv]].reducer = "open"
    /\ Become(r, [req[r] EXCEPT !.pending = {},
            !.val = @ \union {req[r].toolCalls[p[2]].id}])

\* The reducer gets an answer; results are kept by tool call id.
FunctionAnswers(r, p) ==
    /\ req[r].pc = "wait"
    /\ p \in req[r].pending
    /\ services[svc[req[r].srv]].reducer = "open"
    /\ Become(r, [req[r] EXCEPT !.pending = @ \ {p},
            !.val = @ \union {req[r].toolCalls[p[2]].id}])

\* wg.Wait returns, and the messages of the second call are put together, with the
\* results in the order in which the map is iterated.
WaitReturns(r, order) ==
    LET q == req[r]
        chain == <<Assistant(q.toolCalls)>> \o
                    [i \in DOMAIN order |-> Message("tool", order[i])]
    IN  /\ q.pc = "wait"
        /\ q.pending = {}
        /\ Become(r, [q EXCEPT !.pc = "llm2",
                !.messages2 = IF q.kind = "invoke" THEN prepareMessages(chain)
                              ELSE q.messages \o chain])

-----------------------------------------------------------------------------

Reasons == {"failed", "nothing", "stop", "length", "tool_calls", "gemini_tool_calls"}

Boot(s) ==
    \/ Serve(s) \/ AddService(s)
    \/ \E ok \in BOOLEAN : createSource(s, ok) \/ createReducer(s, ok)

Cut == \E v \in DOMAIN services, client \in {"source", "reducer"} :
    ZipperCloses(v, client)

Handle(r) == \E s \in Servers :
    \/ HandleFailing(r, s) \/ HandleOverview(r, s)
    \/ \E decoded \in BOOLEAN :
        \/ HandleInvoke(r, s, decoded)
        \/ \E kind \in {"chat", "stream"}, m \in Chats :
            HandleChatCompletions(r, s, decoded, kind, m)

LLM(r) ==
    \/ ProviderPanics(r)
    \/ \E reason \in Reasons, calls \in CallLists :
        FirstAnswer(r, reason, calls) \/ SecondAnswer(r, reason, calls)
    \/ \E ok \in BOOLEAN : OpenStream(r, ok)
    \/ RecvError(r) \/ FirstEOF(r) \/ SecondEOF(r)

Chunk(r) ==
    \/ RecvText(r)
    \/ \E d \in Deltas : RecvDelta(r, d)
    \/ RecvNoIndex(r)

\* All results, in any order.
Orders(S) == Bijection(1 .. Cardinality(S), S)

Functions(r) ==
    \/ \E fired \in SUBSET req[r].hits : FireCalls(r, fired)
    \/ \E order \in Orders(req[r].val) : WaitReturns(r, order)

Next ==
    /\ ~crashed
    /\ \/ \E s \in Servers : Boot(s)
       \/ Cut
       \/ \E r \in Requests :
            \/ Handle(r) \/ Expire(r) \/ InvokeReturns(r) \/ LLM(r) \/ Chunk(r)
            \/ Functions(r) \/ (\E p \in req[r].pending : FunctionAnswers(r, p))

Spec == Init /\ [][Next]_vars

\* Timers fire, handlers go on, and a call of the LLM returns at the latest when
\* its context is done.  Functions need not answer.
Fairness ==
    \A r \in Requests :
        /\ WF_vars(~crashed /\ Expire(r))
        /\ WF_vars(~crashed /\ InvokeReturns(r))
        /\ WF_vars(~crashed /\ LLM(r))
        /\ WF_vars(~crashed /\ Functions(r))

FairSpec == Spec /\ Fairness

-----------------------------------------------------------------------------
(***************************************************************************)
(* Properties.                                                             *)
(***************************************************************************)

\* The LLM gets its second question in the form it insists on, whatever the
\* earlier turns of the chat, the order of chunks and answers, and also when one
\* name is registered for two tags.  The second question is the first with a block
\* put in: the assistant's message and, directly behind it, one tool message for
\* every call of it that was fired, which are all that hit a function, unless the
\* source was closed.  The calls that hit none stay without an answer.  The
\* prompt that was set is in force, for chats (service.go, GetChatCompletions and
\* GetInvoke).
SecondCallWellFormed ==
    \A r \in Requests : req[r].pc \in {"llm2", "stream2"} =>
        LET q == req[r]
            m == q.messages2
            system == {i \in DOMAIN m : m[i].role = "system"}
        IN  /\ \E a, b \in DOMAIN m :
                 /\ a <= b
                 /\ m[a] = Assistant(q.toolCalls)
                 /\ \A i \in a + 1 .. b : m[i].role = "tool"
                 /\ \A i, j \in a + 1 .. b : m[i].what = m[j].what => i = j
                 /\ {m[i].what : i \in a + 1 .. b} = {q.toolCalls[p[2]].id : p \in q.fired}
                 /\ Len(m) = Len(q.messages) + (b - a) + 1
                 /\ \A i \in DOMAIN q.messages :
                      q.messages[i] = m[IF i < a THEN i ELSE i + (b - a) + 1]
            /\ q.fired = q.hits \/ services[svc[q.srv]].source # "open"
            /\ q.prompt # "" =>
                 system # {} /\ \A i \in system : m[i].what = q.prompt

\* A call put together from the deltas heard of its index: the id and type of the
\* first, the latest name, and the pieces of the arguments, all of them, in order.
IsCallOf(heard, index, call) ==
    LET of == {k \in DOMAIN heard : heard[k].index = index}
        named == {k \in of : heard[k].name # ""}
    IN  /\ \E k \in of :
             /\ \A j \in of : k <= j
             /\ call.id = heard[k].id /\ call.type = heard[k].type
        /\ \/ named = {} /\ call.name = ""
           \/ \E k \in named : (\A j \in named : j <= k) /\ call.name = heard[k].name
        /\ Range(call.arguments) = {k \in of : heard[k].piece}
        /\ \A i, j \in DOMAIN call.arguments :
             i < j => call.arguments[i] < call.arguments[j]

\* The tool calls taken from a stream are those that were streamed, although
\* deltas of several calls may alternate and need not come in the order of their
\* indices: each is put together from the deltas of its index, and every delta
\* belongs to one of them (toolCallsMap, mapToSliceTools).
CallsReassembled ==
    \A r \in Requests :
        req[r].kind = "stream" /\ req[r].pc \in {"fire", "wait", "llm2", "stream2"} =>
            LET q == req[r]
            IN  /\ \A i \in DOMAIN q.toolCalls : IsCallOf(q.heard, i - 1, q.toolCalls[i])
                /\ \A k \in DOMAIN q.heard : q.heard[k].index + 1 \in DOMAIN q.toolCalls

\* The reader of a stream can tell how it ended: with [DONE], an error or a
\* connection that is cut, once and at the end; an error after the first chunk
\* comes with status 200 (service.go, api_server.go).
StreamHasAnEnd ==
    \A r \in Requests : req[r].kind = "stream" =>
        LET ends == {i \in DOMAIN req[r].body : req[r].body[i] # "text"}
        IN  ends = IF req[r].at = "done" THEN {Len(req[r].body)} ELSE {}

\* A request is answered, and the goroutines that work for it end.  Two things
\* can prevent that: a crash of the process, and a function that does not answer,
\* for which HandleChatCompletions waits without regard to its timeout, while
\* HandleInvoke answers and leaves its worker behind.
Answered ==
    \A r \in Requests :
        req[r].kind # "none" ~>
            \/ crashed
            \/ req[r].at = "done" /\ req[r].pc \in {"done", "wait"}
            \/ req[r].kind \in {"chat", "stream"} /\ req[r].pc = "wait"

\* No source is left connected by accident: a service in the cache is open, unless
\* the zipper has closed it, and of the others those that were evicted are closed.
\* Three leaks remain: a service that a concurrent first request has replaced, the
\* source of a service whose reducer could not connect, and the reducer of one
\* whose Release is stuck in the Close of its source.
OpenIsAccountedFor ==
    \A v \in DOMAIN services :
        IF v \in Range(cache)
          THEN {services[v].source, services[v].reducer} \subseteq {"open", "remote"}
          ELSE \/ services[v].source # "open" /\ services[v].reducer # "open"
               \/ v \in displaced
               \/ services[v].source = "remote"
               \/ \E s \in Servers : svc[s] = v /\ server[s] \in {"failing", "reducer", "add"}
=============================================================================
