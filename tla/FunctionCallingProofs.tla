----------------------- MODULE FunctionCallingProofs -----------------------
(***************************************************************************)
(* Proofs about FunctionCalling, for any number of concurrent requests,    *)
(* tool calls and functions that come and go, and whatever of the faults   *)
(* may happen: lost that overtake wg.Add included.                      *)
(***************************************************************************)
EXTENDS FunctionCalling, FiniteSetTheorems, TLAPS

\* A call of a function all of whose instances stay.
StableCall(k) == \A c \in Conns : TagOf[c] = CallTag[k] => c \in Stable

\* The answers a request is still to have, as pairs of a call and the connection
\* that answers it: on their way, lost on it, or certain once the call is routed.
DuePairs(r) ==
    {p \in Calls \X Conns :
        \/ Msg(r, p[1], p[2]) \in answers \union lost
        \/ <<r, p[1]>> \in sent /\ p[2] \in Observers(CallTag[p[1]])}

\* The register holds the functions whose handler is between registration and
\* unregistration; those of stable functions always are.
RegisterInv ==
    /\ \A c \in Conns :
         functions[c] = IF stage[c] = "registered" THEN TagOf[c] ELSE NoTag
    /\ Stable \subseteq live
    /\ \A c \in Stable : stage[c] = "registered"

\* A request fires a call at most once, and what is under way is of a call that
\* was fired: either not routed yet, or to be answered, or lost.
FiredInv ==
    /\ \A r \in Requests :
         /\ wanted[r] \intersect fired[r] = {}
         /\ pc[r] \in {"idle", "llm"} => fired[r] = {}
         /\ pc[r] \in {"idle", "llm", "returned"} => wanted[r] = {}
         /\ pc[r] = "add" => current[r] \in fired[r]
         /\ \A k \in Calls : <<r, k>> \in sent => k \in fired[r]
    /\ \A m \in answers \union lost :
         /\ m.call \in fired[m.req]
         /\ TagOf[m.conn] = CallTag[m.call]
         /\ <<m.req, m.call>> \notin sent
    /\ answers \intersect lost = {}

\* A tool was offered because a function had its tag, and a call of a stable
\* function is accounted for between the request and the call cache.
ServedInv ==
    /\ \A r \in Requests :
         /\ \A t \in tools[r] : \E c \in Conns : TagOf[c] = t
         /\ \A k \in wanted[r] \union fired[r] : CallTag[k] \in tools[r]
    /\ \A r \in Requests : \A k \in fired[r] :
         StableCall(k) =>
             \/ <<r, k>> \in sent
             \/ k \in val[r]
             \/ \E m \in answers \union lost : m.req = r /\ m.call = k

\* The WaitGroup counts what is due, less what wg.Add is still to add.
CountInv ==
    \A r \in Requests : (\A k \in fired[r] : StableCall(k)) =>
        wg[r] = Cardinality(DuePairs(r))
                  - (IF pc[r] = "add" THEN Factor(current[r]) ELSE 0)

\* The invariant that carries the theorems.
CallingInv ==
    /\ TypeOK
    /\ RegisterInv
    /\ FiredInv
    /\ Isolated
    /\ ServedInv
    /\ CountInv
    /\ AggregatesAll

-----------------------------------------------------------------------------

\* The steps of Next, one assumption for each kind.
LEMMA TypeStep ==
  ASSUME TypeOK, Next
  PROVE  TypeOK'
<1>. USE FunctionCallingAssumption DEF TypeOK, RegisterTypeOK, connVars,
         requestVars, networkVars
<1>1. ASSUME NEW r \in Requests, GetTools(r) PROVE TypeOK'
  BY <1>1 DEF GetTools, ListToolCalls
<1>2. ASSUME NEW r \in Requests, NEW calls \in SUBSET Calls,
             LLMAnswers(r, calls)
      PROVE  TypeOK'
  BY <1>2 DEF LLMAnswers
<1>3. ASSUME NEW r \in Requests, NEW k \in Calls, fireLlmSfn(r, k)
      PROVE  TypeOK'
  BY <1>3 DEF fireLlmSfn
<1>4. ASSUME NEW r \in Requests, NEW k \in Calls, FireFails(r, k)
      PROVE  TypeOK'
  BY <1>4 DEF FireFails
<1>5. ASSUME NEW r \in Requests, WgAdd(r) PROVE TypeOK'
  <2>1. SfnFactor(CallTag[current[r]]) \in Int
    <3>1. IsFiniteSet({c \in Conns : functions[c] = CallTag[current[r]]})
      BY FS_Subset
    <3>. QED
      BY <3>1, FS_CardinalityType DEF SfnFactor
  <2>. QED
    BY <1>5, <2>1 DEF WgAdd
<1>6. ASSUME NEW r \in Requests, WgWait(r) PROVE TypeOK'
  BY <1>6 DEF WgWait
<1>7. ASSUME NEW r \in Requests, NEW k \in Calls,
             RouteCall(r, k) \/ LoseCall(r, k)
      PROVE  TypeOK'
  <2>1. \A c \in Conns : Msg(r, k, c) \in Messages
    BY DEF Msg, Messages
  <2>2. {Msg(r, k, c) : c \in Observers(CallTag[k])} \subseteq Messages
    BY <2>1 DEF Observers
  <2>. QED
    BY <1>7, <2>2 DEF RouteCall, LoseCall
<1>8. ASSUME NEW m \in Messages, LoseAnswer(m) \/ SfnSilent(m)
      PROVE  TypeOK'
  BY <1>8 DEF LoseAnswer, SfnSilent
<1>9. ASSUME NEW m \in Messages, Reduce(m)
      PROVE  TypeOK'
  <2>1. m.req \in Requests /\ m.call \in Calls
    BY DEF Messages
  <2>. QED
    BY <1>9, <2>1 DEF Reduce
<1>10. ASSUME NEW c \in Conns, Connected(c) \/ Registered(c) \/ Died(c)
              \/ Unregistered(c) \/ Removed(c)
       PROVE  TypeOK'
  BY <1>10 DEF Connected, Registered, Died, Unregistered, Removed,
               RegisterFunction, UnregisterFunction
<1>. QED
  BY <1>1, <1>2, <1>3, <1>4, <1>5, <1>6, <1>7, <1>8, <1>9, <1>10
     DEF Next, runFunctionCalls

LEMMA RegisterStep ==
  ASSUME TypeOK, RegisterInv, Next
  PROVE  RegisterInv'
<1>. USE FunctionCallingAssumption DEF TypeOK, RegisterTypeOK, RegisterInv
<1>1. CASE UNCHANGED connVars
  BY <1>1 DEF connVars
<1>2. ASSUME NEW c \in Conns, Connected(c) \/ Registered(c) \/ Died(c)
             \/ Unregistered(c) \/ Removed(c)
      PROVE  RegisterInv'
  BY <1>2 DEF Connected, Registered, Died, Unregistered, Removed,
              RegisterFunction, UnregisterFunction
<1>. QED
  BY <1>1, <1>2
     DEF Next, runFunctionCalls, GetTools, LLMAnswers, fireLlmSfn, FireFails,
         WgAdd, WgWait, RouteCall, LoseCall, LoseAnswer, SfnSilent, Reduce

\* A stable function is seen alike by the router and by the register.
LEMMA StableObservers ==
  ASSUME TypeOK, RegisterInv, NEW k \in Calls, StableCall(k)
  PROVE  /\ Observers(CallTag[k]) = {c \in Conns : TagOf[c] = CallTag[k]}
         /\ SfnFactor(CallTag[k]) = Factor(k)
<1>. USE FunctionCallingAssumption, DomainAssumption
<1>1. Observers(CallTag[k]) = {c \in Conns : TagOf[c] = CallTag[k]}
  BY DEF Observers, StableCall, RegisterInv, TypeOK
<1>2. {c \in Conns : functions[c] = CallTag[k]}
        = {c \in Conns : TagOf[c] = CallTag[k]}
  BY DEF StableCall, RegisterInv
<1>. QED
  BY <1>1, <1>2 DEF SfnFactor, Factor

LEMMA FiredStep ==
  ASSUME TypeOK, FiredInv, Isolated, Next
  PROVE  FiredInv' /\ Isolated'
<1>. USE FunctionCallingAssumption
<1>. USE DEF TypeOK, FiredInv, Isolated, connVars, requestVars, networkVars
<1>1. ASSUME NEW r \in Requests, GetTools(r) \/ WgAdd(r) \/ WgWait(r)
      PROVE  FiredInv' /\ Isolated'
  BY <1>1 DEF GetTools, WgAdd, WgWait
<1>2. ASSUME NEW r \in Requests, NEW calls \in SUBSET Calls,
             LLMAnswers(r, calls)
      PROVE  FiredInv' /\ Isolated'
  BY <1>2 DEF LLMAnswers
<1>3. ASSUME NEW r \in Requests, NEW k \in Calls, fireLlmSfn(r, k)
      PROVE  FiredInv' /\ Isolated'
  <2>1. \A q \in Requests : fired[q] \subseteq fired'[q]
    BY <1>3 DEF fireLlmSfn
  <2>2. k \notin fired[r] /\ k \in fired'[r]
    BY <1>3 DEF fireLlmSfn
  <2>3. \A m \in answers \union lost :
           m.req \in Requests /\ m.call \in Calls /\ <<m.req, m.call>> # <<r, k>>
    <3>. TAKE m \in answers \union lost
    <3>1. m \in Messages /\ m.call \in fired[m.req]
      OBVIOUS
    <3>2. m.req \in Requests /\ m.call \in Calls
      BY <3>1 DEF Messages
    <3>. QED
      BY <2>2, <3>1, <3>2
  <2>4. \A q \in Requests :
          /\ wanted'[q] \intersect fired'[q] = {}
          /\ pc'[q] \in {"idle", "llm"} => fired'[q] = {}
          /\ pc'[q] \in {"idle", "llm", "returned"} => wanted'[q] = {}
          /\ pc'[q] = "add" => current'[q] \in fired'[q]
          /\ \A j \in Calls : <<q, j>> \in sent' => j \in fired'[q]
    BY <1>3 DEF fireLlmSfn
  <2>5. \A m \in answers' \union lost' :
          /\ m.call \in fired'[m.req]
          /\ TagOf[m.conn] = CallTag[m.call]
          /\ <<m.req, m.call>> \notin sent'
    BY <1>3, <2>1, <2>3 DEF fireLlmSfn
  <2>6. Isolated' /\ answers' \intersect lost' = {}
    BY <1>3, <2>1 DEF fireLlmSfn
  <2>. QED
    BY <2>4, <2>5, <2>6
<1>4. ASSUME NEW r \in Requests, NEW k \in Calls, FireFails(r, k)
      PROVE  FiredInv' /\ Isolated'
  BY <1>4 DEF FireFails
<1>5. ASSUME NEW r \in Requests, NEW k \in Calls,
             RouteCall(r, k) \/ LoseCall(r, k)
      PROVE  FiredInv' /\ Isolated'
  <2>. DEFINE new == {Msg(r, k, c) : c \in Observers(CallTag[k])}
  <2>1. \A m \in new : /\ m.req = r /\ m.call = k
                       /\ TagOf[m.conn] = CallTag[k]
    BY DEF Msg, Observers
  <2>2. /\ <<r, k>> \in sent /\ sent' = sent \ {<<r, k>>}
        /\ \/ answers' = answers \union new /\ lost' = lost
           \/ answers' = answers /\ lost' = lost \union new
        /\ UNCHANGED <<requestVars, val>>
    BY <1>5 DEF RouteCall, LoseCall
  <2>. HIDE DEF new
  <2>3. k \in fired[r] /\ \A m \in answers \union lost :
                             m \notin new /\ <<m.req, m.call>> \notin sent'
    BY <2>1, <2>2
  <2>. QED
    BY <2>1, <2>2, <2>3
<1>6. ASSUME NEW m \in Messages, LoseAnswer(m) \/ SfnSilent(m)
      PROVE  FiredInv' /\ Isolated'
  BY <1>6 DEF LoseAnswer, SfnSilent
<1>7. ASSUME NEW m \in Messages, Reduce(m)
      PROVE  FiredInv' /\ Isolated'
  <2>1. m.req \in Requests /\ m.call \in fired[m.req]
    BY <1>7 DEF Messages, Reduce
  <2>. QED
    BY <1>7, <2>1 DEF Reduce
<1>8. ASSUME NEW c \in Conns, Connected(c) \/ Registered(c) \/ Died(c)
             \/ Unregistered(c) \/ Removed(c)
      PROVE  FiredInv' /\ Isolated'
  BY <1>8 DEF Connected, Registered, Died, Unregistered, Removed
<1>. QED
  BY <1>1, <1>2, <1>3, <1>4, <1>5, <1>6, <1>7, <1>8 DEF Next, runFunctionCalls

LEMMA ServedStep ==
  ASSUME TypeOK, RegisterInv, FiredInv, ServedInv, Next
  PROVE  ServedInv'
<1>. USE FunctionCallingAssumption, DomainAssumption
<1>. USE DEF TypeOK, ServedInv, connVars, requestVars, networkVars
<1>1. ASSUME NEW r \in Requests, GetTools(r)
      PROVE  ServedInv'
  <2>1. wanted[r] = {} /\ fired[r] = {}
    BY <1>1 DEF GetTools, FiredInv
  <2>2. \A t \in ListToolCalls : \E c \in Conns : TagOf[c] = t
    BY DEF ListToolCalls, RegisterInv
  <2>. HIDE DEF ListToolCalls
  <2>. QED
    BY <1>1, <2>1, <2>2 DEF GetTools
<1>2. ASSUME NEW r \in Requests, NEW calls \in SUBSET Calls,
             LLMAnswers(r, calls)
      PROVE  ServedInv'
  BY <1>2 DEF LLMAnswers, FiredInv
<1>3. ASSUME NEW r \in Requests, NEW k \in Calls, fireLlmSfn(r, k)
      PROVE  ServedInv'
  BY <1>3 DEF fireLlmSfn
<1>4. ASSUME NEW r \in Requests, NEW k \in Calls, FireFails(r, k)
      PROVE  ServedInv'
  BY <1>4 DEF FireFails
<1>5. ASSUME NEW r \in Requests, WgAdd(r) \/ WgWait(r)
      PROVE  ServedInv'
  BY <1>5 DEF WgAdd, WgWait
<1>6. ASSUME NEW r \in Requests, NEW k \in Calls,
             RouteCall(r, k) \/ LoseCall(r, k)
      PROVE  ServedInv'
  <2>. DEFINE new == {Msg(r, k, c) : c \in Observers(CallTag[k])}
  <2>1. /\ <<r, k>> \in sent /\ sent' = sent \ {<<r, k>>}
        /\ answers' \union lost' = answers \union lost \union new
        /\ UNCHANGED <<requestVars, val>>
    BY <1>6 DEF RouteCall, LoseCall
  <2>2. StableCall(k) => \E m \in new : m.req = r /\ m.call = k
    <3>1. PICK c \in Conns : TagOf[c] = CallTag[k]
      BY <2>1 DEF FiredInv
    <3>2. ASSUME StableCall(k) PROVE Msg(r, k, c) \in new
      BY <3>1, <3>2, StableObservers
    <3>. QED
      BY <3>2 DEF Msg
  <2>. HIDE DEF new
  <2>. QED
    BY <2>1, <2>2
<1>7. ASSUME NEW m \in Messages, LoseAnswer(m)
      PROVE  ServedInv'
  BY <1>7 DEF LoseAnswer
<1>8. ASSUME NEW m \in Messages, SfnSilent(m)
      PROVE  ServedInv'
  <2>1. ~StableCall(m.call) /\ m.call \in fired[m.req]
    BY <1>8 DEF SfnSilent, FiredInv, StableCall, Messages
  <2>. QED
    BY <1>8, <2>1 DEF SfnSilent
<1>9. ASSUME NEW m \in Messages, Reduce(m)
      PROVE  ServedInv'
  <2>1. m.req \in Requests
    BY DEF Messages
  <2>. QED
    BY <1>9, <2>1 DEF Reduce
<1>10. ASSUME NEW c \in Conns, Connected(c) \/ Registered(c) \/ Died(c)
              \/ Unregistered(c) \/ Removed(c)
       PROVE  ServedInv'
  BY <1>10 DEF Connected, Registered, Died, Unregistered, Removed
<1>. QED
  BY <1>1, <1>2, <1>3, <1>4, <1>5, <1>6, <1>7, <1>8, <1>9, <1>10
     DEF Next, runFunctionCalls

-----------------------------------------------------------------------------
(***************************************************************************)
(* Counting.                                                               *)
(***************************************************************************)

\* What is due is finite.
LEMMA DueFinite ==
  ASSUME NEW r
  PROVE  IsFiniteSet(DuePairs(r)) /\ Cardinality(DuePairs(r)) \in Nat
<1>1. IsFiniteSet(Calls \X Conns)
  BY FunctionCallingAssumption, FS_Product
<1>2. DuePairs(r) \subseteq Calls \X Conns
  BY DEF DuePairs
<1>3. IsFiniteSet(DuePairs(r))
  BY <1>1, <1>2, FS_Subset
<1>. QED
  BY <1>3, FS_CardinalityType

\* As many pairs of one call as connections.
LEMMA PairsOfCall ==
  ASSUME NEW k, NEW S, IsFiniteSet(S)
  PROVE  /\ IsFiniteSet({k} \X S)
         /\ Cardinality({k} \X S) = Cardinality(S)
<1>1. IsFiniteSet({k}) /\ Cardinality({k}) = 1
  BY FS_Singleton
<1>2. Cardinality(S) \in Nat
  BY FS_CardinalityType
<1>3. IsFiniteSet({k} \X S) /\ Cardinality({k} \X S) = 1 * Cardinality(S)
  BY <1>1, FS_Product
<1>. QED
  BY <1>2, <1>3

\* The size of a union of disjoint sets.
LEMMA DisjointUnion ==
  ASSUME NEW S, NEW T, IsFiniteSet(S), IsFiniteSet(T), S \intersect T = {}
  PROVE  Cardinality(S \union T) = Cardinality(S) + Cardinality(T)
<1>1. Cardinality(S) \in Nat /\ Cardinality(T) \in Nat
  BY FS_CardinalityType
<1>2. Cardinality(S \intersect T) = 0
  BY FS_EmptySet
<1>3. Cardinality(S \union T)
        = Cardinality(S) + Cardinality(T) - Cardinality(S \intersect T)
  BY FS_Union
<1>. QED
  BY <1>1, <1>2, <1>3

\* A message is its parts.
LEMMA MessageParts ==
  /\ \A m \in Messages : /\ m = Msg(m.req, m.call, m.conn)
                         /\ m.req \in Requests /\ m.call \in Calls
                         /\ m.conn \in Conns
  /\ \A r \in Requests, k \in Calls, c \in Conns :
        /\ Msg(r, k, c) \in Messages
        /\ Msg(r, k, c).req = r /\ Msg(r, k, c).call = k /\ Msg(r, k, c).conn = c
BY DEF Messages, Msg

\* The router's view of a stable function does not change.
LEMMA ObserversStay ==
  ASSUME TypeOK, RegisterInv, TypeOK', RegisterInv',
         NEW k \in Calls, StableCall(k)
  PROVE  /\ Observers(CallTag[k]) = {c \in Conns : TagOf[c] = CallTag[k]}
         /\ Observers(CallTag[k])' = {c \in Conns : TagOf[c] = CallTag[k]}
<1>1. Observers(CallTag[k])' = {c \in Conns : TagOf[c] = CallTag[k]}
  BY FunctionCallingAssumption DEF Observers, StableCall, RegisterInv, TypeOK
<1>. QED
  BY <1>1, StableObservers

\* The answers due to a request all of whose calls are to stable functions, in
\* terms that no connection coming or going changes.
Settled(r) ==
    {p \in Calls \X Conns :
        \/ Msg(r, p[1], p[2]) \in answers \union lost
        \/ <<r, p[1]>> \in sent /\ TagOf[p[2]] = CallTag[p[1]]}

LEMMA DueOfStable ==
  ASSUME TypeOK, RegisterInv, FiredInv, TypeOK', RegisterInv', FiredInv',
         NEW r \in Requests,
         fired[r] \subseteq fired'[r], \A k \in fired'[r] : StableCall(k)
  PROVE  DuePairs(r) = Settled(r) /\ DuePairs(r)' = Settled(r)'
<1>1. ASSUME NEW p \in Calls \X Conns, <<r, p[1]>> \in sent \/ <<r, p[1]>> \in sent'
      PROVE  /\ p[2] \in Observers(CallTag[p[1]]) <=> TagOf[p[2]] = CallTag[p[1]]
             /\ p[2] \in Observers(CallTag[p[1]])' <=> TagOf[p[2]] = CallTag[p[1]]
  <2>1. p[1] \in Calls /\ p[2] \in Conns
    OBVIOUS
  <2>2. StableCall(p[1])
    BY <1>1, <2>1 DEF FiredInv
  <2>. QED
    BY <2>1, <2>2, ObserversStay
<1>2. DuePairs(r) = Settled(r)
  BY <1>1 DEF DuePairs, Settled
<1>3. DuePairs(r)' = Settled(r)'
  BY <1>1 DEF DuePairs, Settled
<1>. QED
  BY <1>2, <1>3

LEMMA CountStep ==
  ASSUME TypeOK, RegisterInv, FiredInv, CountInv, Next,
         TypeOK', RegisterInv', FiredInv'
  PROVE  CountInv'
<1>. USE FunctionCallingAssumption
<1>. SUFFICES ASSUME NEW r \in Requests, \A k \in fired'[r] : StableCall(k)
              PROVE  wg'[r] = Cardinality(DuePairs(r)')
                       - (IF pc'[r] = "add" THEN Factor(current[r])' ELSE 0)
  BY DEF CountInv
<1>0. fired[r] \subseteq fired'[r]
  <2>1. ASSUME NEW q \in Requests, NEW k \in Calls, fireLlmSfn(q, k)
        PROVE  fired[r] \subseteq fired'[r]
    BY <2>1 DEF fireLlmSfn, TypeOK
  <2>2. CASE fired' = fired
    BY <2>2
  <2>. QED
    BY <2>1, <2>2
       DEF Next, runFunctionCalls, GetTools, LLMAnswers, FireFails, WgAdd,
           WgWait, RouteCall, LoseCall, LoseAnswer, SfnSilent, Reduce, Connected,
           Registered, Died, Unregistered, Removed, requestVars
<1>1. /\ DuePairs(r) = Settled(r) /\ DuePairs(r)' = Settled(r)'
      /\ Cardinality(DuePairs(r)) \in Nat /\ IsFiniteSet(DuePairs(r))
  BY <1>0, DueOfStable, DueFinite
<1>2. ASSUME NEW k \in Calls, k \in fired'[r]
      PROVE  /\ Observers(CallTag[k]) = {c \in Conns : TagOf[c] = CallTag[k]}
             /\ Factor(k)' = Factor(k) /\ Factor(k) = SfnFactor(CallTag[k])
             /\ Factor(k) \in Nat /\ IsFiniteSet(Observers(CallTag[k]))
  <2>1. StableCall(k)
    BY <1>2
  <2>2. /\ Observers(CallTag[k]) = {c \in Conns : TagOf[c] = CallTag[k]}
        /\ Observers(CallTag[k])' = {c \in Conns : TagOf[c] = CallTag[k]}
    BY <2>1, ObserversStay
  <2>3. IsFiniteSet(Observers(CallTag[k]))
    BY <2>2, FS_Subset
  <2>. QED
    BY <2>1, <2>2, <2>3, StableObservers, FS_CardinalityType DEF Factor
<1>3. wg[r] = Cardinality(DuePairs(r))
                - (IF pc[r] = "add" THEN Factor(current[r]) ELSE 0)
  BY <1>0 DEF CountInv
\* Steps that neither add nor take an answer due to r, nor count one.
<1>4. ASSUME Settled(r)' = Settled(r), wg'[r] = wg[r],
             pc[r] = "add" <=> pc'[r] = "add", current'[r] = current[r]
      PROVE  wg'[r] = Cardinality(DuePairs(r)')
                       - (IF pc'[r] = "add" THEN Factor(current[r])' ELSE 0)
  <2>1. CASE pc[r] = "add"
    <3>1. current[r] \in Calls /\ current[r] \in fired'[r]
      BY <1>0, <1>4, <2>1 DEF FiredInv, TypeOK
    <3>2. PICK k \in Calls : k = current[r]
      BY <3>1
    <3>3. Factor(current[r])' = Factor(k)' /\ Factor(current[r]) = Factor(k)
      BY <1>4, <3>2 DEF Factor, Observers
    <3>. QED
      BY <1>1, <1>2, <1>3, <1>4, <2>1, <3>1, <3>2, <3>3
  <2>2. CASE pc[r] # "add"
    BY <1>1, <1>3, <1>4, <2>2
  <2>. QED
    BY <2>1, <2>2
<1>. DEFINE Goal == wg'[r] = Cardinality(DuePairs(r)')
                       - (IF pc'[r] = "add" THEN Factor(current[r])' ELSE 0)
<1>. USE DEF connVars, requestVars, networkVars
<1>5. ASSUME NEW q \in Requests, GetTools(q) \/ WgWait(q) PROVE Goal
  BY <1>4, <1>5 DEF GetTools, WgWait, Settled, TypeOK
<1>6. ASSUME NEW q \in Requests, NEW calls \in SUBSET Calls,
             LLMAnswers(q, calls)
      PROVE  Goal
  BY <1>4, <1>6 DEF LLMAnswers, Settled, TypeOK
<1>7. ASSUME NEW q \in Requests, NEW k \in Calls, FireFails(q, k) PROVE Goal
  BY <1>4, <1>7 DEF FireFails, Settled
<1>8. ASSUME NEW q \in Requests, NEW k \in Calls, fireLlmSfn(q, k) PROVE Goal
  <2>1. CASE q # r
    BY <1>4, <1>8, <2>1 DEF fireLlmSfn, Settled, TypeOK
  <2>2. CASE q = r
    <3>. DEFINE O == Observers(CallTag[k])
    <3>1. /\ pc[r] = "fire" /\ pc'[r] = "add" /\ current'[r] = k
          /\ wg' = wg /\ sent' = sent \union {<<r, k>>}
          /\ UNCHANGED <<answers, lost>> /\ k \in fired'[r] /\ k \notin fired[r]
      BY <1>8, <2>2 DEF fireLlmSfn, TypeOK, FiredInv
    <3>2. O = {c \in Conns : TagOf[c] = CallTag[k]} /\ Factor(k) = Cardinality(O)
      BY <1>2, <3>1 DEF Factor
    <3>3. \A c \in Conns : Msg(r, k, c) \notin answers \union lost
      <4>1. \A m \in answers \union lost : m.req = r => m.call # k
        BY <3>1 DEF FiredInv
      <4>. QED
        BY <4>1, MessageParts
    <3>4. <<r, k>> \notin sent
      BY <3>1 DEF FiredInv
    <3>5. Settled(r)' = Settled(r) \union ({k} \X O)
      BY <3>1, <3>2 DEF Settled
    <3>6. Settled(r) \intersect ({k} \X O) = {}
      BY <3>2, <3>3, <3>4 DEF Settled
    <3>7. IsFiniteSet({k} \X O) /\ Cardinality({k} \X O) = Cardinality(O)
      BY <1>2, <3>1, PairsOfCall
    <3>8. Cardinality(DuePairs(r)') = Cardinality(DuePairs(r)) + Factor(k)
      BY <1>1, <3>2, <3>5, <3>6, <3>7, DisjointUnion
    <3>9. Factor(current[r])' = Factor(k) /\ Factor(k) \in Nat
      BY <1>2, <3>1 DEF Factor, Observers
    <3>. QED
      BY <1>1, <1>3, <3>1, <3>8, <3>9
  <2>. QED
    BY <2>1, <2>2
<1>9. ASSUME NEW q \in Requests, WgAdd(q) PROVE Goal
  <2>1. CASE q # r
    BY <1>4, <1>9, <2>1 DEF WgAdd, Settled, TypeOK
  <2>2. CASE q = r
    <3>1. /\ pc[r] = "add" /\ pc'[r] = "fire"
          /\ wg'[r] = wg[r] + SfnFactor(CallTag[current[r]])
          /\ Settled(r)' = Settled(r)
      BY <1>9, <2>2 DEF WgAdd, TypeOK, Settled
    <3>2. current[r] \in Calls /\ current[r] \in fired'[r]
      BY <1>0, <3>1 DEF FiredInv, TypeOK
    <3>3. PICK k \in Calls : k = current[r]
      BY <3>2
    <3>4. /\ Factor(current[r]) = SfnFactor(CallTag[current[r]])
          /\ Factor(current[r]) \in Nat
      BY <1>2, <3>2, <3>3
    <3>. QED
      BY <1>1, <1>3, <3>1, <3>4
  <2>. QED
    BY <2>1, <2>2
<1>10. ASSUME NEW q \in Requests, NEW k \in Calls,
              RouteCall(q, k) \/ LoseCall(q, k)
       PROVE  Goal
  <2>1. /\ sent' = sent \ {<<q, k>>} /\ <<q, k>> \in sent
        /\ answers' \union lost' = answers \union lost
                \union {Msg(q, k, c) : c \in Observers(CallTag[k])}
        /\ UNCHANGED <<requestVars, wg>>
    BY <1>10 DEF RouteCall, LoseCall
  <2>2. Settled(r)' = Settled(r)
    <3>1. CASE q # r
      <4>1. \A c \in live, p \in Calls \X Conns :
                Msg(q, k, c) # Msg(r, p[1], p[2])
        <5>. TAKE c \in live, p \in Calls \X Conns
        <5>1. c \in Conns /\ p[1] \in Calls /\ p[2] \in Conns
          BY DEF TypeOK
        <5>2. Msg(q, k, c).req = q /\ Msg(r, p[1], p[2]).req = r
          BY <5>1, MessageParts
        <5>. QED
          BY <3>1, <5>2
      <4>. QED
        BY <2>1, <3>1, <4>1 DEF Settled, Observers
    <3>2. CASE q = r
      <4>1. Observers(CallTag[k]) = {c \in Conns : TagOf[c] = CallTag[k]}
        BY <1>2, <2>1, <3>2 DEF FiredInv
      <4>2. ASSUME NEW p \in Calls \X Conns
            PROVE  Msg(r, p[1], p[2]) \in {Msg(q, k, c) : c \in Observers(CallTag[k])}
                     <=> p[1] = k /\ TagOf[p[2]] = CallTag[k]
        <5>1. p[1] \in Calls /\ p[2] \in Conns
          OBVIOUS
        <5>. QED
          BY <3>2, <4>1, <5>1, MessageParts
      <4>. QED
        BY <2>1, <3>2, <4>2 DEF Settled
    <3>. QED
      BY <3>1, <3>2
  <2>. QED
    BY <1>4, <2>1, <2>2
<1>11. ASSUME NEW m \in Messages, LoseAnswer(m) PROVE Goal
  BY <1>4, <1>11 DEF LoseAnswer, Settled
\* An unstable function does not answer: it is none of r.
<1>12. ASSUME lost' = lost, sent' = sent, UNCHANGED <<requestVars, wg>>,
              answers' \subseteq answers, \A m \in answers \ answers' : m.conn \notin Stable
       PROVE  Goal
  <2>1. ASSUME NEW p \in Calls \X Conns, Msg(r, p[1], p[2]) \in answers
        PROVE  Msg(r, p[1], p[2]) \in answers'
    <3>1. p[1] \in Calls /\ p[2] \in Conns
      OBVIOUS
    <3>2. p[1] \in fired[r] /\ TagOf[p[2]] = CallTag[p[1]]
      <4>. DEFINE m == Msg(r, p[1], p[2])
      <4>1. m.req = r /\ m.call = p[1] /\ m.conn = p[2]
        BY <3>1, MessageParts
      <4>2. m.call \in fired[m.req] /\ TagOf[m.conn] = CallTag[m.call]
        BY <2>1 DEF FiredInv
      <4>. QED
        BY <4>1, <4>2
    <3>3. p[2] \in Stable
      BY <1>0, <3>1, <3>2 DEF StableCall
    <3>. QED
      BY <1>12, <2>1, <3>1, <3>3, MessageParts
  <2>2. Settled(r)' = Settled(r)
    BY <1>12, <2>1 DEF Settled
  <2>. QED
    BY <1>4, <1>12, <2>2
<1>13. ASSUME NEW m \in Messages, SfnSilent(m) PROVE Goal
  BY <1>12, <1>13 DEF SfnSilent
<1>14. ASSUME NEW m \in Messages, Reduce(m) PROVE Goal
  <2>1. /\ m \in answers /\ m \notin lost /\ answers' = answers \ {m}
        /\ wg' = [wg EXCEPT ![m.req] = wg[m.req] - 1]
        /\ UNCHANGED <<requestVars, sent, lost>>
        /\ <<m.req, m.call>> \notin sent
    BY <1>14 DEF Reduce, FiredInv
  <2>2. CASE m.req # r
    <3>1. \A p \in Calls \X Conns : Msg(r, p[1], p[2]) # m
      BY <2>2, MessageParts
    <3>2. Settled(r)' = Settled(r)
      BY <2>1, <3>1 DEF Settled
    <3>. QED
      BY <1>4, <2>1, <2>2, <3>2 DEF TypeOK
  <2>3. CASE m.req = r
    <3>. DEFINE x == <<m.call, m.conn>>
    <3>1. x \in Calls \X Conns /\ Msg(r, x[1], x[2]) = m
      BY <2>3, MessageParts
    <3>2. \A p \in Calls \X Conns : Msg(r, p[1], p[2]) = m <=> p = x
      BY <2>3, MessageParts
    <3>3. x[1] = m.call
      OBVIOUS
    <3>. HIDE DEF x
    <3>4. x \in Settled(r) /\ Settled(r)' = Settled(r) \ {x}
      BY <2>1, <2>3, <3>1, <3>2, <3>3 DEF Settled
    <3>5. Cardinality(DuePairs(r)') = Cardinality(DuePairs(r)) - 1
      <4>1. x \in DuePairs(r) /\ DuePairs(r)' = DuePairs(r) \ {x}
        BY <1>1, <3>4
      <4>. QED
        BY <1>1, <4>1, FS_RemoveElement
    <3>6. wg'[r] = wg[r] - 1
      BY <2>1, <2>3 DEF TypeOK
    <3>7. CASE pc[r] # "add"
      BY <1>1, <1>3, <2>1, <3>5, <3>6, <3>7
    <3>8. CASE pc[r] = "add"
      <4>1. current[r] \in Calls /\ current[r] \in fired'[r]
        BY <1>0, <3>8 DEF FiredInv, TypeOK
      <4>2. PICK k \in Calls : k = current[r]
        BY <4>1
      <4>3. Factor(current[r])' = Factor(k)' /\ Factor(current[r]) = Factor(k)
        BY <2>1, <4>2 DEF Factor, Observers
      <4>. QED
        BY <1>1, <1>2, <1>3, <2>1, <3>5, <3>6, <3>8, <4>1, <4>2, <4>3
    <3>. QED
      BY <3>7, <3>8
  <2>. QED
    BY <2>2, <2>3
<1>15. ASSUME NEW c \in Conns, Connected(c) \/ Registered(c) \/ Died(c)
              \/ Unregistered(c) \/ Removed(c)
       PROVE  Goal
  BY <1>4, <1>15 DEF Connected, Registered, Died, Unregistered, Removed, Settled
<1>. QED
  BY <1>5, <1>6, <1>7, <1>8, <1>9, <1>10, <1>11, <1>13, <1>14, <1>15
     DEF Next, runFunctionCalls

\* When wg.Wait returns nothing is due, so that every call has its result.
LEMMA WaitMeansAll ==
  ASSUME TypeOK, RegisterInv, FiredInv, Isolated, ServedInv, CountInv,
         NEW r \in Requests, WgWait(r), \A k \in fired[r] : StableCall(k)
  PROVE  fired[r] = val[r]
<1>. USE FunctionCallingAssumption
<1>1. DuePairs(r) = {}
  <2>1. wg[r] = 0 /\ pc[r] = "fire"
    BY DEF WgWait
  <2>2. Cardinality(DuePairs(r)) = 0
    BY <2>1, DueFinite DEF CountInv
  <2>. QED
    BY <2>2, DueFinite, FS_EmptySet
<1>2. ASSUME NEW k \in fired[r] PROVE k \in val[r]
  <2>0. k \in Calls /\ StableCall(k)
    BY DEF TypeOK
  <2>1. <<r, k>> \notin sent
    <3>1. PICK c \in Conns : TagOf[c] = CallTag[k]
      BY DEF ServedInv
    <3>2. c \in Observers(CallTag[k])
      BY <2>0, <3>1, StableObservers
    <3>3. <<k, c>> \notin DuePairs(r)
      BY <1>1
    <3>. QED
      BY <2>0, <3>2, <3>3 DEF DuePairs
  <2>2. ASSUME NEW m \in answers \union lost, m.req = r, m.call = k
        PROVE  FALSE
    <3>1. m \in Messages
      BY DEF TypeOK
    <3>2. m.conn \in Conns /\ Msg(r, k, m.conn) = m
      BY <2>2, <3>1, MessageParts
    <3>3. <<k, m.conn>> \notin DuePairs(r)
      BY <1>1
    <3>. QED
      BY <2>0, <3>2, <3>3 DEF DuePairs
  <2>. QED
    BY <2>0, <2>1, <2>2 DEF ServedInv
<1>. QED
  BY <1>2 DEF Isolated

LEMMA AggregateStep ==
  ASSUME CallingInv, Next, Isolated'
  PROVE  AggregatesAll'
<1>. USE FunctionCallingAssumption
<1>. SUFFICES ASSUME NEW r \in Requests, pc'[r] = "returned", OnlyStable(r)'
              PROVE  fired'[r] = val'[r]
  BY DEF AggregatesAll
<1>1. TypeOK /\ RegisterInv /\ FiredInv /\ Isolated /\ ServedInv /\ CountInv
      /\ AggregatesAll
  BY DEF CallingInv
<1>. USE DEF connVars, requestVars, networkVars
<1>2. CASE pc[r] = "returned"
  <2>1. fired'[r] = fired[r] /\ wanted'[r] = wanted[r] /\ val[r] \subseteq val'[r]
    <3>1. ASSUME NEW q \in Requests, runFunctionCalls(q)
          PROVE  /\ fired'[r] = fired[r] /\ wanted'[r] = wanted[r]
                 /\ val[r] \subseteq val'[r]
      <4>1. q # r
        BY <1>2, <3>1 DEF runFunctionCalls, GetTools, LLMAnswers, fireLlmSfn,
                          FireFails, WgAdd, WgWait
      <4>. QED
        BY <1>1, <3>1, <4>1
           DEF TypeOK, runFunctionCalls, GetTools, LLMAnswers, fireLlmSfn,
               FireFails, WgAdd, WgWait
    <3>2. ASSUME NEW m \in Messages, Reduce(m)
          PROVE  /\ fired'[r] = fired[r] /\ wanted'[r] = wanted[r]
                 /\ val[r] \subseteq val'[r]
      BY <1>1, <3>2 DEF Reduce, TypeOK
    <3>3. CASE UNCHANGED <<requestVars, val>>
      BY <3>3
    <3>. QED
      BY <3>1, <3>2, <3>3
         DEF Next, RouteCall, LoseCall, LoseAnswer, SfnSilent, Connected, Registered,
             Died, Unregistered, Removed
  <2>2. OnlyStable(r)
    BY <2>1 DEF OnlyStable
  <2>. QED
    BY <1>1, <1>2, <2>1, <2>2 DEF AggregatesAll, Isolated
<1>3. CASE pc[r] # "returned"
  <2>1. CASE \E calls \in SUBSET Calls : LLMAnswers(r, calls)
    <3>1. fired'[r] = {} /\ val'[r] = {}
      BY <1>1, <2>1 DEF LLMAnswers, FiredInv, Isolated
    <3>. QED
      BY <3>1
  <2>2. CASE WgWait(r)
    <3>1. UNCHANGED <<fired, wanted, val>>
      BY <2>2 DEF WgWait
    <3>2. \A k \in fired[r] : StableCall(k)
      BY <3>1 DEF OnlyStable, StableCall
    <3>. QED
      BY <1>1, <2>2, <3>1, <3>2, WaitMeansAll
  <2>3. ASSUME NEW q \in Requests, runFunctionCalls(q)
        PROVE  (\E calls \in SUBSET Calls : LLMAnswers(r, calls)) \/ WgWait(r)
    <3>1. pc' # pc /\ (q # r => pc'[r] = pc[r])
      BY <1>1, <1>3, <2>3
         DEF TypeOK, runFunctionCalls, GetTools, LLMAnswers, fireLlmSfn,
             FireFails, WgAdd, WgWait
    <3>2. q = r
      BY <1>3, <3>1
    <3>3. /\ ~GetTools(r) /\ ~WgAdd(r)
          /\ \A k \in Calls : ~fireLlmSfn(r, k) /\ ~FireFails(r, k)
      BY <1>1, <1>3 DEF TypeOK, GetTools, WgAdd, fireLlmSfn, FireFails
    <3>. QED
      BY <2>3, <3>2, <3>3 DEF runFunctionCalls
  <2>4. \E q \in Requests : runFunctionCalls(q)
    BY <1>3
       DEF Next, RouteCall, LoseCall, LoseAnswer, SfnSilent, Reduce, Connected,
           Registered, Died, Unregistered, Removed
  <2>. QED
    BY <2>1, <2>2, <2>3, <2>4
<1>. QED
  BY <1>2, <1>3

LEMMA CallingInit == Init => CallingInv
<1>. SUFFICES ASSUME Init PROVE CallingInv
  OBVIOUS
<1>. USE FunctionCallingAssumption DEF Init
<1>1. TypeOK
  <2>1. /\ RegisterTypeOK
        /\ stage \in [Conns -> {"out", "routed", "registered", "leaving"}]
        /\ live \subseteq Conns
    BY DEF RegisterTypeOK
  <2>2. /\ pc \in [Requests -> {"idle", "llm", "fire", "add", "returned"}]
        /\ tools \in [Requests -> SUBSET Tags]
        /\ wanted \in [Requests -> SUBSET Calls]
        /\ current \in [Requests -> Calls \union {NoCall}]
        /\ fired \in [Requests -> SUBSET Calls]
    OBVIOUS
  <2>3. wg \in [Requests -> Int] /\ val \in [Requests -> SUBSET Calls]
    OBVIOUS
  <2>4. panicked \in BOOLEAN
    BY Zenon
  <2>5. /\ sent \subseteq Requests \X Calls
        /\ answers \subseteq Messages
        /\ lost \subseteq Messages
    OBVIOUS
  <2>. QED
    BY <2>1, <2>2, <2>3, <2>4, <2>5 DEF TypeOK
<1>2. RegisterInv /\ FiredInv /\ Isolated /\ AggregatesAll
  BY DEF RegisterInv, FiredInv, Isolated, AggregatesAll
<1>3. ServedInv
  BY DEF ServedInv
<1>4. CountInv
  <2>1. \A r \in Requests : Cardinality(DuePairs(r)) = 0
    <3>1. \A r \in Requests : DuePairs(r) = {}
      BY DEF DuePairs
    <3>. QED
      BY <3>1, FS_EmptySet
  <2>2. \A r \in Requests : wg[r] = 0 /\ pc[r] # "add"
    OBVIOUS
  <2>. QED
    BY <2>1, <2>2 DEF CountInv
<1>. QED
  BY <1>1, <1>2, <1>3, <1>4 DEF CallingInv

\* The invariant of function calling: the register agrees with the handlers, a
\* call is fired once and accounted for, and the WaitGroup counts what is due.
THEOREM Calling == Spec => []CallingInv
<1>1. CallingInv /\ [Next]_vars => CallingInv'
  <2>1. ASSUME CallingInv, Next PROVE CallingInv'
    <3>1. TypeOK /\ RegisterInv /\ FiredInv /\ Isolated /\ ServedInv /\ CountInv
      BY <2>1 DEF CallingInv
    <3>2. TypeOK' /\ RegisterInv'
      BY <2>1, <3>1, TypeStep, RegisterStep
    <3>3. FiredInv' /\ Isolated'
      BY <2>1, <3>1, FiredStep
    <3>4. ServedInv'
      BY <2>1, <3>1, ServedStep
    <3>5. CountInv'
      BY <2>1, <3>1, <3>2, <3>3, CountStep
    <3>6. AggregatesAll'
      BY <2>1, <3>3, AggregateStep
    <3>. QED
      BY <3>2, <3>3, <3>4, <3>5, <3>6 DEF CallingInv
  <2>2. ASSUME CallingInv, UNCHANGED vars PROVE CallingInv'
    <3>. USE <2>2 DEF vars, connVars, requestVars, networkVars, CallingInv
    <3>1. TypeOK' /\ RegisterInv'
      BY DEF TypeOK, RegisterTypeOK, RegisterInv
    <3>2. FiredInv' /\ Isolated' /\ ServedInv'
      BY DEF FiredInv, Isolated, ServedInv
    <3>3. CountInv'
      BY DEF CountInv, DuePairs, Factor, Observers
    <3>4. AggregatesAll'
      BY DEF AggregatesAll, OnlyStable
    <3>. QED
      BY <3>1, <3>2, <3>3, <3>4
  <2>. QED
    BY <2>1, <2>2
<1>. QED
  BY <1>1, CallingInit, PTL DEF Spec

\* However many requests share the reducer and whenever answers come, a result
\* only gets into the cache of the request whose call it answers (the handler
\* of the reducer, service.go).
THEOREM ResultsIsolated == Spec => []Isolated
<1>1. CallingInv => Isolated
  BY DEF CallingInv
<1>. QED
  BY <1>1, Calling, PTL

\* runFunctionCalls returns with the result of every call it fired, if the
\* functions it called all stay (wg.Wait, service.go).
THEOREM ResultsComplete == Spec => []AggregatesAll
<1>1. CallingInv => AggregatesAll
  BY DEF CallingInv
<1>. QED
  BY <1>1, Calling, PTL

\* What is due is what functions and reducer have, and what is not routed.
LEMMA DueSplits ==
  ASSUME TypeOK, FiredInv, NEW r \in Requests
  PROVE  /\ Cardinality(DuePairs(r)) = Cardinality(Due(r)) + Unrouted(r)
         /\ Cardinality(Due(r)) \in Nat /\ Unrouted(r) \in Nat
<1>. DEFINE P == {p \in Calls \X Conns : Msg(r, p[1], p[2]) \in answers \union lost}
            U == {p \in Calls \X Conns :
                    <<r, p[1]>> \in sent /\ p[2] \in Observers(CallTag[p[1]])}
            f == [p \in P |-> Msg(r, p[1], p[2])]
<1>1. DuePairs(r) = P \union U
  BY DEF DuePairs
<1>2. P \intersect U = {}
  <2>. SUFFICES ASSUME NEW p \in P PROVE p \notin U
    OBVIOUS
  <2>1. /\ Msg(r, p[1], p[2]).req = r /\ Msg(r, p[1], p[2]).call = p[1]
    BY DEF Msg
  <2>2. <<r, p[1]>> \notin sent
    BY <2>1 DEF FiredInv
  <2>. QED
    BY <2>2
<1>3. IsFiniteSet(P) /\ IsFiniteSet(U)
  <2>1. IsFiniteSet(Calls \X Conns)
    BY FunctionCallingAssumption, FS_Product
  <2>. QED
    BY <2>1, FS_Subset
<1>4. f \in Bijection(P, Due(r))
  <2>1. f \in [P -> Due(r)]
    <3>1. \A p \in P : Msg(r, p[1], p[2]) \in Due(r)
      BY DEF Due, Msg
    <3>. QED
      BY <3>1
  <2>2. \A a, b \in P : f[a] = f[b] => a = b
    <3>. TAKE a \in P, b \in P
    <3>1. /\ a = <<a[1], a[2]>> /\ a[1] \in Calls /\ a[2] \in Conns
          /\ b = <<b[1], b[2]>> /\ b[1] \in Calls /\ b[2] \in Conns
      OBVIOUS
    <3>2. Msg(r, a[1], a[2]) = Msg(r, b[1], b[2]) => a[1] = b[1] /\ a[2] = b[2]
      BY <3>1, MessageParts
    <3>. QED
      BY <3>1, <3>2
  <2>3. \A m \in Due(r) : \E p \in P : f[p] = m
    <3>. TAKE m \in Due(r)
    <3>1. m \in Messages /\ m.req = r /\ m \in answers \union lost
      BY DEF Due, TypeOK
    <3>2. /\ m.call \in Calls /\ m.conn \in Conns
          /\ m = Msg(r, m.call, m.conn)
      BY <3>1, MessageParts
    <3>. DEFINE x == <<m.call, m.conn>>
    <3>3. x \in Calls \X Conns /\ Msg(r, x[1], x[2]) = m
      BY <3>2
    <3>. HIDE DEF x
    <3>4. x \in P /\ f[x] = m
      BY <3>1, <3>3
    <3>. QED
      BY <3>4
  <2>. HIDE DEF f, P
  <2>. QED
    BY <2>1, <2>2, <2>3 DEF Bijection, Injection, Surjection, IsInjective
<1>5. Cardinality(Due(r)) = Cardinality(P)
  <2>. HIDE DEF f, P
  <2>1. ExistsBijection(P, Due(r))
    BY <1>4 DEF ExistsBijection
  <2>. QED
    BY <1>3, <2>1, FS_Bijection
<1>6. Unrouted(r) = Cardinality(U)
  BY DEF Unrouted
<1>. HIDE DEF P, U
<1>. QED
  BY <1>1, <1>2, <1>3, <1>5, <1>6, DisjointUnion, FS_CardinalityType

\* The WaitGroup of a request is never off: for stable functions it counts the
\* answers to come and those that were lost, whatever else connects, dies or
\* answers meanwhile (wg.Add
\* with SfnFactor and wg.Done of the reducer, service.go).
THEOREM WaitGroupExact == Spec => []WgCountsAnswers
<1>1. CallingInv => WgCountsAnswers
  <2>. SUFFICES ASSUME CallingInv, NEW r \in Requests, OnlyStable(r)
                PROVE  wg[r] = Cardinality(Due(r)) + Unrouted(r)
                         - (IF pc[r] = "add" THEN Factor(current[r]) ELSE 0)
    BY DEF WgCountsAnswers
  <2>1. \A k \in fired[r] : StableCall(k)
    BY DEF OnlyStable, StableCall
  <2>. DEFINE open == IF pc[r] = "add" THEN Factor(current[r]) ELSE 0
  <2>2. wg[r] = Cardinality(DuePairs(r)) - open
    BY <2>1 DEF CallingInv, CountInv
  <2>3. /\ Cardinality(DuePairs(r)) = Cardinality(Due(r)) + Unrouted(r)
        /\ Cardinality(Due(r)) \in Nat /\ Unrouted(r) \in Nat
    BY DueSplits DEF CallingInv
  <2>4. open \in Nat
    <3>1. Observers(CallTag[current[r]]) \subseteq Conns
      BY DEF Observers, CallingInv, TypeOK
    <3>. QED
      BY <3>1, FunctionCallingAssumption, FS_Subset, FS_CardinalityType
         DEF Factor
  <2>. HIDE DEF open
  <2>5. wg[r] = Cardinality(Due(r)) + Unrouted(r) - open
    BY <2>2, <2>3, <2>4
  <2>. QED
    BY <2>5 DEF open
<1>. QED
  BY <1>1, Calling, PTL
=============================================================================
