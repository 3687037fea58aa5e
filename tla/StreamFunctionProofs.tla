------------------------ MODULE StreamFunctionProofs ------------------------
(***************************************************************************)
(* Proofs about StreamFunction, for every configuration, any number of     *)
(* frames, contexts and calls on them, and however handlers, cron jobs,    *)
(* pipe and loop interleave.                                               *)
(***************************************************************************)
EXTENDS StreamFunction, Integers, WellFoundedInduction, TLAPS

Metadata == [tid : Nat, target : AnyTarget]
Frame == [md : Metadata, payload : Payloads]
Ask == [op : {"Write", "WriteWithTarget", "Read", "Result"}, target : AnyTarget]
ContextType ==
    [kind : {"async", "cron"}, incoming : Metadata, md : Metadata,
     mdBytes : Metadata, payload : Payloads, fnCall : BOOLEAN,
     asked : Seq(Ask), out : Seq(Metadata)]
WireType == [ctx : Nat, nth : Nat, md : Metadata, item : Nat]
StepType ==
    [at : {"off", "recv", "work", "send", "returned", "write", "ended"},
     item : Nat]

TypeOK ==
    /\ issued \in Nat
    /\ inbox \in Seq(Frame)
    /\ held \in Nat
    /\ ctxs \in Seq(ContextType)
    /\ pfn \in StepType /\ fwd \in StepType
    /\ wire \in Seq(WireType)

-----------------------------------------------------------------------------
(***************************************************************************)
(* The items of the pipe, by where they are.                               *)
(***************************************************************************)

Written == {wire[k].item : k \in {j \in DOMAIN wire : wire[j].ctx = 0}}
Forwarded == IF fwd.at = "write" THEN {fwd.item} ELSE {}
Worked == IF pfn.at \in {"work", "send"} THEN {pfn.item} ELSE {}
Held == IF loop = "pIn" THEN {held} ELSE {}
Waiting == {inbox[k].md.tid : k \in DOMAIN inbox}

Below(A, B) == \A x \in A : \A y \in B : x < y

\* What is further down the pipe was issued earlier.
Pipeline(W, F, P, H, Q, n) ==
    /\ Below(W, F) /\ Below(W, P) /\ Below(W, H) /\ Below(W, Q)
    /\ Below(F, P) /\ Below(F, H) /\ Below(F, Q)
    /\ Below(P, H) /\ Below(P, Q)
    /\ Below(H, Q)
    /\ W \union F \union P \union H \union Q \subseteq 1 .. n

\* No two frames are issued with the same id, so that the order of the ids is
\* that in which the frames arrived.
PipeInv ==
    /\ Pipeline(Written, Forwarded, Worked, Held, Waiting, issued)
    /\ \A j, k \in DOMAIN inbox : j < k => inbox[j].md.tid < inbox[k].md.tid

-----------------------------------------------------------------------------
(***************************************************************************)
(* Contexts.                                                               *)
(***************************************************************************)

\* The metadata a context writes next are those of its frame, with the target
\* named last; a cron context has neither a target nor a function call to begin
\* with.
ContextInv(c) ==
    /\ c.md.tid = c.incoming.tid
    /\ c.kind = "async" => c.md.target = LastAsked(c, Len(c.asked))
    /\ c.kind = "cron" =>
         ~c.fnCall /\ c.mdBytes = c.incoming /\ c.incoming.target = NoTarget
    /\ c.out # <<>> =>
         /\ c.asked # <<>>
         /\ c.out[1].tid = c.incoming.tid
         /\ c.out[1].target = IF c.kind = "cron" THEN c.asked[Len(c.asked)].target
                              ELSE LastAsked(c, Len(c.asked))

\* What was written on behalf of a call is what the call asked for.
Follows(w, cs) ==
    w.ctx # 0 =>
        /\ w.ctx \in DOMAIN cs
        /\ w.nth \in 1 .. Len(cs[w.ctx].asked)
        /\ w.md.tid = cs[w.ctx].incoming.tid
        /\ w.md.target = IF cs[w.ctx].kind = "cron"
                           THEN cs[w.ctx].asked[w.nth].target
                           ELSE LastAsked(cs[w.ctx], w.nth)

ContextsInv ==
    /\ \A i \in DOMAIN ctxs : ContextInv(ctxs[i])
    /\ \A k \in DOMAIN wire : Follows(wire[k], ctxs)

\* The invariant that carries the theorems.
StreamFunctionInv == TypeOK /\ PipeInv /\ PipeInOrder /\ ContextsInv

-----------------------------------------------------------------------------
(***************************************************************************)
(* The target asked for last.                                              *)
(***************************************************************************)

LEMMA SmallestOf ==
  ASSUME NEW T, T \subseteq Nat, T # {}
  PROVE  \E x \in T : \A y \in T : x <= y
<1>1. PICK x \in T : \A y \in T : ~(<<y, x>> \in OpToRel(<, Nat))
  <2>. DEFINE R == OpToRel(<, Nat)
  <2>1. IsWellFoundedOn(R, Nat)
    BY NatLessThanWellFounded
  <2>. HIDE DEF R
  <2>2. \E x \in T : \A y \in T : ~(<<y, x>> \in R)
    BY <2>1, WFMin
  <2>. QED
    BY <2>2 DEF R
<1>2. \A y \in T : ~(y < x)
  BY <1>1 DEF OpToRel
<1>. QED
  BY <1>2

\* A nonempty set of numbers up to n has a greatest one.
LEMMA GreatestOf ==
  ASSUME NEW n \in Nat, NEW S, S \subseteq 1 .. n, S # {}
  PROVE  \E x \in S : \A y \in S : y <= x
<1>. DEFINE T == {n - k : k \in S}
<1>1. T \subseteq Nat /\ T # {}
  <2>1. PICK k \in S : TRUE
    OBVIOUS
  <2>2. n - k \in T
    OBVIOUS
  <2>3. T \subseteq Nat
    OBVIOUS
  <2>. QED
    BY <2>2, <2>3
<1>2. PICK t \in T : \A y \in T : t <= y
  <2>. HIDE DEF T
  <2>. QED
    BY <1>1, SmallestOf
<1>3. PICK x \in S : t = n - x
  OBVIOUS
<1>4. \A y \in S : y <= x
  <2>. TAKE y \in S
  <2>1. n - y \in T
    OBVIOUS
  <2>2. n - x <= n - y
    BY <1>2, <1>3, <2>1
  <2>. QED
    BY <2>2
<1>. QED
  BY <1>4

\* Later calls do not change what an earlier one asked for.
LEMMA LastAskedStays ==
  ASSUME NEW c, NEW d, NEW n \in Nat, d.incoming = c.incoming,
         \A k \in 1 .. n : d.asked[k] = c.asked[k]
  PROVE  LastAsked(d, n) = LastAsked(c, n)
<1>. DEFINE N == {k \in 1 .. n : c.asked[k].target # NoTarget}
            M == {k \in 1 .. n : d.asked[k].target # NoTarget}
            Top(S) == CHOOSE k \in S : \A j \in S : j <= k
<1>1. M = N
  OBVIOUS
<1>2. CASE N = {}
  BY <1>1, <1>2 DEF LastAsked
<1>3. CASE N # {}
  <2>1. LastAsked(c, n) = c.asked[Top(N)].target
    BY <1>3 DEF LastAsked
  <2>2. LastAsked(d, n) = d.asked[Top(M)].target
    BY <1>1, <1>3 DEF LastAsked
  <2>3. Top(M) = Top(N)
    BY <1>1
  <2>4. Top(N) \in N
    <3>1. \E k \in N : \A j \in N : j <= k
      <4>. HIDE DEF N
      <4>1. N \subseteq 1 .. n
        BY DEF N
      <4>. QED
        BY <1>3, <4>1, GreatestOf
    <3>. QED
      BY <3>1
  <2>. QED
    BY <2>1, <2>2, <2>3, <2>4
<1>. QED
  BY <1>2, <1>3

\* A call that names a target asks for it, and one that does not for what was
\* asked for before.
LEMMA LastAskedNext ==
  ASSUME NEW c, NEW d, NEW n \in Nat, d.incoming = c.incoming,
         \A k \in 1 .. n : d.asked[k] = c.asked[k]
  PROVE  LastAsked(d, n + 1) = IF d.asked[n + 1].target = NoTarget
                                 THEN LastAsked(c, n)
                                 ELSE d.asked[n + 1].target
<1>. DEFINE N == {k \in 1 .. n : d.asked[k].target # NoTarget}
            M == {k \in 1 .. n + 1 : d.asked[k].target # NoTarget}
<1>0. LastAsked(d, n) = LastAsked(c, n)
  BY LastAskedStays
<1>1. CASE d.asked[n + 1].target = NoTarget
  <2>1. M = N
    BY <1>1
  <2>. DEFINE Of(S) == IF S = {} THEN d.incoming.target
                       ELSE d.asked[CHOOSE k \in S : \A j \in S : j <= k].target
  <2>2. LastAsked(d, n + 1) = Of(M) /\ LastAsked(d, n) = Of(N)
    BY DEF LastAsked
  <2>. HIDE DEF Of, M, N
  <2>3. LastAsked(d, n + 1) = LastAsked(d, n)
    BY <2>1, <2>2
  <2>. QED
    BY <1>0, <1>1, <2>3
<1>2. CASE d.asked[n + 1].target # NoTarget
  <2>1. n + 1 \in M /\ \A j \in M : j <= n + 1 /\ j \in Int
    BY <1>2
  <2>. HIDE DEF M
  <2>2. (CHOOSE k \in M : \A j \in M : j <= k) = n + 1
    BY <2>1
  <2>3. LastAsked(d, n + 1)
          = d.asked[CHOOSE k \in M : \A j \in M : j <= k].target
    BY <2>1 DEF LastAsked, M
  <2>. QED
    BY <1>2, <2>2, <2>3
<1>. QED
  BY <1>1, <1>2

-----------------------------------------------------------------------------
(***************************************************************************)
(* The operations of a context.                                            *)
(***************************************************************************)

\* A context that is replaced by one of the same frame, with at most one more
\* call, disturbs neither the other contexts nor what was written.
LEMMA ContextReplaced ==
  ASSUME TypeOK, ContextsInv, NEW i \in DOMAIN ctxs, NEW d \in ContextType,
         ctxs' = [ctxs EXCEPT ![i] = d],
         d.kind = ctxs[i].kind, d.incoming = ctxs[i].incoming,
         \/ d.asked = ctxs[i].asked
         \/ \E a \in Ask : d.asked = Append(ctxs[i].asked, a),
         ContextInv(d)
  PROVE  /\ ctxs' \in Seq(ContextType) /\ DOMAIN ctxs' = DOMAIN ctxs
         /\ \A j \in DOMAIN ctxs' : ContextInv(ctxs'[j])
         /\ \A k \in DOMAIN wire : Follows(wire[k], ctxs')
<1>. DEFINE c == ctxs[i]
<1>0. ctxs \in Seq(ContextType) /\ c \in ContextType
  BY DEF TypeOK
<1>1. c.asked \in Seq(Ask)
  BY <1>0 DEF ContextType
<1>2. /\ ctxs' \in Seq(ContextType) /\ DOMAIN ctxs' = DOMAIN ctxs
      /\ ctxs'[i] = d /\ \A j \in DOMAIN ctxs : j # i => ctxs'[j] = ctxs[j]
  <2>. HIDE DEF ContextType
  <2>. QED
    BY <1>0
<1>3. /\ Len(c.asked) \in Nat /\ Len(c.asked) <= Len(d.asked)
      /\ Len(d.asked) \in Nat
      /\ \A k \in 1 .. Len(c.asked) : d.asked[k] = c.asked[k]
  <2>. DEFINE s == c.asked
  <2>0. s \in Seq(Ask)
    BY <1>1
  <2>. HIDE DEF s, Ask
  <2>1. CASE d.asked = s
    BY <2>0, <2>1 DEF s
  <2>2. ASSUME NEW a \in Ask, d.asked = Append(s, a)
        PROVE  /\ Len(s) \in Nat /\ Len(s) <= Len(d.asked) /\ Len(d.asked) \in Nat
               /\ \A k \in 1 .. Len(s) : d.asked[k] = s[k]
    BY <2>0, <2>2
  <2>. QED
    BY <2>1, <2>2 DEF s
<1>4. ASSUME NEW n \in 1 .. Len(c.asked)
      PROVE  LastAsked(d, n) = LastAsked(c, n)
  <2>1. n \in Nat /\ \A k \in 1 .. n : d.asked[k] = c.asked[k]
    BY <1>3
  <2>. QED
    BY <2>1, LastAskedStays
<1>5. ASSUME NEW j \in DOMAIN ctxs' PROVE ContextInv(ctxs'[j])
  <2>1. CASE j = i
    BY <1>2, <2>1
  <2>2. CASE j # i
    BY <1>2, <2>2 DEF ContextsInv
  <2>. QED
    BY <2>1, <2>2
<1>6. ASSUME NEW k \in DOMAIN wire PROVE Follows(wire[k], ctxs')
  <2>. DEFINE w == wire[k]
  <2>1. Follows(w, ctxs)
    BY DEF ContextsInv
  <2>. SUFFICES Follows(w, ctxs')
    OBVIOUS
  <2>. HIDE DEF w
  <2>2. CASE w.ctx = i
    <3>. SUFFICES ASSUME w.ctx # 0 PROVE Follows(w, ctxs')
      BY DEF Follows
    <3>1. /\ w.nth \in 1 .. Len(c.asked) /\ w.md.tid = c.incoming.tid
          /\ w.md.target = IF c.kind = "cron" THEN c.asked[w.nth].target
                           ELSE LastAsked(c, w.nth)
      BY <2>1, <2>2 DEF Follows
    <3>2. w.nth \in 1 .. Len(d.asked) /\ d.asked[w.nth] = c.asked[w.nth]
      BY <1>3, <3>1
    <3>3. LastAsked(d, w.nth) = LastAsked(c, w.nth)
      BY <1>4, <3>1
    <3>. QED
      BY <1>2, <2>2, <3>1, <3>2, <3>3 DEF Follows
  <2>3. CASE w.ctx # i
    <3>. SUFFICES ASSUME w.ctx # 0 PROVE Follows(w, ctxs')
      BY DEF Follows
    <3>1. w.ctx \in DOMAIN ctxs /\ ctxs'[w.ctx] = ctxs[w.ctx]
      BY <1>2, <2>1, <2>3 DEF Follows
    <3>. QED
      BY <1>2, <2>1, <3>1 DEF Follows
  <2>. QED
    BY <2>2, <2>3
<1>. QED
  BY <1>2, <1>5, <1>6

\* The record of a context inside WriteFrame.
LEMMA WritingIs ==
  ASSUME TypeOK, NEW i \in DOMAIN ctxs,
         NEW op \in {"Write", "WriteWithTarget", "Result"},
         NEW target \in AnyTarget, NEW md \in Metadata, NEW bytes \in Metadata
  PROVE  \E d \in ContextType :
           /\ Writing(i, op, target, md, bytes) = [ctxs EXCEPT ![i] = d]
           /\ d.kind = ctxs[i].kind /\ d.incoming = ctxs[i].incoming
           /\ d.mdBytes = ctxs[i].mdBytes /\ d.fnCall = ctxs[i].fnCall
           /\ d.asked = Append(ctxs[i].asked, [op |-> op, target |-> target])
           /\ d.md = md /\ d.out = <<bytes>>
<1>. DEFINE c == ctxs[i]
            a == [op |-> op, target |-> target]
            d == [c EXCEPT !.asked = Append(c.asked, a), !.md = md,
                           !.out = <<bytes>>]
<1>1. c \in ContextType /\ ctxs \in Seq(ContextType)
  BY DEF TypeOK
<1>2. Append(c.asked, a) \in Seq(Ask) /\ <<bytes>> \in Seq(Metadata)
  <2>1. a \in Ask /\ c.asked \in Seq(Ask)
    BY <1>1 DEF ContextType, Ask
  <2>. HIDE DEF a
  <2>. QED
    BY <2>1
<1>3. d \in ContextType
  BY <1>1, <1>2 DEF ContextType
<1>4. /\ d.kind = c.kind /\ d.incoming = c.incoming /\ d.mdBytes = c.mdBytes
      /\ d.fnCall = c.fnCall /\ d.asked = Append(c.asked, a)
      /\ d.md = md /\ d.out = <<bytes>>
  BY <1>1 DEF ContextType
<1>5. Writing(i, op, target, md, bytes) = [ctxs EXCEPT ![i] = d]
  BY <1>1 DEF Writing
<1>. QED
  BY <1>3, <1>4, <1>5

LEMMA ContextStep ==
  ASSUME TypeOK, ContextsInv, NEW i \in DOMAIN ctxs, Context(i)
  PROVE  /\ ctxs' \in Seq(ContextType) /\ ContextsInv'
         /\ UNCHANGED <<issued, inbox, loop, held, pfn, fwd>>
         /\ \/ wire' = wire
            \/ \E w \in WireType : wire' = Append(wire, w) /\ w.ctx # 0
<1>. DEFINE c == ctxs[i]
            n == Len(c.asked)
            Others == UNCHANGED <<issued, inbox, loop, held, pfn, fwd>>
            Kept == ctxs' \in Seq(ContextType) /\ ContextsInv'
<1>1. /\ ctxs \in Seq(ContextType) /\ c \in ContextType /\ ContextInv(c)
      /\ NoTarget \in AnyTarget
  BY DEF TypeOK, ContextsInv, AnyTarget
<1>2. /\ c.asked \in Seq(Ask) /\ n \in Nat /\ c.kind \in {"async", "cron"}
      /\ c.md \in Metadata /\ c.mdBytes \in Metadata /\ c.incoming \in Metadata
      /\ c.out \in Seq(Metadata)
  BY <1>1 DEF ContextType
<1>3. \A md \in Metadata, t \in AnyTarget :
        /\ [md EXCEPT !.target = t] \in Metadata
        /\ [md EXCEPT !.target = t].tid = md.tid
        /\ [md EXCEPT !.target = t].target = t
  BY DEF Metadata
\* What one more call asks for.
<1>4. ASSUME NEW d \in ContextType, NEW a \in Ask, d.asked = Append(c.asked, a),
             d.incoming = c.incoming
      PROVE  /\ Len(d.asked) = n + 1 /\ d.asked # <<>> /\ d.asked[n + 1] = a
             /\ LastAsked(d, n + 1) = IF a.target = NoTarget THEN LastAsked(c, n)
                                      ELSE a.target
  <2>. DEFINE s == c.asked
  <2>1. s \in Seq(Ask)
    BY <1>2
  <2>. HIDE DEF Ask, s
  <2>2. /\ Len(Append(s, a)) = Len(s) + 1 /\ Append(s, a) # <<>>
        /\ Append(s, a)[Len(s) + 1] = a
        /\ \A k \in 1 .. Len(s) : Append(s, a)[k] = s[k]
    BY <2>1
  <2>3. /\ Len(d.asked) = n + 1 /\ d.asked # <<>> /\ d.asked[n + 1] = a
        /\ \A k \in 1 .. n : d.asked[k] = c.asked[k]
    BY <1>4, <2>2 DEF s
  <2>. QED
    BY <1>2, <1>4, <2>3, LastAskedNext
<1>5. ASSUME wire' = wire, NEW d \in ContextType, ctxs' = [ctxs EXCEPT ![i] = d],
             d.kind = c.kind, d.incoming = c.incoming,
             d.asked = c.asked \/ (\E a \in Ask : d.asked = Append(c.asked, a)),
             ContextInv(d)
      PROVE  Kept
  BY <1>5, ContextReplaced DEF ContextsInv
\* A call inside WriteFrame.
<1>6. ASSUME NEW op \in {"Write", "WriteWithTarget", "Result"},
             NEW target \in AnyTarget, NEW md \in Metadata, NEW bytes \in Metadata,
             ctxs' = Writing(i, op, target, md, bytes), wire' = wire,
             md.tid = c.md.tid, bytes.tid = c.md.tid,
             c.kind = "async" =>
                /\ md.target = IF target = NoTarget THEN c.md.target ELSE target
                /\ bytes = md,
             c.kind = "cron" => bytes.target = target
      PROVE  Kept
  <2>. DEFINE a == [op |-> op, target |-> target]
  <2>1. PICK d \in ContextType :
           /\ Writing(i, op, target, md, bytes) = [ctxs EXCEPT ![i] = d]
           /\ d.kind = c.kind /\ d.incoming = c.incoming
           /\ d.mdBytes = c.mdBytes /\ d.fnCall = c.fnCall
           /\ d.asked = Append(c.asked, a) /\ d.md = md /\ d.out = <<bytes>>
    BY WritingIs
  <2>2. a \in Ask /\ a.target = target
    BY DEF Ask
  <2>. HIDE DEF a
  <2>3. /\ Len(d.asked) = n + 1 /\ d.asked # <<>> /\ d.asked[n + 1] = a
        /\ LastAsked(d, n + 1) = IF target = NoTarget THEN LastAsked(c, n)
                                 ELSE target
    BY <1>4, <2>1, <2>2
  <2>4. d.out[1] = bytes
    BY <2>1
  <2>5. ContextInv(d)
    BY <1>1, <1>2, <1>6, <2>1, <2>2, <2>3, <2>4 DEF ContextInv
  <2>. QED
    BY <1>5, <1>6, <2>1, <2>2, <2>5
<1>. HIDE DEF n, Kept
<1>. SUFFICES Kept /\ Others
              /\ (wire' = wire
                    \/ \E w \in WireType : wire' = Append(wire, w) /\ w.ctx # 0)
  BY DEF Kept
<1>7. CASE ContextWrite(i)
  BY <1>1, <1>2, <1>6, <1>7 DEF ContextWrite
<1>8. CASE CronContextWrite(i)
  <2>1. c.mdBytes.tid = c.md.tid /\ c.mdBytes.target = NoTarget
    BY <1>1, <1>8 DEF CronContextWrite, ContextInv
  <2>. QED
    BY <1>1, <1>2, <1>6, <1>8, <2>1 DEF CronContextWrite
<1>9. ASSUME NEW target \in AnyTarget, ContextWriteWithTarget(i, target)
      PROVE  Kept /\ Others /\ wire' = wire
  <2>1. CASE target = NoTarget
    BY <1>2, <1>6, <1>9, <2>1 DEF ContextWriteWithTarget
  <2>2. CASE target # NoTarget
    <3>. DEFINE md == [c.md EXCEPT !.target = target]
    <3>1. ctxs' = Writing(i, "WriteWithTarget", target, md, md)
      BY <1>9, <2>2 DEF ContextWriteWithTarget
    <3>2. md \in Metadata /\ md.tid = c.md.tid /\ md.target = target
      BY <1>2, <1>3
    <3>3. c.kind = "async" /\ Others /\ wire' = wire
      BY <1>9 DEF ContextWriteWithTarget
    <3>. HIDE DEF md
    <3>. QED
      BY <1>6, <2>2, <3>1, <3>2, <3>3
  <2>. QED
    BY <2>1, <2>2
<1>10. ASSUME NEW target \in AnyTarget, CronContextWriteWithTarget(i, target)
       PROVE  Kept /\ Others /\ wire' = wire
  <2>. DEFINE md == [c.md EXCEPT !.target = target]
  <2>1. ctxs' = Writing(i, "WriteWithTarget", target, md, md)
    BY <1>10 DEF CronContextWriteWithTarget
  <2>2. md \in Metadata /\ md.tid = c.md.tid /\ md.target = target
    BY <1>2, <1>3
  <2>3. c.kind = "cron" /\ Others /\ wire' = wire
    BY <1>10 DEF CronContextWriteWithTarget
  <2>. HIDE DEF md
  <2>. QED
    BY <1>6, <2>1, <2>2, <2>3
<1>11. CASE WriteLLMResult(i)
  <2>1. c.kind = "async"
    BY <1>1, <1>2, <1>11 DEF WriteLLMResult, ContextInv
  <2>. QED
    BY <1>1, <1>2, <1>6, <1>11, <2>1 DEF WriteLLMResult
<1>12. CASE ReadLLMArguments(i)
  <2>. DEFINE a == [op |-> "Read", target |-> NoTarget]
              d == [c EXCEPT !.asked = Append(c.asked, a),
                             !.fnCall = c.fnCall \/ c.payload = "call"]
  <2>1. a \in Ask /\ a.target = NoTarget /\ Append(c.asked, a) \in Seq(Ask)
    BY <1>1, <1>2 DEF Ask
  <2>2. c.kind = "async" /\ c.out = <<>> /\ Others /\ wire' = wire
    BY <1>12 DEF ReadLLMArguments, Calls
  <2>3. ctxs' = [ctxs EXCEPT ![i] = d]
    BY <1>1, <1>12 DEF ReadLLMArguments
  <2>. HIDE DEF a
  <2>4. d \in ContextType
    BY <1>1, <2>1 DEF ContextType
  <2>5. /\ d.kind = c.kind /\ d.incoming = c.incoming /\ d.md = c.md
        /\ d.out = c.out /\ d.asked = Append(c.asked, a)
    BY <1>1 DEF ContextType
  <2>. HIDE DEF d
  <2>6. ContextInv(d)
    <3>1. LastAsked(d, Len(d.asked)) = LastAsked(c, n)
      BY <1>4, <2>1, <2>4, <2>5
    <3>. QED
      BY <1>1, <2>2, <2>5, <3>1 DEF ContextInv, n
  <2>. QED
    BY <1>5, <2>1, <2>2, <2>3, <2>4, <2>5, <2>6
<1>13. ASSUME LoopWrites(i) \/ WriteCancelled(i)
       PROVE  /\ \E d \in ContextType :
                   /\ ctxs' = [ctxs EXCEPT ![i] = d] /\ d.kind = c.kind
                   /\ d.incoming = c.incoming /\ d.asked = c.asked
                   /\ ContextInv(d)
              /\ Others /\ c.out # <<>>
  <2>. DEFINE d == [c EXCEPT !.out = <<>>]
  <2>1. ctxs' = [ctxs EXCEPT ![i] = d]
    BY <1>1, <1>13 DEF LoopWrites, WriteCancelled
  <2>2. d \in ContextType
    <3>1. <<>> \in Seq(Metadata)
      OBVIOUS
    <3>. QED
      BY <1>1, <3>1 DEF ContextType
  <2>3. /\ d.kind = c.kind /\ d.incoming = c.incoming /\ d.md = c.md
        /\ d.mdBytes = c.mdBytes /\ d.fnCall = c.fnCall
        /\ d.out = <<>> /\ d.asked = c.asked
    BY <1>1 DEF ContextType
  <2>. HIDE DEF d
  <2>4. LastAsked(d, Len(d.asked)) = LastAsked(c, n)
    <3>1. n \in Nat /\ \A k \in 1 .. n : d.asked[k] = c.asked[k]
      BY <1>2, <2>3
    <3>2. LastAsked(d, n) = LastAsked(c, n)
      BY <2>3, <3>1, LastAskedStays
    <3>. QED
      BY <2>3, <3>2 DEF n
  <2>5. ContextInv(d)
    BY <1>1, <2>3, <2>4 DEF ContextInv, n
  <2>6. Others /\ c.out # <<>>
    BY <1>13 DEF LoopWrites, WriteCancelled
  <2>. QED
    BY <2>1, <2>2, <2>3, <2>5, <2>6
<1>14. CASE WriteCancelled(i)
  BY <1>5, <1>13, <1>14 DEF WriteCancelled
<1>15. CASE LoopWrites(i)
  <2>. DEFINE w == [ctx |-> i, nth |-> n, md |-> c.out[1], item |-> 0]
  <2>1. wire' = Append(wire, w) /\ wire \in Seq(WireType)
    BY <1>2, <1>15 DEF LoopWrites, TypeOK, n
  <2>2. i \in Nat \ {0} /\ n \in Nat \ {0} /\ c.out[1] \in Metadata
    <3>1. c.out # <<>>
      BY <1>15 DEF LoopWrites
    <3>2. c.asked # <<>>
      BY <1>1, <3>1 DEF ContextInv
    <3>. QED
      BY <1>1, <1>2, <3>1, <3>2 DEF n
  <2>3. w \in WireType /\ w.ctx # 0
    BY <2>2 DEF WireType
  <2>4. PICK d \in ContextType :
           /\ ctxs' = [ctxs EXCEPT ![i] = d] /\ d.kind = c.kind
           /\ d.incoming = c.incoming /\ d.asked = c.asked /\ ContextInv(d)
    BY <1>13, <1>15
  <2>5. /\ ctxs' \in Seq(ContextType) /\ DOMAIN ctxs' = DOMAIN ctxs
        /\ \A j \in DOMAIN ctxs' : ContextInv(ctxs'[j])
        /\ \A k \in DOMAIN wire : Follows(wire[k], ctxs')
    BY <2>4, ContextReplaced
  <2>6. ctxs'[i] = d
    BY <1>1, <2>4
  <2>7. Follows(w, ctxs')
    <3>1. /\ c.out[1].tid = d.incoming.tid
          /\ c.out[1].target = IF d.kind = "cron" THEN d.asked[n].target
                               ELSE LastAsked(c, n)
      BY <1>1, <1>13, <1>15, <2>4 DEF ContextInv, n
    <3>2. LastAsked(d, n) = LastAsked(c, n)
      <4>1. n \in Nat /\ \A k \in 1 .. n : d.asked[k] = c.asked[k]
        BY <2>2, <2>4
      <4>. QED
        BY <2>4, <4>1, LastAskedStays
    <3>3. n \in 1 .. Len(d.asked)
      BY <2>2, <2>4 DEF n
    <3>4. w.ctx = i /\ w.nth = n /\ w.md = c.out[1]
      OBVIOUS
    <3>. HIDE DEF w
    <3>. QED
      BY <2>5, <2>6, <3>1, <3>2, <3>3, <3>4 DEF Follows
  <2>. HIDE DEF w
  <2>8. ContextsInv'
    <3>1. /\ \A k \in DOMAIN wire : wire'[k] = wire[k]
          /\ wire'[Len(wire) + 1] = w
          /\ \A k \in DOMAIN wire' : k \in DOMAIN wire \/ k = Len(wire) + 1
      <4>. HIDE DEF WireType
      <4>. QED
        BY <2>1, <2>3
    <3>2. \A k \in DOMAIN wire' : Follows(wire'[k], ctxs')
      BY <2>5, <2>7, <3>1
    <3>. QED
      BY <2>5, <3>2 DEF ContextsInv
  <2>. QED
    BY <1>13, <1>15, <2>1, <2>3, <2>5, <2>8 DEF Kept
<1>. QED
  BY <1>7, <1>8, <1>9, <1>10, <1>11, <1>12, <1>14, <1>15 DEF Context

\* A context is created with the metadata of its frame.
LEMMA NewContextInv ==
  ASSUME NEW kind \in {"async", "cron"}, NEW md \in Metadata,
         NEW payload \in Payloads, kind = "cron" => md.target = NoTarget
  PROVE  NewContext(kind, md, payload) \in ContextType
         /\ ContextInv(NewContext(kind, md, payload))
<1>. DEFINE d == NewContext(kind, md, payload)
<1>1. /\ d.kind = kind /\ d.incoming = md /\ d.md = md /\ d.mdBytes = md
      /\ d.fnCall = FALSE /\ d.asked = <<>> /\ d.out = <<>>
  BY DEF NewContext
<1>2. d \in ContextType
  <2>1. <<>> \in Seq(Metadata) /\ <<>> \in Seq(Ask)
    OBVIOUS
  <2>. QED
    BY <2>1 DEF NewContext, ContextType
<1>. HIDE DEF d
<1>3. LastAsked(d, Len(d.asked)) = d.incoming.target
  <2>1. Len(d.asked) = 0
    BY <1>1
  <2>2. {k \in 1 .. 0 : d.asked[k].target # NoTarget} = {}
    OBVIOUS
  <2>. QED
    BY <2>1, <2>2 DEF LastAsked
<1>4. ContextInv(d)
  BY <1>1, <1>3 DEF ContextInv
<1>. QED
  BY <1>2, <1>4 DEF d

\* ... and disturbs no other context.
LEMMA ContextAdded ==
  ASSUME TypeOK, ContextsInv, NEW d \in ContextType, ContextInv(d),
         ctxs' = Append(ctxs, d), wire' = wire
  PROVE  ctxs' \in Seq(ContextType) /\ ContextsInv'
<1>1. ctxs \in Seq(ContextType)
  BY DEF TypeOK
<1>2. /\ ctxs' \in Seq(ContextType)
      /\ \A i \in DOMAIN ctxs : i \in DOMAIN ctxs' /\ ctxs'[i] = ctxs[i]
      /\ \A i \in DOMAIN ctxs' : i \in DOMAIN ctxs \/ ctxs'[i] = d
  <2>. HIDE DEF ContextType
  <2>. QED
    BY <1>1
<1>3. \A i \in DOMAIN ctxs' : ContextInv(ctxs'[i])
  BY <1>2 DEF ContextsInv
<1>4. ASSUME NEW k \in DOMAIN wire PROVE Follows(wire[k], ctxs')
  <2>. DEFINE w == wire[k]
  <2>. SUFFICES Follows(w, ctxs')
    OBVIOUS
  <2>1. Follows(w, ctxs)
    BY DEF ContextsInv
  <2>. HIDE DEF w
  <2>. SUFFICES ASSUME w.ctx # 0 PROVE Follows(w, ctxs')
    BY DEF Follows
  <2>2. w.ctx \in DOMAIN ctxs' /\ ctxs'[w.ctx] = ctxs[w.ctx]
    BY <1>2, <2>1 DEF Follows
  <2>. QED
    BY <2>1, <2>2 DEF Follows
<1>. QED
  BY <1>2, <1>3, <1>4 DEF ContextsInv

\* A frame of the pipe belongs to no context.
LEMMA ForwardedAdded ==
  ASSUME TypeOK, ContextsInv, NEW w \in WireType, w.ctx = 0,
         wire' = Append(wire, w), ctxs' = ctxs
  PROVE  wire' \in Seq(WireType) /\ ContextsInv'
<1>1. /\ wire' \in Seq(WireType)
      /\ \A k \in DOMAIN wire' : wire'[k] = w \/ (k \in DOMAIN wire /\ wire'[k] = wire[k])
  <2>1. wire \in Seq(WireType)
    BY DEF TypeOK
  <2>. HIDE DEF WireType
  <2>. QED
    BY <2>1
<1>2. Follows(w, ctxs)
  BY DEF Follows
<1>3. \A k \in DOMAIN wire' : Follows(wire'[k], ctxs)
  BY <1>1, <1>2 DEF ContextsInv
<1>. QED
  BY <1>1, <1>3 DEF ContextsInv

-----------------------------------------------------------------------------
(***************************************************************************)
(* The pipe.                                                               *)
(***************************************************************************)

\* Items that leave a stage, or a frame issued meanwhile, disturb nothing.
LEMMA PipelineShrinks ==
  ASSUME NEW W, NEW F, NEW P, NEW H, NEW Q, NEW n \in Nat, Pipeline(W, F, P, H, Q, n),
         NEW W1, NEW F1, NEW P1, NEW H1, NEW Q1, NEW m \in Nat, n <= m,
         W1 \subseteq W, F1 \subseteq F, P1 \subseteq P, H1 \subseteq H, Q1 \subseteq Q
  PROVE  Pipeline(W1, F1, P1, H1, Q1, m)
<1>1. 1 .. n \subseteq 1 .. m
  OBVIOUS
<1>2. W1 \union F1 \union P1 \union H1 \union Q1 \subseteq 1 .. m
  BY <1>1 DEF Pipeline
<1>. QED
  BY <1>2 DEF Pipeline, Below

\* The frame issued last goes to the end.
LEMMA PipelineGrows ==
  ASSUME NEW W, NEW F, NEW P, NEW H, NEW Q, NEW n \in Nat, Pipeline(W, F, P, H, Q, n)
  PROVE  Pipeline(W, F, P, H, Q \union {n + 1}, n + 1)
<1>1. Below(1 .. n, {n + 1})
  BY DEF Below
<1>2. 1 .. n \subseteq 1 .. n + 1 /\ n + 1 \in 1 .. n + 1
  OBVIOUS
<1>. QED
  BY <1>1, <1>2 DEF Pipeline, Below

\* What a frame added to the wire adds to the items written.
LEMMA WrittenGrows ==
  ASSUME TypeOK, PipeInOrder, NEW w \in WireType, wire' = Append(wire, w),
         w.ctx = 0 => Below(Written, {w.item})
  PROVE  /\ Written' = Written \union (IF w.ctx = 0 THEN {w.item} ELSE {})
         /\ PipeInOrder'
<1>. DEFINE l == Len(wire)
<1>1. /\ l \in Nat /\ DOMAIN wire = 1 .. l /\ DOMAIN wire' = 1 .. l + 1
      /\ wire'[l + 1] = w /\ \A k \in 1 .. l : wire'[k] = wire[k]
  <2>1. wire \in Seq(WireType)
    BY DEF TypeOK
  <2>. HIDE DEF WireType
  <2>. QED
    BY <2>1
<1>. HIDE DEF l
<1>2. \A k \in 1 .. l + 1 : k \in 1 .. l \/ k = l + 1
  BY <1>1
<1>3. 1 .. l \subseteq 1 .. l + 1 /\ l + 1 \in 1 .. l + 1
  BY <1>1
<1>. DEFINE P == {j \in DOMAIN wire : wire[j].ctx = 0}
            P1 == {j \in DOMAIN wire' : wire'[j].ctx = 0}
<1>4. P1 = P \union (IF w.ctx = 0 THEN {l + 1} ELSE {})
  BY <1>1, <1>2, <1>3
<1>5. Written = {wire[k].item : k \in P} /\ Written' = {wire'[k].item : k \in P1}
  BY DEF Written
<1>6. \A k \in P : wire'[k] = wire[k]
  BY <1>1
<1>. HIDE DEF P, P1
<1>7. Written' = Written \union (IF w.ctx = 0 THEN {w.item} ELSE {})
  BY <1>1, <1>4, <1>5, <1>6
<1>8. ASSUME NEW j \in DOMAIN wire', NEW k \in DOMAIN wire',
             j < k, wire'[j].ctx = 0, wire'[k].ctx = 0
      PROVE  wire'[j].item < wire'[k].item
  <2>0. j \in 1 .. l /\ wire'[j] = wire[j]
    BY <1>1, <1>2, <1>8
  <2>1. CASE k = l + 1
    <3>1. wire[j].item \in Written
      BY <1>1, <1>8, <2>0 DEF Written
    <3>. QED
      BY <1>1, <1>8, <2>0, <2>1, <3>1 DEF Below
  <2>2. CASE k \in 1 .. l
    BY <1>1, <1>8, <2>0, <2>2 DEF PipeInOrder
  <2>. QED
    BY <1>1, <1>2, <2>1, <2>2
<1>9. PipeInOrder'
  BY <1>8 DEF PipeInOrder
<1>. QED
  BY <1>7, <1>9

\* The stages of the pipe, as sets of ids.
LEMMA StageTypes ==
  ASSUME TypeOK
  PROVE  /\ \A at \in {"off", "recv", "work", "send", "returned", "write", "ended"} :
               \A item \in Nat : /\ Step(at, item) \in StepType
                                 /\ Step(at, item).at = at
                                 /\ Step(at, item).item = item
         /\ None \in StepType /\ None.at = "off"
         /\ pfn.item \in Nat /\ fwd.item \in Nat
BY DEF TypeOK, Step, None, StepType

\* The source writes: the frame goes to the end of the inbox or nowhere.
LEMMA SourceStep ==
  ASSUME TypeOK, PipeInv, NEW target \in AnyTarget, NEW payload \in Payloads,
         SourceWrite(target, payload)
  PROVE  issued' \in Nat /\ inbox' \in Seq(Frame) /\ PipeInv'
<1>. DEFINE f == [md |-> NewMetadata(target), payload |-> payload]
<1>1. issued \in Nat /\ issued' = issued + 1 /\ inbox \in Seq(Frame)
  BY DEF TypeOK, SourceWrite
<1>2. f \in Frame /\ f.md.tid = issued + 1
  BY <1>1 DEF Frame, Metadata, NewMetadata
<1>3. inbox' = inbox \/ inbox' = Append(inbox, f)
  BY DEF SourceWrite, Deliver
<1>. HIDE DEF f
<1>4. /\ Written' = Written /\ Forwarded' = Forwarded /\ Worked' = Worked
      /\ Held' = Held
  BY DEF SourceWrite, Written, Forwarded, Worked, Held
<1>5. CASE inbox' = inbox
  <2>1. Waiting' = Waiting
    BY <1>5 DEF Waiting
  <2>2. Pipeline(Written, Forwarded, Worked, Held, Waiting, issued + 1)
    BY <1>1, PipelineShrinks DEF PipeInv
  <2>. QED
    BY <1>1, <1>4, <1>5, <2>1, <2>2 DEF PipeInv
<1>6. CASE inbox' = Append(inbox, f)
  <2>. DEFINE l == Len(inbox)
  <2>1. /\ inbox' \in Seq(Frame) /\ l \in Nat /\ DOMAIN inbox = 1 .. l
        /\ DOMAIN inbox' = 1 .. l + 1 /\ inbox'[l + 1] = f
        /\ \A k \in 1 .. l : inbox'[k] = inbox[k]
    <3>. HIDE DEF Frame
    <3>. QED
      BY <1>1, <1>2, <1>6
  <2>. HIDE DEF l
  <2>2. /\ \A k \in 1 .. l + 1 : k \in 1 .. l \/ k = l + 1
        /\ 1 .. l \subseteq 1 .. l + 1 /\ l + 1 \in 1 .. l + 1
    BY <2>1
  <2>3. Waiting' = Waiting \union {issued + 1}
    BY <1>2, <2>1, <2>2 DEF Waiting
  <2>4. Pipeline(Written, Forwarded, Worked, Held, Waiting \union {issued + 1}, issued + 1)
    BY <1>1, PipelineGrows DEF PipeInv
  <2>5. ASSUME NEW j \in DOMAIN inbox', NEW k \in DOMAIN inbox', j < k
        PROVE  inbox'[j].md.tid < inbox'[k].md.tid
    <3>1. j \in 1 .. l /\ inbox'[j] = inbox[j]
      BY <2>1, <2>2, <2>5
    <3>2. CASE k = l + 1
      <4>1. inbox[j].md.tid \in Waiting
        BY <2>1, <3>1 DEF Waiting
      <4>2. inbox[j].md.tid < issued + 1
        BY <1>1, <4>1 DEF PipeInv, Pipeline
      <4>. QED
        BY <1>2, <2>1, <3>1, <3>2, <4>2
    <3>3. CASE k \in 1 .. l
      BY <2>1, <2>5, <3>1, <3>3 DEF PipeInv
    <3>. QED
      BY <2>1, <2>2, <3>2, <3>3
  <2>. QED
    BY <1>1, <1>4, <2>1, <2>3, <2>4, <2>5 DEF PipeInv
<1>. QED
  BY <1>1, <1>3, <1>5, <1>6

\* The loop takes the oldest frame; with a pipe function it is stuck with it.
LEMMA FrameStep ==
  ASSUME StreamFunctionInv, onDataFrame
  PROVE  StreamFunctionInv'
<1>. DEFINE f == Head(inbox)
<1>0. /\ issued \in Nat /\ inbox \in Seq(Frame) /\ held \in Nat
      /\ inbox # <<>> /\ inbox' = Tail(inbox) /\ loop = "serve"
      /\ wire' = wire /\ issued' = issued /\ pfn' = pfn /\ fwd' = fwd
  BY DEF StreamFunctionInv, TypeOK, onDataFrame
<1>1. f \in Frame /\ f = inbox[1] /\ 1 \in DOMAIN inbox
  <2>. HIDE DEF Frame
  <2>. QED
    BY <1>0
<1>2. f.md \in Metadata /\ f.md.tid \in Nat /\ f.payload \in Payloads
  BY <1>1 DEF Frame, Metadata
<1>. HIDE DEF f
<1>3. /\ inbox' \in Seq(Frame)
      /\ \A k \in DOMAIN inbox' : /\ k \in Nat /\ k + 1 \in DOMAIN inbox /\ 1 < k + 1
                                  /\ inbox'[k] = inbox[k + 1]
  <2>. HIDE DEF Frame
  <2>. QED
    BY <1>0
<1>4. \A j, k \in DOMAIN inbox' : j < k => inbox'[j].md.tid < inbox'[k].md.tid
  BY <1>3 DEF StreamFunctionInv, PipeInv
<1>5. Waiting' \subseteq Waiting /\ f.md.tid \in Waiting
  BY <1>1, <1>3 DEF Waiting
<1>6. Below({f.md.tid}, Waiting')
  <2>1. \A k \in DOMAIN inbox' : f.md.tid < inbox'[k].md.tid
    BY <1>1, <1>3 DEF StreamFunctionInv, PipeInv
  <2>. QED
    BY <2>1 DEF Below, Waiting
<1>7. /\ Written' = Written /\ Forwarded' = Forwarded /\ Worked' = Worked
      /\ Held = {} /\ PipeInOrder'
  BY <1>0 DEF Written, Forwarded, Worked, Held, PipeInOrder, StreamFunctionInv
<1>8. /\ held' \in Nat /\ ctxs' \in Seq(ContextType) /\ ContextsInv'
      /\ Held' \subseteq {f.md.tid}
  <2>1. CASE conf.fn
    <3>. DEFINE d == NewContext("async", f.md, f.payload)
    <3>1. ctxs' = Append(ctxs, d) /\ UNCHANGED <<loop, held>>
      BY <2>1 DEF onDataFrame, f
    <3>2. d \in ContextType /\ ContextInv(d)
      BY <1>2, NewContextInv
    <3>. HIDE DEF d
    <3>3. ctxs' \in Seq(ContextType) /\ ContextsInv'
      BY <1>0, <3>1, <3>2, ContextAdded DEF StreamFunctionInv
    <3>. QED
      BY <1>0, <3>1, <3>3 DEF Held
  <2>2. CASE ~conf.fn
    <3>1. ctxs' = ctxs /\ ContextsInv' /\ ctxs' \in Seq(ContextType)
      BY <1>0, <2>2 DEF onDataFrame, StreamFunctionInv, ContextsInv, TypeOK
    <3>2. \/ loop' = "pIn" /\ held' = f.md.tid
          \/ UNCHANGED <<loop, held>>
      BY <2>2 DEF onDataFrame, f
    <3>. QED
      BY <1>0, <1>2, <3>1, <3>2 DEF Held
  <2>. QED
    BY <2>1, <2>2
<1>9. Pipeline(Written, Forwarded, Worked, Held', Waiting', issued)
  BY <1>5, <1>6, <1>8 DEF StreamFunctionInv, PipeInv, Pipeline, Below
<1>10. PipeInv'
  BY <1>0, <1>4, <1>7, <1>9 DEF PipeInv
<1>11. TypeOK'
  BY <1>0, <1>3, <1>8 DEF StreamFunctionInv, TypeOK
<1>. QED
  BY <1>7, <1>8, <1>10, <1>11 DEF StreamFunctionInv

\* The goroutines of the pipe pass their item on, or drop it.
LEMMA PipeStep ==
  ASSUME StreamFunctionInv, Pipe
  PROVE  StreamFunctionInv'
<1>. DEFINE Line(W, F, P, H) == Pipeline(W, F, P, H, Waiting, issued)
<1>0. /\ TypeOK /\ issued \in Nat /\ held \in Nat /\ PipeInOrder
      /\ Line(Written, Forwarded, Worked, Held)
      /\ ctxs' = ctxs /\ inbox' = inbox /\ issued' = issued
  BY DEF StreamFunctionInv, PipeInv, TypeOK, Pipe, PipeReceives, PipeWorks,
         PipeSends, ForwardWrites, ForwardCancelled
<1>1. Waiting' = Waiting
  BY <1>0 DEF Waiting
<1>2. ASSUME wire' = wire, held' \in Nat, pfn' \in StepType, fwd' \in StepType,
             Line(Written, Forwarded', Worked', Held')
      PROVE  StreamFunctionInv'
  <2>1. Written' = Written /\ PipeInOrder' /\ ContextsInv'
    BY <1>0, <1>2 DEF StreamFunctionInv, Written, PipeInOrder, ContextsInv
  <2>2. TypeOK'
    BY <1>0, <1>2 DEF TypeOK
  <2>3. PipeInv'
    BY <1>0, <1>1, <1>2, <2>1 DEF StreamFunctionInv, PipeInv
  <2>. QED
    BY <2>1, <2>2, <2>3 DEF StreamFunctionInv
<1>3. pfn \in StepType /\ fwd \in StepType /\ pfn.item \in Nat /\ fwd.item \in Nat
  BY <1>0, StageTypes DEF TypeOK
<1>4. CASE PipeReceives
  <2>1. Worked = {} /\ Held = {held}
    BY <1>4 DEF PipeReceives, Worked, Held
  <2>2. Worked' = {held} /\ Held' = {} /\ Forwarded' = Forwarded
    BY <1>4 DEF PipeReceives, Worked, Held, Forwarded, Step
  <2>3. Line(Written, Forwarded, {held}, {})
    BY <1>0, <2>1 DEF Pipeline, Below
  <2>4. pfn' \in StepType /\ fwd' = fwd /\ wire' = wire /\ held' \in Nat
    BY <1>0, <1>4, StageTypes DEF PipeReceives
  <2>. HIDE DEF Line
  <2>. QED
    BY <1>2, <1>3, <2>2, <2>3, <2>4
<1>5. ASSUME NEW next \in {"send", "recv", "returned"}, PipeWorks(next)
      PROVE  StreamFunctionInv'
  <2>1. Worked' \subseteq Worked /\ Held' = Held /\ Forwarded' = Forwarded
    BY <1>5 DEF PipeWorks, Worked, Held, Forwarded, Step
  <2>2. Line(Written, Forwarded, Worked', Held)
    BY <1>0, <2>1 DEF Pipeline, Below
  <2>3. pfn' \in StepType /\ fwd' = fwd /\ wire' = wire /\ held' \in Nat
    BY <1>0, <1>3, <1>5, StageTypes DEF PipeWorks
  <2>. HIDE DEF Line
  <2>. QED
    BY <1>2, <1>3, <2>1, <2>2, <2>3
<1>6. ASSUME NEW kind \in {"frame", "nil", "badMetadata"}, PipeSends(kind)
      PROVE  StreamFunctionInv'
  <2>1. fwd' = Step("write", pfn.item) \/ fwd' = fwd \/ fwd' = Step("ended", 0)
    BY <1>6 DEF PipeSends
  <2>2. /\ Worked = {pfn.item} /\ Forwarded = {} /\ Worked' = {} /\ Held' = Held
    BY <1>6 DEF PipeSends, Worked, Held, Forwarded, Step
  <2>3. Forwarded' \subseteq {pfn.item}
    BY <1>6, <2>1 DEF PipeSends, Forwarded, Step
  <2>4. Line(Written, Forwarded', {}, Held)
    BY <1>0, <2>2, <2>3 DEF Pipeline, Below
  <2>5. pfn' \in StepType /\ fwd' \in StepType /\ wire' = wire /\ held' \in Nat
    BY <1>0, <1>3, <1>6, <2>1, StageTypes DEF PipeSends
  <2>. HIDE DEF Line
  <2>. QED
    BY <1>2, <2>2, <2>4, <2>5
<1>7. CASE ForwardCancelled
  <2>1. Forwarded' = {} /\ Worked' = Worked /\ Held' = Held
    BY <1>7 DEF ForwardCancelled, Worked, Held, Forwarded, Step
  <2>2. Line(Written, {}, Worked, Held)
    BY <1>0 DEF Pipeline, Below
  <2>3. pfn' = pfn /\ fwd' \in StepType /\ wire' = wire /\ held' \in Nat
    BY <1>0, <1>7, StageTypes DEF ForwardCancelled
  <2>. HIDE DEF Line
  <2>. QED
    BY <1>2, <1>3, <2>1, <2>2, <2>3
<1>8. CASE ForwardWrites
  <2>. DEFINE w == [ctx |-> 0, nth |-> 0, md |-> NewMetadata(NoTarget),
                    item |-> fwd.item]
  <2>1. wire' = Append(wire, w) /\ pfn' = pfn /\ fwd' \in StepType /\ held' \in Nat
    BY <1>0, <1>8, StageTypes DEF ForwardWrites
  <2>2. w \in WireType /\ w.ctx = 0 /\ w.item = fwd.item
    BY <1>0, <1>3 DEF WireType, Metadata, NewMetadata, AnyTarget
  <2>. HIDE DEF w
  <2>3. /\ Forwarded = {fwd.item} /\ Forwarded' = {} /\ Worked' = Worked
        /\ Held' = Held
    BY <1>8 DEF ForwardWrites, Worked, Held, Forwarded, Step
  <2>4. wire' \in Seq(WireType) /\ ContextsInv'
    BY <1>0, <2>1, <2>2, ForwardedAdded DEF StreamFunctionInv
  <2>5. Below(Written, {w.item})
    BY <1>0, <2>2, <2>3 DEF Pipeline
  <2>6. Written' = Written \union {fwd.item} /\ PipeInOrder'
    BY <1>0, <2>1, <2>2, <2>5, WrittenGrows
  <2>7. Line(Written \union {fwd.item}, {}, Worked, Held)
    BY <1>0, <2>3 DEF Pipeline, Below
  <2>8. PipeInv'
    BY <1>0, <1>1, <2>3, <2>6, <2>7 DEF StreamFunctionInv, PipeInv
  <2>9. TypeOK'
    BY <1>0, <1>3, <2>1, <2>4 DEF TypeOK
  <2>. QED
    BY <2>4, <2>6, <2>8, <2>9 DEF StreamFunctionInv
<1>. QED
  BY <1>4, <1>5, <1>6, <1>7, <1>8 DEF Pipe

-----------------------------------------------------------------------------
(***************************************************************************)
(* The theorems.                                                           *)
(***************************************************************************)

LEMMA InitHolds == Init => StreamFunctionInv
<1>. SUFFICES ASSUME Init PROVE StreamFunctionInv
  OBVIOUS
<1>1. /\ issued = 0 /\ inbox = <<>> /\ held = 0 /\ ctxs = <<>> /\ wire = <<>>
      /\ pfn = None /\ fwd = None /\ loop = "off"
  BY DEF Init
<1>2. TypeOK
  <2>1. None \in StepType
    BY DEF None, StepType
  <2>. QED
    BY <1>1, <2>1 DEF TypeOK
<1>3. /\ Written = {} /\ Forwarded = {} /\ Worked = {} /\ Held = {} /\ Waiting = {}
  BY <1>1 DEF Written, Forwarded, Worked, Held, Waiting, None
<1>4. PipeInv /\ PipeInOrder /\ ContextsInv
  BY <1>1, <1>3 DEF PipeInv, Pipeline, Below, PipeInOrder, ContextsInv
<1>. QED
  BY <1>2, <1>4 DEF StreamFunctionInv

LEMMA StepHolds ==
  ASSUME StreamFunctionInv, [Next]_vars
  PROVE  StreamFunctionInv'
<1>0. /\ TypeOK /\ PipeInv /\ PipeInOrder /\ ContextsInv /\ issued \in Nat
      /\ Pipeline(Written, Forwarded, Worked, Held, Waiting, issued)
  BY DEF StreamFunctionInv, TypeOK, PipeInv
\* Steps that write nothing and read nothing.
<1>1. ASSUME wire' = wire, inbox' = inbox, issued' \in Nat, issued <= issued',
             held' = held, pfn' \in StepType, fwd' \in StepType,
             Forwarded' \subseteq Forwarded, Worked' \subseteq Worked,
             Held' \subseteq Held,
             ctxs' \in Seq(ContextType), ContextsInv'
      PROVE  StreamFunctionInv'
  <2>1. Written' = Written /\ Waiting' = Waiting /\ PipeInOrder'
    BY <1>0, <1>1 DEF Written, Waiting, PipeInOrder
  <2>2. Pipeline(Written, Forwarded', Worked', Held', Waiting, issued')
    BY <1>0, <1>1, PipelineShrinks
  <2>3. PipeInv'
    BY <1>0, <1>1, <2>1, <2>2 DEF PipeInv
  <2>4. TypeOK'
    BY <1>0, <1>1 DEF TypeOK
  <2>. QED
    BY <1>1, <2>1, <2>3, <2>4 DEF StreamFunctionInv
<1>2. ASSUME UNCHANGED <<wire, inbox, issued, held, ctxs>>
      PROVE  /\ wire' = wire /\ inbox' = inbox /\ issued' \in Nat
             /\ issued <= issued' /\ held' = held
             /\ ctxs' \in Seq(ContextType) /\ ContextsInv'
  BY <1>0, <1>2 DEF TypeOK, ContextsInv
<1>3. pfn \in StepType /\ fwd \in StepType
  BY <1>0 DEF TypeOK
<1>4. ASSUME NEW target \in AnyTarget, NEW payload \in Payloads,
             SourceWrite(target, payload)
      PROVE  StreamFunctionInv'
  <2>1. issued' \in Nat /\ inbox' \in Seq(Frame) /\ PipeInv'
    BY <1>0, <1>4, SourceStep
  <2>2. UNCHANGED <<held, ctxs, pfn, fwd, wire>>
    BY <1>4 DEF SourceWrite
  <2>. QED
    BY <1>0, <2>1, <2>2 DEF StreamFunctionInv, TypeOK, PipeInOrder, ContextsInv
<1>5. CASE Connect
  <2>1. UNCHANGED <<wire, inbox, issued, held, ctxs, loop>>
    BY <1>5 DEF Connect
  <2>2. /\ pfn' \in {pfn, Step("recv", 0), None}
        /\ fwd' \in {fwd, Step("recv", 0), None}
    BY <1>5 DEF Connect, pipeVars
  <2>3. pfn' \in StepType /\ fwd' \in StepType
    BY <1>0, <1>3, <2>2, StageTypes
  <2>4. /\ Forwarded' \subseteq Forwarded /\ Worked' \subseteq Worked
        /\ Held' \subseteq Held
    BY <2>1, <2>2 DEF Forwarded, Worked, Held, Step, None
  <2>. QED
    BY <1>1, <1>2, <2>1, <2>3, <2>4
<1>6. ASSUME NEW ok \in BOOLEAN, ClientConnected(ok)
      PROVE  StreamFunctionInv'
  <2>1. UNCHANGED <<wire, inbox, issued, held, ctxs, pfn, fwd>> /\ loop' # "pIn"
    BY <1>6 DEF ClientConnected
  <2>2. Forwarded' = Forwarded /\ Worked' = Worked /\ Held' = {}
    BY <2>1 DEF Forwarded, Worked, Held
  <2>. QED
    BY <1>1, <1>2, <1>3, <2>1, <2>2
<1>7. CASE Close \/ LoopEnds \/ LoopCut
  <2>1. /\ UNCHANGED <<wire, inbox, issued, held, ctxs, pfn, fwd>>
        /\ loop' = loop \/ loop' = "off" \/ loop' = "cut"
    BY <1>7 DEF Close, LoopEnds, LoopCut
  <2>2. Forwarded' = Forwarded /\ Worked' = Worked /\ Held' \subseteq Held
    BY <2>1 DEF Forwarded, Worked, Held
  <2>. QED
    BY <1>1, <1>2, <1>3, <2>1, <2>2
<1>8. CASE CronTick
  <2>. DEFINE md == NewMetadata(NoTarget)
              d == NewContext("cron", md, "raw")
  <2>1. /\ issued' = issued + 1 /\ ctxs' = Append(ctxs, d)
        /\ UNCHANGED <<wire, inbox, held, loop, pfn, fwd>>
    BY <1>8 DEF CronTick
  <2>2. md \in Metadata /\ md.target = NoTarget
    BY <1>0 DEF Metadata, NewMetadata, AnyTarget
  <2>. HIDE DEF md
  <2>3. d \in ContextType /\ ContextInv(d)
    BY <2>2, NewContextInv DEF Payloads
  <2>. HIDE DEF d
  <2>4. ctxs' \in Seq(ContextType) /\ ContextsInv'
    BY <1>0, <2>1, <2>3, ContextAdded
  <2>5. Forwarded' = Forwarded /\ Worked' = Worked /\ Held' = Held
    BY <2>1 DEF Forwarded, Worked, Held
  <2>. QED
    BY <1>0, <1>1, <1>3, <2>1, <2>4, <2>5
<1>9. ASSUME NEW i \in DOMAIN ctxs, Context(i)
      PROVE  StreamFunctionInv'
  <2>1. /\ ctxs' \in Seq(ContextType) /\ ContextsInv'
        /\ UNCHANGED <<issued, inbox, loop, held, pfn, fwd>>
        /\ \/ wire' = wire
           \/ \E w \in WireType : wire' = Append(wire, w) /\ w.ctx # 0
    BY <1>0, <1>9, ContextStep
  <2>2. Forwarded' = Forwarded /\ Worked' = Worked /\ Held' = Held
    BY <2>1 DEF Forwarded, Worked, Held
  <2>3. CASE wire' = wire
    BY <1>0, <1>1, <1>3, <2>1, <2>2, <2>3
  <2>4. ASSUME NEW w \in WireType, wire' = Append(wire, w), w.ctx # 0
        PROVE  StreamFunctionInv'
    <3>1. Written' = Written /\ PipeInOrder'
      BY <1>0, <2>4, WrittenGrows
    <3>2. wire' \in Seq(WireType)
      <4>. HIDE DEF WireType
      <4>. QED
        BY <1>0, <2>4 DEF TypeOK
    <3>3. Waiting' = Waiting
      BY <2>1 DEF Waiting
    <3>4. PipeInv' /\ TypeOK'
      BY <1>0, <2>1, <2>2, <3>1, <3>2, <3>3 DEF PipeInv, TypeOK
    <3>. QED
      BY <2>1, <3>1, <3>4 DEF StreamFunctionInv
  <2>. QED
    BY <2>1, <2>3, <2>4
<1>10. CASE UNCHANGED vars
  BY <1>0, <1>10 DEF vars, StreamFunctionInv, TypeOK, PipeInv, PipeInOrder,
     ContextsInv, Written, Forwarded, Worked, Held, Waiting
<1>. QED
  BY <1>4, <1>5, <1>6, <1>7, <1>8, <1>9, <1>10, FrameStep, PipeStep DEF Next

\* The inductive invariant of the stream function.
THEOREM StreamFunctionInvariant == Spec => []StreamFunctionInv
<1>1. StreamFunctionInv /\ [Next]_vars => StreamFunctionInv'
  BY StepHolds
<1>. QED
  BY <1>1, InitHolds, PTL DEF Spec

\* The frames the pipe passes on leave in the order in which they arrived and
\* none twice, for any number of frames and whatever the user's function and
\* the forwarder drop (sfn.go, onDataFrame and the pipe).
THEOREM PipeKeepsOrder == Spec => []PipeInOrder
<1>1. StreamFunctionInv => PipeInOrder
  BY DEF StreamFunctionInv
<1>. QED
  BY <1>1, StreamFunctionInvariant, PTL

\* What a handler writes carries the transaction id of the frame it was called
\* for and the target named last on its own context, for any number of
\* contexts and of calls on them (core/serverless).
THEOREM MetadataIsKept == Spec => []MetadataFollows
<1>1. ContextsInv => MetadataFollows
  BY DEF ContextsInv, Follows, MetadataFollows
<1>2. StreamFunctionInv => MetadataFollows
  BY <1>1 DEF StreamFunctionInv
<1>. QED
  BY <1>2, StreamFunctionInvariant, PTL
=============================================================================
