--------------------------- MODULE AIBridgeProofs ---------------------------
(***************************************************************************)
(* Proofs about AIBridge, for any number of callers, credentials, requests,*)
(* tools, deltas and chunks, every size of the cache, and whatever the LLM *)
(* and the functions do.                                                   *)
(***************************************************************************)
EXTENDS AIBridge, Integers, FiniteSetTheorems, TLAPS

-----------------------------------------------------------------------------
(***************************************************************************)
(* Services and their cache.                                               *)
(***************************************************************************)

ServiceType ==
    [cred : STRING, source : {"none", "open", "closed", "remote"},
     reducer : {"none", "open", "closed", "remote"}]

Places == {"new", "down", "up", "source", "reducer", "add", "failing", "stuck"}

\* A client that has not been closed; the zipper may have done it.
Kept(state) == state \in {"open", "remote"}

ServiceTypeOK ==
    /\ cred \in [Servers -> STRING]
    /\ server \in [Servers -> Places]
    /\ svc \in [Servers -> Nat]
    /\ services \in Seq(ServiceType)
    /\ cache \in Seq(Nat)

\* There is one service for a credential.
Distinct(c, sv) == \A i, j \in DOMAIN c : sv[c[i]].cred = sv[c[j]].cred => i = j

\* What is cached has not been closed.
CacheInv ==
    /\ \A v \in Range(cache) :
         /\ v \in DOMAIN services
         /\ Kept(services[v].source) /\ Kept(services[v].reducer)
    /\ Distinct(cache, services)

Booting == {"source", "reducer", "add", "failing"}

\* A service that is being created belongs to one caller and is not cached yet.
BootInv(s) ==
    server[s] \in Booting =>
        /\ svc[s] \in DOMAIN services
        /\ services[svc[s]].cred = cred[s]
        /\ svc[s] \notin Range(cache)
        /\ \A t \in Servers : server[t] \in Booting /\ svc[t] = svc[s] => t = s
        /\ server[s] = "source" =>
             services[svc[s]].source = "none" /\ services[svc[s]].reducer = "none"
        /\ server[s] = "reducer" => Kept(services[svc[s]].source)
        /\ server[s] = "add" =>
             Kept(services[svc[s]].source) /\ Kept(services[svc[s]].reducer)

\* The service of a caller that is up has been connected once.
UpInv(s) ==
    server[s] = "up" => svc[s] \in DOMAIN services /\ services[svc[s]].source # "none"

\* Why a service that is not cached may be open.
Excused(v) ==
    \/ services[v].source # "open" /\ services[v].reducer # "open"
    \/ v \in displaced
    \/ services[v].source = "remote"
    \/ \E s \in Servers : svc[s] = v /\ server[s] \in {"failing", "reducer", "add"}

ServicesInv ==
    /\ ServiceTypeOK
    /\ CacheInv
    /\ \A s \in Servers : BootInv(s) /\ UpInv(s)
    /\ \A v \in DOMAIN services : v \in Range(cache) \/ Excused(v)

\* RemoveAt closes the gap.
LEMMA RemovedAt ==
  ASSUME NEW S, NEW q \in Seq(S), NEW i \in 1 .. Len(q)
  PROVE  /\ RemoveAt(q, i) \in Seq(S) /\ Len(RemoveAt(q, i)) = Len(q) - 1
         /\ \A k \in 1 .. Len(q) - 1 :
              RemoveAt(q, i)[k] = IF k < i THEN q[k] ELSE q[k + 1]
<1>. DEFINE a == SubSeq(q, 1, i - 1)
            b == SubSeq(q, i + 1, Len(q))
<1>1. Len(q) \in Nat /\ i \in Nat /\ 1 <= i /\ i <= Len(q)
  OBVIOUS
<1>2. a \in Seq(S) /\ Len(a) = i - 1 /\ \A k \in 1 .. i - 1 : a[k] = q[k]
  BY <1>1
<1>3. b \in Seq(S) /\ Len(b) = Len(q) - i /\ \A k \in 1 .. Len(q) - i : b[k] = q[k + i]
  BY <1>1
<1>. HIDE DEF a, b
<1>4. a \o b \in Seq(S) /\ Len(a \o b) = Len(q) - 1
  <2>1. a \in Seq(S) /\ b \in Seq(S)
    BY <1>2, <1>3
  <2>2. a \o b \in Seq(S) /\ Len(a \o b) = Len(a) + Len(b)
    BY <2>1
  <2>3. Len(a) + Len(b) = Len(q) - 1
    BY <1>1, <1>2, <1>3
  <2>. QED
    BY <2>2, <2>3
<1>5. ASSUME NEW k \in 1 .. Len(q) - 1
      PROVE  (a \o b)[k] = IF k < i THEN q[k] ELSE q[k + 1]
  <2>1. CASE k < i
    <3>1. (a \o b)[k] = a[k]
      BY <1>1, <1>2, <1>3, <2>1
    <3>. QED
      BY <1>1, <1>2, <2>1, <3>1
  <2>2. CASE ~(k < i)
    <3>1. (a \o b)[k] = b[k - (i - 1)]
      BY <1>1, <1>2, <1>3, <2>2
    <3>2. k - (i - 1) \in 1 .. Len(q) - i /\ (k - (i - 1)) + i = k + 1
      BY <1>1, <2>2
    <3>. QED
      BY <1>3, <2>2, <3>1, <3>2
  <2>. QED
    BY <2>1, <2>2
<1>. QED
  BY <1>4, <1>5 DEF RemoveAt, a, b

\* A cache without one of its entries, ...
LEMMA RestOf ==
  ASSUME NEW c \in Seq(Nat), NEW i \in DOMAIN c, NEW sv, Distinct(c, sv)
  PROVE  /\ RemoveAt(c, i) \in Seq(Nat) /\ Distinct(RemoveAt(c, i), sv)
         /\ Range(RemoveAt(c, i)) = Range(c) \ {c[i]}
         /\ \A v \in Range(RemoveAt(c, i)) : sv[v].cred # sv[c[i]].cred
<1>. DEFINE r == RemoveAt(c, i)
            At(k) == IF k < i THEN k ELSE k + 1
<1>1. DOMAIN c = 1 .. Len(c) /\ Len(c) \in Nat /\ i \in 1 .. Len(c)
  OBVIOUS
<1>2. /\ r \in Seq(Nat) /\ Len(r) = Len(c) - 1
      /\ \A k \in 1 .. Len(c) - 1 : r[k] = IF k < i THEN c[k] ELSE c[k + 1]
  BY <1>1, RemovedAt
<1>. HIDE DEF r
<1>3. DOMAIN r = 1 .. Len(c) - 1
  BY <1>2
<1>4. ASSUME NEW k \in DOMAIN r
      PROVE  At(k) \in DOMAIN c /\ At(k) # i /\ r[k] = c[At(k)]
  <2>0. k \in 1 .. Len(c) - 1
    BY <1>3
  <2>1. CASE k < i
    <3>1. At(k) = k /\ k \in 1 .. Len(c) /\ k # i
      BY <1>1, <2>0, <2>1
    <3>. QED
      BY <1>1, <1>2, <2>0, <2>1, <3>1
  <2>2. CASE ~(k < i)
    <3>1. At(k) = k + 1 /\ k + 1 \in 1 .. Len(c) /\ k + 1 # i
      BY <1>1, <2>0, <2>2
    <3>. QED
      BY <1>1, <1>2, <2>0, <2>2, <3>1
  <2>. QED
    BY <2>1, <2>2
<1>5. ASSUME NEW j \in DOMAIN c, j # i
      PROVE  \E k \in DOMAIN r : r[k] = c[j]
  <2>1. CASE j < i
    <3>1. j \in DOMAIN r /\ r[j] = c[j]
      BY <1>1, <1>2, <1>3, <2>1
    <3>. QED
      BY <3>1
  <2>2. CASE ~(j < i)
    <3>1. j - 1 \in 1 .. Len(c) - 1 /\ ~(j - 1 < i) /\ (j - 1) + 1 = j
      BY <1>1, <1>5, <2>2
    <3>2. j - 1 \in DOMAIN r /\ r[j - 1] = c[j]
      BY <1>2, <1>3, <3>1
    <3>. QED
      BY <3>2
  <2>. QED
    BY <2>1, <2>2
<1>6. Distinct(r, sv)
  <2>. SUFFICES ASSUME NEW k \in DOMAIN r, NEW l \in DOMAIN r,
                       sv[r[k]].cred = sv[r[l]].cred
                PROVE  k = l
    BY DEF Distinct
  <2>1. At(k) = At(l)
    <3>. HIDE DEF At
    <3>. QED
      BY <1>4 DEF Distinct
  <2>. QED
    BY <1>1, <1>3, <2>1
<1>7. \A j \in DOMAIN c : j # i => sv[c[j]].cred # sv[c[i]].cred
  BY DEF Distinct
<1>. HIDE DEF At
<1>8. Range(r) = Range(c) \ {c[i]}
  <2>1. Range(r) \subseteq Range(c) \ {c[i]}
    BY <1>4, <1>7 DEF Range
  <2>2. Range(c) \ {c[i]} \subseteq Range(r)
    BY <1>5 DEF Range
  <2>. QED
    BY <2>1, <2>2
<1>9. \A v \in Range(r) : sv[v].cred # sv[c[i]].cred
  BY <1>4, <1>7 DEF Range
<1>. QED
  BY <1>2, <1>6, <1>8, <1>9 DEF r

\* ... with one more, ...
LEMMA AppendOf ==
  ASSUME NEW c \in Seq(Nat), NEW v \in Nat, NEW sv, Distinct(c, sv),
         \A u \in Range(c) : sv[u].cred # sv[v].cred
  PROVE  /\ Append(c, v) \in Seq(Nat) /\ Distinct(Append(c, v), sv)
         /\ Range(Append(c, v)) = Range(c) \union {v}
<1>. DEFINE r == Append(c, v)
            n == Len(c) + 1
<1>1. /\ r \in Seq(Nat) /\ DOMAIN r = 1 .. n /\ DOMAIN c = 1 .. Len(c)
      /\ Len(c) \in Nat /\ r[n] = v /\ \A k \in DOMAIN c : r[k] = c[k]
  OBVIOUS
<1>2. /\ \A k \in DOMAIN r : k \in DOMAIN c \/ k = n
      /\ DOMAIN c \subseteq DOMAIN r /\ n \in DOMAIN r
  BY <1>1
<1>. HIDE DEF r, n
<1>3. Range(r) = Range(c) \union {v}
  BY <1>1, <1>2 DEF Range
<1>4. \A k \in DOMAIN c : c[k] \in Range(c)
  BY DEF Range
<1>5. Distinct(r, sv)
  BY <1>1, <1>2, <1>4 DEF Distinct
<1>. QED
  BY <1>1, <1>3, <1>5 DEF r

\* ... and without its oldest.
LEMMA TailOf ==
  ASSUME NEW c \in Seq(Nat), c # <<>>, NEW sv, Distinct(c, sv)
  PROVE  /\ Tail(c) \in Seq(Nat) /\ Distinct(Tail(c), sv)
         /\ Head(c) \in Range(c) /\ Range(Tail(c)) = Range(c) \ {Head(c)}
<1>. DEFINE r == Tail(c)
<1>1. /\ r \in Seq(Nat) /\ DOMAIN c = 1 .. Len(c) /\ Len(c) \in Nat /\ 1 \in DOMAIN c
      /\ DOMAIN r = 1 .. Len(c) - 1 /\ \A k \in 1 .. Len(c) - 1 : r[k] = c[k + 1]
      /\ Head(c) = c[1]
  OBVIOUS
<1>. HIDE DEF r
<1>2. \A k \in DOMAIN r : k \in Int /\ k + 1 \in DOMAIN c /\ k + 1 # 1 /\ r[k] = c[k + 1]
  BY <1>1
<1>3. \A j \in DOMAIN c : j # 1 => j - 1 \in DOMAIN r /\ r[j - 1] = c[j]
  <2>. TAKE j \in DOMAIN c
  <2>. HAVE j # 1
  <2>1. j - 1 \in 1 .. Len(c) - 1 /\ (j - 1) + 1 = j
    BY <1>1
  <2>. QED
    BY <1>1, <2>1
<1>4. Distinct(r, sv)
  <2>. SUFFICES ASSUME NEW k \in DOMAIN r, NEW l \in DOMAIN r,
                       sv[r[k]].cred = sv[r[l]].cred
                PROVE  k = l
    BY DEF Distinct
  <2>1. k + 1 = l + 1
    BY <1>2 DEF Distinct
  <2>. QED
    BY <1>2, <2>1
<1>5. \A j \in DOMAIN c : j # 1 => c[j] # c[1]
  BY <1>1 DEF Distinct
<1>6. Range(r) = Range(c) \ {c[1]}
  <2>1. Range(r) \subseteq Range(c) \ {c[1]}
    BY <1>2, <1>5 DEF Range
  <2>2. Range(c) \ {c[1]} \subseteq Range(r)
    BY <1>3 DEF Range
  <2>. QED
    BY <2>1, <2>2
<1>. QED
  BY <1>1, <1>4, <1>6 DEF Range, r

\* A caller goes on with the service it is creating.
LEMMA OwnStep ==
  ASSUME ServicesInv, NEW s \in Servers, server[s] \in Booting,
         NEW x \in {"reducer", "add", "failing"}, server' = [server EXCEPT ![s] = x],
         services' \in Seq(ServiceType), DOMAIN services' = DOMAIN services,
         \A u \in DOMAIN services : u # svc[s] => services'[u] = services[u],
         services'[svc[s]].cred = services[svc[s]].cred,
         services[svc[s]].source # "none" => services'[svc[s]].source # "none",
         x = "reducer" => Kept(services'[svc[s]].source),
         x = "add" => Kept(services'[svc[s]].source) /\ Kept(services'[svc[s]].reducer),
         UNCHANGED <<cred, svc, cache, displaced>>
  PROVE  ServicesInv'
<1>1. /\ ServiceTypeOK /\ CacheInv /\ BootInv(s)
      /\ \A t \in Servers : BootInv(t) /\ UpInv(t)
      /\ \A v \in DOMAIN services : v \in Range(cache) \/ Excused(v)
  BY DEF ServicesInv
<1>2. /\ server' \in [Servers -> Places]
      /\ server'[s] = x /\ \A t \in Servers : t # s => server'[t] = server[t]
  BY <1>1 DEF ServiceTypeOK, Places
<1>3. ServiceTypeOK'
  BY <1>1, <1>2 DEF ServiceTypeOK
<1>4. \A v \in Range(cache) : v \in DOMAIN services /\ services'[v] = services[v]
  BY <1>1 DEF CacheInv, BootInv
<1>5. CacheInv'
  <2>1. \A i \in DOMAIN cache : cache[i] \in Range(cache)
    BY DEF Range
  <2>2. Distinct(cache, services')
    BY <1>1, <1>4, <2>1 DEF CacheInv, Distinct
  <2>. QED
    BY <1>1, <1>4, <2>2 DEF CacheInv
<1>6. ASSUME NEW t \in Servers PROVE BootInv(t)'
  <2>1. CASE t = s
    BY <1>1, <1>2, <2>1 DEF BootInv, Booting
  <2>2. CASE t # s
    <3>. SUFFICES ASSUME server[t] \in Booting PROVE BootInv(t)'
      BY <1>2, <2>2 DEF BootInv
    <3>1. BootInv(t) /\ server'[t] = server[t] /\ svc[t] # svc[s]
      BY <1>1, <1>2, <2>2 DEF BootInv
    <3>2. services'[svc[t]] = services[svc[t]] /\ svc[t] \in DOMAIN services
      BY <3>1 DEF BootInv
    <3>3. \A u \in Servers : server'[u] \in Booting => server[u] \in Booting
      BY <1>2 DEF Booting
    <3>. QED
      BY <3>1, <3>2, <3>3 DEF BootInv
  <2>. QED
    BY <2>1, <2>2
<1>7. ASSUME NEW v \in DOMAIN services, v \notin Range(cache) PROVE Excused(v)'
  <2>1. CASE v = svc[s]
    BY <1>2, <2>1 DEF Excused
  <2>2. CASE v # svc[s]
    <3>1. Excused(v) /\ services'[v] = services[v]
      BY <1>1, <1>7, <2>2
    <3>2. \A t \in Servers : svc[t] = v => server'[t] = server[t]
      BY <1>2, <2>2
    <3>. QED
      BY <3>1, <3>2 DEF Excused
  <2>. QED
    BY <2>1, <2>2
<1>8. ASSUME NEW t \in Servers PROVE UpInv(t)'
  <2>. SUFFICES ASSUME server'[t] = "up" PROVE UpInv(t)'
    BY DEF UpInv
  <2>1. server[t] = "up" /\ UpInv(t)
    BY <1>1, <1>2
  <2>. QED
    BY <2>1 DEF UpInv
<1>. QED
  BY <1>3, <1>5, <1>6, <1>7, <1>8 DEF ServicesInv

LEMMA CreateStep ==
  ASSUME ServicesInv, NEW s \in Servers, NEW ok \in BOOLEAN,
         createSource(s, ok) \/ createReducer(s, ok)
  PROVE  ServicesInv'
<1>. DEFINE v == svc[s]
<1>1. ServiceTypeOK /\ BootInv(s) /\ services \in Seq(ServiceType)
  BY DEF ServicesInv, ServiceTypeOK
<1>2. /\ server[s] \in Booting /\ v \in DOMAIN services
      /\ UNCHANGED <<cred, svc, cache, displaced>>
  BY <1>1 DEF createSource, createReducer, BootInv, Booting
<1>3. services[v] \in ServiceType
  BY <1>1, <1>2
<1>4. CASE ~ok
  <2>1. server' = [server EXCEPT ![s] = "failing"] /\ services' = services
    BY <1>4 DEF createSource, createReducer
  <2>. QED
    BY <1>1, <1>2, <2>1, OwnStep
<1>5. CASE createSource(s, ok) /\ ok
  <2>. DEFINE d == [services[v] EXCEPT !.source = "open"]
  <2>1. d \in ServiceType /\ d.cred = services[v].cred /\ d.source = "open"
    BY <1>3 DEF ServiceType
  <2>2. server' = [server EXCEPT ![s] = "reducer"] /\ services' = [services EXCEPT ![v] = d]
    BY <1>1, <1>5 DEF createSource
  <2>. HIDE DEF d
  <2>3. /\ services' \in Seq(ServiceType) /\ DOMAIN services' = DOMAIN services
        /\ services'[v] = d /\ \A u \in DOMAIN services : u # v => services'[u] = services[u]
    <3>. HIDE DEF ServiceType
    <3>. QED
      BY <1>1, <1>2, <2>1, <2>2
  <2>4. Kept(d.source) /\ d.source # "none"
    BY <2>1 DEF Kept
  <2>. QED
    BY <1>2, <2>1, <2>2, <2>3, <2>4, OwnStep
<1>6. CASE createReducer(s, ok) /\ ok
  <2>. DEFINE d == [services[v] EXCEPT !.reducer = "open"]
  <2>0. Kept(services[v].source)
    BY <1>1, <1>6 DEF createReducer, BootInv, Booting
  <2>1. /\ d \in ServiceType /\ d.cred = services[v].cred /\ d.source = services[v].source
        /\ d.reducer = "open"
    BY <1>3, <2>0 DEF ServiceType
  <2>2. server' = [server EXCEPT ![s] = "add"] /\ services' = [services EXCEPT ![v] = d]
    BY <1>1, <1>6 DEF createReducer
  <2>. HIDE DEF d
  <2>3. /\ services' \in Seq(ServiceType) /\ DOMAIN services' = DOMAIN services
        /\ services'[v] = d /\ \A u \in DOMAIN services : u # v => services'[u] = services[u]
    <3>. HIDE DEF ServiceType
    <3>. QED
      BY <1>1, <1>2, <2>1, <2>2
  <2>4. Kept(d.source) /\ Kept(d.reducer) /\ d.source # "none"
    BY <2>0, <2>1 DEF Kept
  <2>. QED
    BY <1>2, <2>1, <2>2, <2>3, <2>4, OwnStep
<1>. QED
  BY <1>4, <1>5, <1>6

\* A caller finds its service in the cache, or no provider.
LEMMA IdleStep ==
  ASSUME ServicesInv, NEW s \in Servers, server[s] = "new",
         NEW x \in {"down", "up"}, server' = [server EXCEPT ![s] = x],
         NEW w \in Nat, svc' = [svc EXCEPT ![s] = w], x = "up" => w \in Range(cache),
         cache' \in Seq(Nat), Range(cache') = Range(cache), Distinct(cache', services),
         UNCHANGED <<cred, services, displaced>>
  PROVE  ServicesInv'
<1>1. /\ ServiceTypeOK /\ CacheInv /\ \A t \in Servers : BootInv(t) /\ UpInv(t)
      /\ \A v \in DOMAIN services : v \in Range(cache) \/ Excused(v)
  BY DEF ServicesInv
<1>2. /\ server' \in [Servers -> Places]
      /\ server'[s] = x /\ \A t \in Servers : t # s => server'[t] = server[t]
      /\ svc' \in [Servers -> Nat]
      /\ svc'[s] = w /\ \A t \in Servers : t # s => svc'[t] = svc[t]
  BY <1>1 DEF ServiceTypeOK, Places
<1>3. ServiceTypeOK'
  BY <1>1, <1>2 DEF ServiceTypeOK
<1>4. CacheInv'
  BY <1>1 DEF CacheInv
<1>5. \A t \in Servers : server'[t] \in Booting => t # s /\ server[t] \in Booting
  BY <1>2 DEF Booting
<1>6. ASSUME NEW t \in Servers PROVE BootInv(t)'
  <2>. SUFFICES ASSUME server'[t] \in Booting PROVE BootInv(t)'
    BY DEF BootInv
  <2>1. /\ BootInv(t) /\ t # s /\ server'[t] = server[t] /\ server[t] \in Booting
        /\ svc'[t] = svc[t]
    BY <1>1, <1>2, <1>5
  <2>2. \A u \in Servers : server'[u] \in Booting => server[u] \in Booting /\ svc'[u] = svc[u]
    BY <1>2, <1>5
  <2>. QED
    BY <2>1, <2>2 DEF BootInv
<1>7. ASSUME NEW v \in DOMAIN services, v \notin Range(cache) PROVE Excused(v)'
  <2>1. Excused(v)
    BY <1>1, <1>7
  <2>2. \A t \in Servers : server[t] \in {"failing", "reducer", "add"} =>
            server'[t] = server[t] /\ svc'[t] = svc[t]
    BY <1>2
  <2>. QED
    BY <2>1, <2>2 DEF Excused
<1>8. ASSUME NEW t \in Servers PROVE UpInv(t)'
  <2>1. CASE t = s
    BY <1>1, <1>2, <2>1 DEF UpInv, CacheInv, Kept
  <2>2. CASE t # s
    BY <1>1, <1>2, <2>2 DEF UpInv
  <2>. QED
    BY <2>1, <2>2
<1>. QED
  BY <1>3, <1>4, <1>6, <1>7, <1>8 DEF ServicesInv

\* A caller starts the service it has not found.
LEMMA NewStep ==
  ASSUME ServicesInv, NEW s \in Servers, server[s] = "new",
         server' = [server EXCEPT ![s] = "source"],
         svc' = [svc EXCEPT ![s] = Len(services) + 1],
         services' = Append(services,
             [cred |-> cred[s], source |-> "none", reducer |-> "none"]),
         UNCHANGED <<cred, cache, displaced>>
  PROVE  ServicesInv'
<1>. DEFINE n == Len(services) + 1
            d == [cred |-> cred[s], source |-> "none", reducer |-> "none"]
<1>1. /\ ServiceTypeOK /\ CacheInv /\ \A t \in Servers : BootInv(t) /\ UpInv(t)
      /\ \A v \in DOMAIN services : v \in Range(cache) \/ Excused(v)
      /\ services \in Seq(ServiceType)
  BY DEF ServicesInv, ServiceTypeOK
<1>2. /\ d \in ServiceType /\ d.cred = cred[s] /\ d.source = "none" /\ d.reducer = "none"
  BY <1>1 DEF ServiceTypeOK, ServiceType
<1>. HIDE DEF d
<1>3. /\ services' \in Seq(ServiceType) /\ services'[n] = d /\ n \in Nat
      /\ DOMAIN services' = DOMAIN services \union {n} /\ n \notin DOMAIN services
      /\ \A u \in DOMAIN services : services'[u] = services[u]
  <2>. HIDE DEF ServiceType
  <2>1. services' = Append(services, d)
    BY DEF d
  <2>. QED
    BY <1>1, <1>2, <2>1
<1>4. svc' = [svc EXCEPT ![s] = n]
  OBVIOUS
<1>. HIDE DEF n
<1>5. /\ server' \in [Servers -> Places]
      /\ server'[s] = "source" /\ \A t \in Servers : t # s => server'[t] = server[t]
      /\ svc' \in [Servers -> Nat] /\ svc'[s] = n
      /\ \A t \in Servers : t # s => svc'[t] = svc[t]
  BY <1>1, <1>3, <1>4 DEF ServiceTypeOK, Places
<1>6. ServiceTypeOK'
  BY <1>1, <1>3, <1>5 DEF ServiceTypeOK
<1>7. CacheInv'
  <2>1. \A i \in DOMAIN cache : cache[i] \in Range(cache)
    BY DEF Range
  <2>2. Distinct(cache, services')
    BY <1>1, <1>3, <2>1 DEF CacheInv, Distinct
  <2>. QED
    BY <1>1, <1>3, <2>2 DEF CacheInv
<1>8. n \notin Range(cache)
  BY <1>1, <1>3 DEF CacheInv
<1>9. \A t \in Servers : t # s /\ server'[t] \in Booting =>
        /\ server[t] \in Booting /\ server'[t] = server[t] /\ svc'[t] = svc[t]
        /\ BootInv(t) /\ svc[t] \in DOMAIN services /\ svc[t] # n
  BY <1>1, <1>3, <1>5 DEF BootInv
<1>10. ASSUME NEW t \in Servers PROVE BootInv(t)'
  <2>1. CASE t = s
    BY <1>2, <1>3, <1>5, <1>8, <1>9, <2>1 DEF BootInv, Booting
  <2>2. CASE t # s
    <3>. SUFFICES ASSUME server'[t] \in Booting PROVE BootInv(t)'
      BY DEF BootInv
    <3>1. /\ server[t] \in Booting /\ server'[t] = server[t] /\ svc'[t] = svc[t]
          /\ BootInv(t) /\ services'[svc[t]] = services[svc[t]]
      BY <1>3, <1>9, <2>2
    <3>2. \A u \in Servers : server'[u] \in Booting /\ svc'[u] = svc[t] =>
            server[u] \in Booting /\ svc[u] = svc[t]
      BY <1>5, <1>9, <2>2
    <3>. QED
      BY <1>3, <3>1, <3>2 DEF BootInv
  <2>. QED
    BY <2>1, <2>2
<1>11. ASSUME NEW v \in DOMAIN services', v \notin Range(cache) PROVE Excused(v)'
  <2>1. CASE v = n
    BY <1>2, <1>3, <2>1 DEF Excused
  <2>2. CASE v # n
    <3>1. Excused(v) /\ services'[v] = services[v]
      BY <1>1, <1>3, <1>11, <2>2
    <3>2. \A t \in Servers : server[t] \in {"failing", "reducer", "add"} =>
            server'[t] = server[t] /\ svc'[t] = svc[t]
      BY <1>5
    <3>. QED
      BY <3>1, <3>2 DEF Excused
  <2>. QED
    BY <2>1, <2>2
<1>12. ASSUME NEW t \in Servers PROVE UpInv(t)'
  BY <1>1, <1>3, <1>5 DEF UpInv
<1>. QED
  BY <1>6, <1>7, <1>10, <1>11, <1>12 DEF ServicesInv

LEMMA ServeStep ==
  ASSUME ServicesInv, NEW s \in Servers, Serve(s)
  PROVE  ServicesInv'
<1>1. /\ ServiceTypeOK /\ CacheInv /\ server[s] = "new"
      /\ UNCHANGED <<cred, displaced>>
  BY DEF ServicesInv, Serve
<1>2. svc \in [Servers -> Nat] /\ cache \in Seq(Nat) /\ Distinct(cache, services)
  BY <1>1 DEF ServiceTypeOK, CacheInv
<1>3. CASE GetProvider = "none"
  <2>1. server' = [server EXCEPT ![s] = "down"] /\ UNCHANGED <<svc, services, cache>>
    BY <1>3 DEF Serve
  <2>2. svc' = [svc EXCEPT ![s] = svc[s]] /\ svc[s] \in Nat
    BY <1>2, <2>1
  <2>3. cache' \in Seq(Nat) /\ Range(cache') = Range(cache) /\ Distinct(cache', services)
    BY <1>2, <2>1
  <2>. QED
    BY <1>1, <2>1, <2>2, <2>3, IdleStep
<1>4. CASE GetProvider # "none" /\ Entries(cred[s]) # {}
  <2>. DEFINE i == CHOOSE i \in Entries(cred[s]) : TRUE
              r == RemoveAt(cache, i)
  <2>1. i \in Entries(cred[s])
    BY <1>4
  <2>2. /\ server' = [server EXCEPT ![s] = "up"] /\ services' = services
        /\ svc' = [svc EXCEPT ![s] = cache[i]]
        /\ cache' = Append(r, cache[i])
    BY <1>4 DEF Serve
  <2>. HIDE DEF i
  <2>3. i \in DOMAIN cache /\ cache[i] \in Nat /\ cache[i] \in Range(cache)
    BY <1>2, <2>1 DEF Entries, Range
  <2>4. /\ r \in Seq(Nat) /\ Distinct(r, services)
        /\ Range(r) = Range(cache) \ {cache[i]}
        /\ \A v \in Range(r) : services[v].cred # services[cache[i]].cred
    BY <1>2, <2>3, RestOf
  <2>. HIDE DEF r
  <2>5. /\ cache' \in Seq(Nat) /\ Distinct(cache', services)
        /\ Range(cache') = Range(r) \union {cache[i]}
    BY <2>2, <2>3, <2>4, AppendOf
  <2>6. Range(cache') = Range(cache)
    BY <2>3, <2>4, <2>5
  <2>. QED
    BY <1>1, <2>2, <2>3, <2>5, <2>6, IdleStep
<1>5. CASE GetProvider # "none" /\ Entries(cred[s]) = {}
  <2>1. /\ server' = [server EXCEPT ![s] = "source"]
        /\ svc' = [svc EXCEPT ![s] = Len(services) + 1]
        /\ services' = Append(services,
              [cred |-> cred[s], source |-> "none", reducer |-> "none"])
        /\ cache' = cache
    BY <1>5 DEF Serve
  <2>. QED
    BY <1>1, <2>1, NewStep
<1>. QED
  BY <1>3, <1>4, <1>5

\* The cache without the service of a credential.
LEMMA WithoutCredential ==
  ASSUME ServicesInv, NEW c, NEW rest,
         rest = IF Entries(c) = {} THEN cache
                ELSE RemoveAt(cache, CHOOSE i \in Entries(c) : TRUE)
  PROVE  /\ rest \in Seq(Nat) /\ Distinct(rest, services) /\ Range(rest) \subseteq Range(cache)
         /\ \A u \in Range(rest) : services[u].cred # c
         /\ \A u \in Range(cache) : u \notin Range(rest) => u \in {cache[i] : i \in Entries(c)}
<1>1. cache \in Seq(Nat) /\ Distinct(cache, services)
  BY DEF ServicesInv, ServiceTypeOK, CacheInv
<1>2. CASE Entries(c) = {}
  BY <1>1, <1>2 DEF Entries, Range
<1>3. CASE Entries(c) # {}
  <2>. DEFINE i == CHOOSE i \in Entries(c) : TRUE
  <2>1. i \in Entries(c) /\ rest = RemoveAt(cache, i)
    BY <1>3
  <2>. HIDE DEF i
  <2>2. i \in DOMAIN cache /\ services[cache[i]].cred = c
    BY <2>1 DEF Entries
  <2>. DEFINE r == RemoveAt(cache, i)
  <2>3. /\ r \in Seq(Nat) /\ Distinct(r, services)
        /\ Range(r) = Range(cache) \ {cache[i]}
        /\ \A v \in Range(r) : services[v].cred # services[cache[i]].cred
    BY <1>1, <2>2, RestOf
  <2>4. r = rest
    BY <2>1
  <2>. QED
    BY <2>1, <2>2, <2>3, <2>4
<1>. QED
  BY <1>2, <1>3

LEMMA AddStep ==
  ASSUME ServicesInv, NEW s \in Servers, AddService(s)
  PROVE  ServicesInv'
<1>. DEFINE same == Entries(cred[s])
            rest == IF same = {} THEN cache
                    ELSE RemoveAt(cache, CHOOSE i \in same : TRUE)
            full == Len(rest) = ServiceCacheSize
            kept == IF full THEN Tail(rest) ELSE rest
            v == svc[s]
            h == Head(rest)
            x == IF full /\ ~ReleaseReturns(h) THEN "stuck" ELSE "up"
<1>1. /\ ServiceTypeOK /\ CacheInv /\ \A t \in Servers : BootInv(t) /\ UpInv(t)
      /\ \A u \in DOMAIN services : u \in Range(cache) \/ Excused(u)
      /\ services \in Seq(ServiceType)
  BY DEF ServicesInv, ServiceTypeOK
<1>0. x \in {"stuck", "up"}
  OBVIOUS
<1>2. /\ server[s] = "add" /\ server' = [server EXCEPT ![s] = x]
      /\ cache' = Append(kept, v)
      /\ services' = IF full THEN Release(h) ELSE services
      /\ displaced' = displaced \union {cache[i] : i \in same}
      /\ UNCHANGED <<cred, svc>>
  BY DEF AddService
<1>3. /\ rest \in Seq(Nat) /\ Distinct(rest, services) /\ Range(rest) \subseteq Range(cache)
      /\ \A u \in Range(rest) : services[u].cred # cred[s]
      /\ \A u \in Range(cache) : u \notin Range(rest) => u \in {cache[i] : i \in same}
  BY WithoutCredential
<1>. HIDE DEF same, rest
<1>4. /\ v \in DOMAIN services /\ services[v].cred = cred[s] /\ v \notin Range(cache)
      /\ Kept(services[v].source) /\ Kept(services[v].reducer) /\ v \in Nat
      /\ \A t \in Servers : server[t] \in Booting /\ svc[t] = v => t = s
  BY <1>1, <1>2 DEF BootInv, Booting, ServiceTypeOK
<1>5. \A u \in Range(cache) : /\ u \in DOMAIN services /\ Kept(services[u].source)
                              /\ Kept(services[u].reducer)
  BY <1>1 DEF CacheInv
<1>6. /\ kept \in Seq(Nat) /\ Distinct(kept, services) /\ Range(kept) \subseteq Range(rest)
      /\ full => h \in Range(rest) /\ Range(kept) = Range(rest) \ {h}
      /\ ~full => kept = rest
  <2>1. CASE full
    <3>1. rest # <<>>
      BY <2>1, AIBridgeAssumption
    <3>2. /\ Tail(rest) \in Seq(Nat) /\ Distinct(Tail(rest), services)
          /\ h \in Range(rest) /\ Range(Tail(rest)) = Range(rest) \ {h}
      BY <1>3, <3>1, TailOf
    <3>. QED
      BY <2>1, <3>2
  <2>2. CASE ~full
    BY <1>3, <2>2
  <2>. QED
    BY <2>1, <2>2
<1>7. /\ services' \in Seq(ServiceType) /\ DOMAIN services' = DOMAIN services
      /\ \A u \in DOMAIN services : services'[u].cred = services[u].cred
      /\ \A u \in DOMAIN services : ~full \/ u # h => services'[u] = services[u]
      /\ full => \/ services'[h].source = "remote"
                 \/ services'[h].source = "closed" /\ services'[h].reducer # "open"
  <2>1. CASE full
    <3>. DEFINE d == IF services[h].source = "remote" THEN services[h]
                     ELSE [services[h] EXCEPT !.source = "closed",
                             !.reducer = IF services[h].reducer = "remote" THEN "remote"
                                         ELSE "closed"]
    <3>1. h \in DOMAIN services
      BY <1>3, <1>5, <1>6, <2>1
    <3>2. services[h] \in ServiceType
      BY <1>1, <3>1
    <3>3. /\ d \in ServiceType /\ d.cred = services[h].cred
          /\ \/ d.source = "remote"
             \/ d.source = "closed" /\ d.reducer # "open"
      BY <3>2 DEF ServiceType
    <3>4. services' = [services EXCEPT ![h] = d]
      <4>. HIDE DEF h, full
      <4>. QED
        BY <1>1, <1>2, <2>1, <3>1 DEF Release
    <3>. HIDE DEF d, h
    <3>5. /\ services' \in Seq(ServiceType) /\ DOMAIN services' = DOMAIN services
          /\ services'[h] = d /\ \A u \in DOMAIN services : u # h => services'[u] = services[u]
      <4>. HIDE DEF ServiceType, full
      <4>. QED
        BY <1>1, <3>1, <3>3, <3>4
    <3>. QED
      BY <2>1, <3>1, <3>3, <3>5
  <2>2. CASE ~full
    BY <1>1, <1>2, <2>2
  <2>. QED
    BY <2>1, <2>2
<1>. HIDE DEF kept, h, full, x
<1>8. \A u \in Range(kept) : services[u].cred # services[v].cred
  BY <1>3, <1>4, <1>6
<1>9. /\ cache' \in Seq(Nat) /\ Distinct(cache', services)
      /\ Range(cache') = Range(kept) \union {v}
  BY <1>2, <1>4, <1>6, <1>8, AppendOf
<1>10. /\ \A u \in Range(cache') : u \in DOMAIN services /\ services'[u] = services[u]
       /\ services'[v] = services[v] /\ Range(kept) \subseteq Range(cache)
  BY <1>3, <1>4, <1>5, <1>6, <1>7, <1>9
<1>11. /\ server' \in [Servers -> Places]
       /\ server'[s] = x /\ \A t \in Servers : t # s => server'[t] = server[t]
  BY <1>0, <1>1, <1>2 DEF ServiceTypeOK, Places
<1>12. ServiceTypeOK'
  BY <1>1, <1>2, <1>7, <1>9, <1>11 DEF ServiceTypeOK
<1>13. CacheInv'
  <2>1. \A i \in DOMAIN cache' : cache'[i] \in Range(cache')
    BY DEF Range
  <2>2. Distinct(cache', services')
    BY <1>9, <1>10, <2>1 DEF Distinct
  <2>. QED
    BY <1>4, <1>5, <1>7, <1>9, <1>10, <2>2 DEF CacheInv
<1>14. ASSUME NEW t \in Servers PROVE BootInv(t)'
  <2>. SUFFICES ASSUME server'[t] \in Booting PROVE BootInv(t)'
    BY DEF BootInv
  <2>1. /\ t # s /\ server[t] \in Booting /\ server'[t] = server[t] /\ BootInv(t)
        /\ svc'[t] = svc[t]
    BY <1>0, <1>1, <1>2, <1>11 DEF Booting
  <2>2. /\ svc[t] \in DOMAIN services /\ svc[t] # v /\ svc[t] \notin Range(cache)
    BY <1>4, <2>1 DEF BootInv
  <2>3. services'[svc[t]] = services[svc[t]] /\ svc[t] \notin Range(cache')
    BY <1>3, <1>6, <1>7, <1>9, <1>10, <2>2
  <2>4. \A u \in Servers : server'[u] \in Booting => server[u] \in Booting /\ svc'[u] = svc[u]
    BY <1>0, <1>2, <1>11 DEF Booting
  <2>. QED
    BY <1>2, <1>7, <2>1, <2>2, <2>3, <2>4 DEF BootInv
<1>15. ASSUME NEW u \in DOMAIN services, u \notin Range(cache') PROVE Excused(u)'
  <2>0. u # v /\ u \notin Range(kept)
    BY <1>9, <1>15
  <2>1. CASE u \notin Range(cache)
    <3>1. Excused(u) /\ services'[u] = services[u]
      BY <1>1, <1>3, <1>6, <1>7, <2>1
    <3>2. \A t \in Servers : svc[t] = u => server'[t] = server[t]
      BY <1>11, <2>0
    <3>. QED
      BY <1>2, <3>1, <3>2 DEF Excused
  <2>2. CASE u \in Range(cache) /\ u \notin Range(rest)
    BY <1>2, <1>3, <2>2 DEF Excused
  <2>3. CASE u \in Range(rest)
    <3>1. full /\ u = h
      BY <1>6, <2>0, <2>3
    <3>. QED
      BY <1>7, <3>1 DEF Excused
  <2>. QED
    BY <2>1, <2>2, <2>3
<1>16. \A u \in DOMAIN services :
         services[u].source # "none" => services'[u].source # "none"
  BY <1>7
<1>17. ASSUME NEW t \in Servers PROVE UpInv(t)'
  <2>1. CASE t = s
    <3>1. services[v].source # "none"
      BY <1>4 DEF Kept
    <3>. QED
      BY <1>2, <1>4, <1>7, <1>16, <2>1, <3>1 DEF UpInv
  <2>2. CASE t # s
    BY <1>1, <1>2, <1>7, <1>11, <1>16, <2>2 DEF UpInv
  <2>. QED
    BY <2>1, <2>2
<1>. QED
  BY <1>7, <1>12, <1>13, <1>14, <1>15, <1>17 DEF ServicesInv

\* The zipper closes the connection of a client.
LEMMA CutStep ==
  ASSUME ServicesInv, NEW v \in DOMAIN services, NEW client \in {"source", "reducer"},
         ZipperCloses(v, client)
  PROVE  ServicesInv'
<1>. DEFINE d == [services[v] EXCEPT ![client] = "remote"]
<1>1. /\ ServiceTypeOK /\ CacheInv /\ \A t \in Servers : BootInv(t) /\ UpInv(t)
      /\ \A u \in DOMAIN services : u \in Range(cache) \/ Excused(u)
      /\ services \in Seq(ServiceType) /\ services[v] \in ServiceType
  BY DEF ServicesInv, ServiceTypeOK
<1>2. /\ services' = [services EXCEPT ![v] = d] /\ services[v][client] = "open"
      /\ UNCHANGED <<cred, server, svc, cache, displaced>>
  BY DEF ZipperCloses
<1>3. /\ d \in ServiceType /\ d.cred = services[v].cred
      /\ \/ services[v].source = "open" /\ d.source = "remote" /\ d.reducer = services[v].reducer
         \/ services[v].reducer = "open" /\ d.reducer = "remote" /\ d.source = services[v].source
  <2>1. CASE client = "source"
    BY <1>1, <1>2, <2>1 DEF ServiceType
  <2>2. CASE client = "reducer"
    BY <1>1, <1>2, <2>2 DEF ServiceType
  <2>. QED
    BY <2>1, <2>2
<1>. HIDE DEF d
<1>4. /\ services' \in Seq(ServiceType) /\ DOMAIN services' = DOMAIN services
      /\ services'[v] = d /\ \A u \in DOMAIN services : u # v => services'[u] = services[u]
  <2>. HIDE DEF ServiceType
  <2>. QED
    BY <1>1, <1>2, <1>3
<1>5. \A u \in DOMAIN services :
        /\ services'[u].cred = services[u].cred
        /\ Kept(services[u].source) => Kept(services'[u].source)
        /\ Kept(services[u].reducer) => Kept(services'[u].reducer)
        /\ services[u].source = "none" <=> services'[u].source = "none"
        /\ services[u].reducer = "none" <=> services'[u].reducer = "none"
        /\ services[u].source = "remote" => services'[u].source = "remote"
        /\ services[u].source # "open" => services'[u].source = services[u].source
        /\ services[u].reducer # "open" => services'[u].reducer = services[u].reducer
  <2>. TAKE u \in DOMAIN services
  <2>1. CASE u = v
    BY <1>3, <1>4, <2>1 DEF Kept
  <2>2. CASE u # v
    BY <1>4, <2>2
  <2>. QED
    BY <2>1, <2>2
<1>6. ServiceTypeOK'
  BY <1>1, <1>2, <1>4 DEF ServiceTypeOK
<1>7. CacheInv'
  <2>1. \A i \in DOMAIN cache : cache[i] \in Range(cache)
    BY DEF Range
  <2>2. \A u \in Range(cache) : u \in DOMAIN services
    BY <1>1 DEF CacheInv
  <2>3. Distinct(cache, services')
    BY <1>1, <1>5, <2>1, <2>2 DEF CacheInv, Distinct
  <2>. QED
    BY <1>1, <1>2, <1>4, <1>5, <2>3 DEF CacheInv
<1>8. ASSUME NEW t \in Servers PROVE BootInv(t)' /\ UpInv(t)'
  BY <1>1, <1>2, <1>4, <1>5 DEF BootInv, UpInv
<1>9. ASSUME NEW u \in DOMAIN services, u \notin Range(cache) PROVE Excused(u)'
  BY <1>1, <1>2, <1>5, <1>9 DEF Excused
<1>. QED
  BY <1>2, <1>4, <1>6, <1>7, <1>8, <1>9 DEF ServicesInv

\* Nothing but the start of a caller touches the services.
LEMMA RequestsLeaveServices ==
  ASSUME NEW r \in Requests,
         \/ Handle(r) \/ Expire(r) \/ InvokeReturns(r) \/ LLM(r) \/ Chunk(r)
         \/ Functions(r) \/ \E p \in req[r].pending : FunctionAnswers(r, p)
  PROVE  UNCHANGED serverVars
<1>1. CASE Handle(r)
  BY <1>1 DEF Handle, HandleFailing, HandleOverview, HandleInvoke, HandleChatCompletions, Become
<1>2. CASE Expire(r) \/ InvokeReturns(r) \/ Chunk(r)
  BY <1>2 DEF Expire, InvokeReturns, Chunk, RecvText, RecvDelta, RecvNoIndex, Become, Panic
<1>3. CASE LLM(r)
  <2>1. CASE ProviderPanics(r) \/ RecvError(r) \/ SecondEOF(r)
    BY <2>1 DEF ProviderPanics, RecvError, SecondEOF, Become, Panic
  <2>2. ASSUME NEW reason \in Reasons, NEW calls, FirstAnswer(r, reason, calls)
        PROVE  UNCHANGED serverVars
    BY <2>2 DEF FirstAnswer, Become, Panic, Reasons
  <2>3. ASSUME NEW reason \in Reasons, NEW calls, SecondAnswer(r, reason, calls)
        PROVE  UNCHANGED serverVars
    BY <2>3 DEF SecondAnswer, Become, Panic
  <2>4. CASE \E ok \in BOOLEAN : OpenStream(r, ok)
    BY <2>4 DEF OpenStream, Become
  <2>5. CASE FirstEOF(r)
    BY <2>5 DEF FirstEOF, Become, Panic
  <2>. QED
    BY <1>3, <2>1, <2>2, <2>3, <2>4, <2>5 DEF LLM
<1>4. CASE Functions(r) \/ \E p \in req[r].pending : FunctionAnswers(r, p)
  BY <1>4 DEF Functions, FireCalls, WaitReturns, FunctionAnswers, Become
<1>. QED
  BY <1>1, <1>2, <1>3, <1>4

\* A step that leaves the services alone.
LEMMA ServicesUntouched ==
  ASSUME ServicesInv, UNCHANGED serverVars
  PROVE  ServicesInv'
BY DEF ServicesInv, ServiceTypeOK, CacheInv, BootInv, UpInv, Excused, serverVars

\* Services stay as ServicesInv says.
THEOREM ServicesInvariant == Spec => []ServicesInv
<1>1. Init => ServicesInv
  <2>. SUFFICES ASSUME Init PROVE ServicesInv
    OBVIOUS
  <2>0. services = <<>> /\ cache = <<>>
    BY DEF Init
  <2>1. services = <<>> /\ cache = <<>> /\ DOMAIN services = {} /\ DOMAIN cache = {}
    BY <2>0
  <2>2. services \in Seq(ServiceType)
    BY <2>1
  <2>3. cache \in Seq(Nat)
    BY <2>1
  <2>4. ServiceTypeOK
    BY <2>2, <2>3, AIBridgeAssumption DEF Init, ServiceTypeOK, Places
  <2>5. Range(cache) = {}
    BY <2>1 DEF Range
  <2>6. CacheInv
    BY <2>1, <2>5 DEF CacheInv, Distinct
  <2>7. \A s \in Servers : BootInv(s) /\ UpInv(s)
    BY DEF Init, BootInv, UpInv, Booting
  <2>. QED
    BY <2>1, <2>4, <2>6, <2>7 DEF ServicesInv
<1>2. ServicesInv /\ [Next]_vars => ServicesInv'
  <2>. SUFFICES ASSUME ServicesInv, [Next]_vars PROVE ServicesInv'
    OBVIOUS
  <2>1. ASSUME NEW s \in Servers, Boot(s) PROVE ServicesInv'
    BY <2>1, ServeStep, AddStep, CreateStep DEF Boot
  <2>4. CASE Cut
    BY <2>4, CutStep DEF Cut
  <2>2. ASSUME NEW r \in Requests,
               \/ Handle(r) \/ Expire(r) \/ InvokeReturns(r) \/ LLM(r) \/ Chunk(r)
               \/ Functions(r) \/ \E p \in req[r].pending : FunctionAnswers(r, p)
        PROVE  ServicesInv'
    BY <2>2, RequestsLeaveServices, ServicesUntouched
  <2>3. CASE UNCHANGED vars
    BY <2>3, ServicesUntouched DEF vars, serverVars
  <2>. QED
    BY <2>1, <2>2, <2>3, <2>4 DEF Next
<1>. QED
  BY <1>1, <1>2, PTL DEF Spec

\* Callers may look up, create, add and evict services in any order, two of one
\* credential at once too, and the zipper close their connections: the cache holds
\* one service for a credential, which the bridge has not closed and which is
\* in nobody's making, and every other service is closed or one of the known leaks
\* (LoadOrCreateService, newService, the LRU's eviction).
THEOREM ServicesAccounted == Spec => []OpenIsAccountedFor
<1>1. ServicesInv => OpenIsAccountedFor
  BY DEF ServicesInv, CacheInv, Kept, Excused, OpenIsAccountedFor
<1>. QED
  BY <1>1, ServicesInvariant, PTL

-----------------------------------------------------------------------------
(***************************************************************************)
(* Requests.                                                               *)
(***************************************************************************)

\* What the code writes.
Word == {"none", "any", "overview", "invoke", "chat", "stream",
         "idle", "llm1", "stream1", "fire", "wait", "llm2", "stream2", "done",
         "select", "handler", "res", "err",
         "text", "aborted", "error", "answer", "functions", "DONE"}
Active == {"llm1", "stream1", "fire", "wait", "llm2", "stream2"}
Pairs == (DOMAIN ToolName) \X Nat
MapType == UNION {[D -> CallType] : D \in SUBSET Nat}

RequestType ==
    [kind : Word, srv : Servers \union {"none"}, pc : Word, at : Word, code : Nat,
     body : Seq(Word), messages : Seq(MessageType), messages2 : Seq(MessageType),
     prompt : {"", "prompt"}, heard : Seq(DeltaType), toolCallsMap : MapType,
     toolCalls : Seq(CallType), hits : SUBSET Pairs, fired : SUBSET Pairs,
     pending : SUBSET Pairs, val : SUBSET Text, expired : BOOLEAN, result : Word]

NotText(b) == {i \in DOMAIN b : b[i] # "text"}

\* The handler of a stream ends with it, and only then it writes another thing
\* than text.
EndsInv(q) == q.kind = "stream" =>
    /\ q.at = IF q.pc = "done" THEN "done" ELSE "handler"
    /\ NotText(q.body) = IF q.pc = "done" THEN {Len(q.body)} ELSE {}

\* The map has a call for every index heard, put together from its deltas.
Hears(h, calls) ==
    /\ DOMAIN calls = {h[k].index : k \in DOMAIN h}
    /\ \A i \in DOMAIN calls : IsCallOf(h, i, calls[i])

Reassembled(h, calls) ==
    /\ \A i \in DOMAIN calls : IsCallOf(h, i - 1, calls[i])
    /\ \A k \in DOMAIN h : h[k].index + 1 \in DOMAIN calls

CallsInv(q) ==
    /\ q.pc = "stream1" => q.kind = "stream"
    /\ q.kind = "stream" =>
         /\ q.pc \in {"llm1", "stream1"} => Hears(q.heard, q.toolCallsMap)
         /\ q.pc \in {"fire", "wait", "llm2", "stream2"} => Reassembled(q.heard, q.toolCalls)

With(m, role) == {i \in DOMAIN m : m[i].role = role}

\* The prompt that was set is in force.
Forced(m, sysPrompt) ==
    With(m, "system") # {} /\ \A i \in With(m, "system") : m[i].what = sysPrompt
Prompted(m, sysPrompt) == sysPrompt # "" => Forced(m, sysPrompt)

\* The ids of the calls that were hit by some pairs.
IdsOf(calls, S) == {calls[p[2]].id : p \in S}

\* m is x with an assistant's message put in and, behind it, answers to ids.
Second(m, x, calls, ids) == \E a, b \in DOMAIN m :
    /\ a <= b
    /\ m[a] = Assistant(calls)
    /\ \A i \in a + 1 .. b : m[i].role = "tool"
    /\ \A i, j \in a + 1 .. b : m[i].what = m[j].what => i = j
    /\ {m[i].what : i \in a + 1 .. b} = ids
    /\ Len(m) = Len(x) + (b - a) + 1
    /\ \A i \in DOMAIN x : x[i] = m[IF i < a THEN i ELSE i + (b - a) + 1]

MessagesInv(q) ==
    /\ q.pc \in Active =>
         /\ Prompted(q.messages, q.prompt)
         /\ q.kind = "invoke" => q.messages = prepareMessages(<<>>)
    /\ q.pc \in {"llm1", "stream1", "fire"} => q.val = {}
    /\ q.pc \in {"fire", "wait", "llm2", "stream2"} =>
         q.hits \subseteq (DOMAIN ToolName) \X (DOMAIN q.toolCalls)
    /\ q.pc \in {"wait", "llm2", "stream2"} => q.fired \subseteq q.hits
    /\ q.pc = "wait" =>
         /\ q.pending \subseteq q.fired
         /\ q.val \union IdsOf(q.toolCalls, q.pending) = IdsOf(q.toolCalls, q.fired)
    /\ q.pc \in {"llm2", "stream2"} =>
         /\ Second(q.messages2, q.messages, q.toolCalls, IdsOf(q.toolCalls, q.fired))
         /\ Prompted(q.messages2, q.prompt)

\* Given the callers that are up, and of them those whose source is closed.
FiredInv(q, up, gone) ==
    /\ q.pc \in Active => q.srv \in up
    /\ q.pc \in {"wait", "llm2", "stream2"} => q.fired = q.hits \/ q.srv \in gone

RequestInv(q, up, gone) ==
    /\ q \in RequestType
    /\ EndsInv(q) /\ CallsInv(q) /\ MessagesInv(q) /\ FiredInv(q, up, gone)

Up == {s \in Servers : server[s] = "up"}
Gone == {s \in Up : services[svc[s]].source # "open"}

RequestsInv ==
    /\ prompt \in {"", "prompt"}
    /\ req \in [Requests -> RequestType]
    /\ \A r \in Requests : RequestInv(req[r], Up, Gone)

LEMMA Words ==
  /\ "none" \in Word /\ "any" \in Word /\ "overview" \in Word /\ "invoke" \in Word
  /\ "chat" \in Word /\ "stream" \in Word /\ "idle" \in Word /\ "llm1" \in Word
  /\ "stream1" \in Word /\ "fire" \in Word /\ "wait" \in Word /\ "llm2" \in Word
  /\ "stream2" \in Word /\ "done" \in Word /\ "select" \in Word
  /\ "handler" \in Word /\ "res" \in Word /\ "err" \in Word /\ "text" \in Word
  /\ "aborted" \in Word /\ "error" \in Word /\ "answer" \in Word
  /\ "functions" \in Word /\ "DONE" \in Word
BY DEF Word

\* A write at the end of a body of text.
LEMMA Written ==
  ASSUME NEW b \in Seq(Word), NEW part \in Word, NotText(b) = {}
  PROVE  /\ Append(b, part) \in Seq(Word)
         /\ NotText(Append(b, part)) =
              IF part = "text" THEN {} ELSE {Len(Append(b, part))}
<1>. DEFINE c == Append(b, part)
<1>1. /\ c \in Seq(Word) /\ Len(c) = Len(b) + 1 /\ Len(b) \in Nat
      /\ DOMAIN c = 1 .. Len(c) /\ DOMAIN b = 1 .. Len(b)
      /\ c[Len(c)] = part /\ \A k \in DOMAIN b : c[k] = b[k]
  OBVIOUS
<1>. HIDE DEF c
<1>2. \A k \in DOMAIN c : k \in DOMAIN b \/ k = Len(c)
  BY <1>1
<1>3. Len(c) \in DOMAIN c
  BY <1>1
<1>4. \A k \in DOMAIN b : b[k] = "text"
  BY DEF NotText
<1>5. NotText(c) = IF part = "text" THEN {} ELSE {Len(c)}
  BY <1>1, <1>2, <1>3, <1>4 DEF NotText
<1>. QED
  BY <1>1, <1>5 DEF c

LEMMA EmptyMap ==
  ASSUME NEW f, f = [i \in {} |-> i]
  PROVE  f \in MapType /\ DOMAIN f = {}
<1>1. f \in [{} -> CallType] /\ {} \in SUBSET Nat
  OBVIOUS
<1>. QED
  BY <1>1 DEF MapType

LEMMA NewRequestType ==
  /\ NewRequest \in RequestType /\ NewRequest.kind = "none" /\ NewRequest.pc = "idle"
  /\ NewRequest.body = <<>> /\ NewRequest.heard = <<>>
  /\ DOMAIN NewRequest.toolCallsMap = {} /\ NewRequest.prompt = "" /\ NewRequest.val = {}
<1>. DEFINE f == [i \in {} |-> i]
<1>1. /\ <<>> \in Seq(Word) /\ <<>> \in Seq(MessageType) /\ <<>> \in Seq(DeltaType)
      /\ <<>> \in Seq(CallType)
  OBVIOUS
<1>2. f \in MapType /\ DOMAIN f = {}
  BY EmptyMap
<1>3. NewRequest.toolCallsMap = f
  BY DEF NewRequest
<1>. HIDE DEF f
<1>4. {} \in SUBSET Pairs /\ {} \in SUBSET Text
  OBVIOUS
<1>5. NewRequest \in RequestType
  BY <1>1, <1>2, <1>4, Words DEF NewRequest, RequestType, f
<1>. QED
  BY <1>2, <1>3, <1>5 DEF NewRequest

\* What the two ends of a handler change.
LEMMA ForgottenFields ==
  ASSUME NEW q \in RequestType
  PROVE  LET p == Forgotten(q)
         IN  /\ p \in RequestType /\ p.kind = q.kind /\ p.pc = "done" /\ p.at = q.at
             /\ p.body = q.body
<1>. DEFINE n == NewRequest
            p == [n EXCEPT !.kind = q.kind, !.pc = "done", !.at = q.at, !.code = q.code,
                       !.body = q.body, !.expired = q.expired, !.result = q.result]
<1>1. n \in RequestType
  BY NewRequestType
<1>2. Forgotten(q) = p
  BY DEF Forgotten
<1>. HIDE DEF n
<1>3. p \in RequestType /\ p.kind = q.kind /\ p.pc = "done" /\ p.at = q.at /\ p.body = q.body
  BY <1>1, Words DEF RequestType
<1>. HIDE DEF p
<1>. QED
  BY <1>2, <1>3

LEMMA ReturnedType ==
  ASSUME NEW q \in RequestType
  PROVE  LET p == Returned(q)
         IN  /\ p \in RequestType /\ p.kind = q.kind /\ p.pc = "done" /\ p.at = "done"
             /\ p.body = q.body
<1>. DEFINE f == Forgotten(q)
            p == [f EXCEPT !.at = "done"]
<1>1. f \in RequestType /\ f.kind = q.kind /\ f.pc = "done" /\ f.body = q.body
  BY ForgottenFields
<1>2. Returned(q) = p
  BY DEF Returned
<1>. HIDE DEF f
<1>3. p \in RequestType /\ p.kind = f.kind /\ p.pc = f.pc /\ p.at = "done" /\ p.body = f.body
  BY <1>1, Words DEF RequestType
<1>. HIDE DEF p
<1>. QED
  BY <1>1, <1>2, <1>3

LEMMA Responded ==
  ASSUME NEW q \in RequestType, NEW code \in Nat, NEW part \in Word
  PROVE  LET p == Respond(q, code, part)
         IN  /\ p \in RequestType /\ p.kind = q.kind /\ p.pc = q.pc /\ p.at = q.at
             /\ p.body = Append(q.body, part)
<1>. DEFINE c == IF q.code = 0 THEN code ELSE q.code
            b == Append(q.body, part)
            p == [q EXCEPT !.code = c, !.body = b]
<1>1. c \in Nat /\ b \in Seq(Word)
  <2>1. q.body \in Seq(Word) /\ q.code \in Nat
    BY DEF RequestType
  <2>. QED
    BY <2>1
<1>2. Respond(q, code, part) = p
  BY DEF Respond
<1>. HIDE DEF c, b
<1>3. p \in RequestType /\ p.kind = q.kind /\ p.pc = q.pc /\ p.at = q.at /\ p.body = b
  BY <1>1 DEF RequestType
<1>. HIDE DEF p
<1>. QED
  BY <1>2, <1>3 DEF b

LEMMA ReturnedFields ==
  ASSUME NEW q \in RequestType, NEW code \in Nat, NEW part \in Word
  PROVE  LET p == Returned(Respond(q, code, part))
         IN  /\ p \in RequestType /\ p.kind = q.kind /\ p.pc = "done" /\ p.at = "done"
             /\ p.body = Append(q.body, part)
<1>. DEFINE e == Respond(q, code, part)
<1>1. e \in RequestType /\ e.kind = q.kind /\ e.body = Append(q.body, part)
  BY Responded
<1>. HIDE DEF e
<1>2. LET p == Returned(e)
      IN  /\ p \in RequestType /\ p.kind = e.kind /\ p.pc = "done" /\ p.at = "done"
          /\ p.body = e.body
  BY <1>1, ReturnedType
<1>. QED
  BY <1>1, <1>2 DEF e

\* A request that is over.
LEMMA DoneStep ==
  ASSUME NEW p \in RequestType, p.pc = "done", NEW up, NEW gone,
         p.kind = "stream" => p.at = "done" /\ NotText(p.body) = {Len(p.body)}
  PROVE  RequestInv(p, up, gone)
BY DEF RequestInv, EndsInv, CallsInv, MessagesInv, FiredInv, Active

LEMMA EndStep ==
  ASSUME NEW up, NEW gone, NEW q, RequestInv(q, up, gone), q.pc # "done",
         NEW part \in Word \ {"text"}, NEW p \in RequestType, p.kind = q.kind, p.pc = "done",
         q.kind = "stream" => p.at = "done" /\ p.body = Append(q.body, part)
  PROVE  RequestInv(p, up, gone)
<1>1. q \in RequestType /\ EndsInv(q)
  BY DEF RequestInv
<1>2. ASSUME q.kind = "stream" PROVE NotText(p.body) = {Len(p.body)}
  <2>1. NotText(q.body) = {} /\ q.body \in Seq(Word)
    BY <1>1, <1>2 DEF EndsInv, RequestType
  <2>. QED
    BY <1>2, <2>1, Written
<1>. QED
  BY <1>2, DoneStep

\* What the steps of a request may leave alone.
SameAsked(p, q) ==
    p.kind = q.kind /\ p.srv = q.srv /\ p.prompt = q.prompt /\ p.messages = q.messages
SameSaid(p, q) == p.at = q.at /\ p.body = q.body
SameHeard(p, q) == p.heard = q.heard /\ p.toolCallsMap = q.toolCallsMap
SameCalls(p, q) == p.toolCalls = q.toolCalls /\ p.hits = q.hits
SameWork(p, q) ==
    p.fired = q.fired /\ p.pending = q.pending /\ p.val = q.val /\ p.messages2 = q.messages2

\* A request that goes on as it was.
LEMMA SameStep ==
  ASSUME NEW up, NEW gone, NEW q, RequestInv(q, up, gone), NEW p \in RequestType,
         p.pc = q.pc, q.kind = "stream" => SameSaid(p, q),
         SameAsked(p, q), SameHeard(p, q), SameCalls(p, q), SameWork(p, q)
  PROVE  RequestInv(p, up, gone)
<1>1. EndsInv(p)
  BY DEF RequestInv, EndsInv, SameSaid, SameAsked
<1>2. CallsInv(p)
  BY DEF RequestInv, CallsInv, SameAsked, SameHeard, SameCalls
<1>3. MessagesInv(p)
  BY DEF RequestInv, MessagesInv, SameAsked, SameCalls, SameWork
<1>4. FiredInv(p, up, gone)
  BY DEF RequestInv, FiredInv, SameAsked, SameCalls, SameWork
<1>. QED
  BY <1>1, <1>2, <1>3, <1>4 DEF RequestInv

LEMMA ExpireStep ==
  ASSUME NEW up, NEW gone, NEW q, RequestInv(q, up, gone)
  PROVE  RequestInv([q EXCEPT !.expired = TRUE], up, gone)
<1>. DEFINE p == [q EXCEPT !.expired = TRUE]
<1>1. q \in RequestType
  BY DEF RequestInv
<1>2. /\ p \in RequestType /\ p.pc = q.pc /\ SameSaid(p, q) /\ SameAsked(p, q)
      /\ SameHeard(p, q) /\ SameCalls(p, q) /\ SameWork(p, q)
  BY <1>1 DEF RequestType, SameSaid, SameAsked, SameHeard, SameCalls, SameWork
<1>. HIDE DEF p
<1>3. RequestInv(p, up, gone)
  BY <1>2, SameStep
<1>. QED
  BY <1>3 DEF p

LEMMA InvokeReturnsStep ==
  ASSUME NEW up, NEW gone, NEW q, RequestInv(q, up, gone), q.at = "select",
         NEW code \in Nat, NEW part \in Word
  PROVE  RequestInv([Respond(q, code, part) EXCEPT !.at = "done", !.expired = TRUE], up, gone)
<1>. DEFINE c == IF q.code = 0 THEN code ELSE q.code
            b == Append(q.body, part)
            p == [q EXCEPT !.code = c, !.body = b, !.at = "done", !.expired = TRUE]
<1>1. q \in RequestType /\ EndsInv(q)
  BY DEF RequestInv
<1>2. q.kind # "stream"
  BY <1>1 DEF EndsInv
<1>3. c \in Nat /\ b \in Seq(Word)
  <2>1. q.body \in Seq(Word) /\ q.code \in Nat
    BY <1>1 DEF RequestType
  <2>. QED
    BY <2>1
<1>4. [Respond(q, code, part) EXCEPT !.at = "done", !.expired = TRUE] = p
  BY <1>1 DEF Respond, RequestType
<1>. HIDE DEF c, b
<1>5. /\ p \in RequestType /\ p.pc = q.pc /\ SameAsked(p, q)
      /\ SameHeard(p, q) /\ SameCalls(p, q) /\ SameWork(p, q)
  BY <1>1, <1>3, Words DEF RequestType, SameAsked, SameHeard, SameCalls, SameWork
<1>. HIDE DEF p
<1>6. RequestInv(p, up, gone)
  BY <1>2, <1>5, SameStep
<1>. QED
  BY <1>4, <1>6

\* Finish, with the error of a handler or its answer.
LEMMA FinishStep ==
  ASSUME NEW up, NEW gone, NEW q, RequestInv(q, up, gone), q.pc # "done",
         q.kind # "stream", NEW outcome \in {"err", "res"}
  PROVE  RequestInv(Finish(q, outcome), up, gone)
<1>. DEFINE p == Finish(q, outcome)
<1>0. outcome \in Word /\ 400 \in Nat /\ 200 \in Nat
  BY Words
<1>1. q \in RequestType
  BY DEF RequestInv
<1>2. p \in RequestType /\ p.kind = q.kind /\ p.pc = "done"
  <2>1. CASE q.kind = "invoke"
    <3>. DEFINE f == Forgotten(q)
    <3>1. p = [f EXCEPT !.result = outcome]
      BY <2>1 DEF Finish
    <3>2. f \in RequestType /\ f.kind = q.kind /\ f.pc = "done"
      BY <1>1, ForgottenFields
    <3>. HIDE DEF f, p
    <3>. QED
      BY <1>0, <3>1, <3>2 DEF RequestType
  <2>2. CASE q.kind # "invoke" /\ outcome = "err"
    <3>. DEFINE e == Returned(Respond(q, 400, "error"))
    <3>1. p = e
      BY <2>2 DEF Finish, RespondWithError
    <3>2. e \in RequestType /\ e.kind = q.kind /\ e.pc = "done"
      BY <1>0, <1>1, Words, ReturnedFields
    <3>. HIDE DEF e, p
    <3>. QED
      BY <3>1, <3>2
  <2>3. CASE q.kind # "invoke" /\ outcome # "err"
    <3>. DEFINE e == Returned(Respond(q, 200, "answer"))
    <3>1. p = e
      BY <2>3 DEF Finish
    <3>2. e \in RequestType /\ e.kind = q.kind /\ e.pc = "done"
      BY <1>0, <1>1, Words, ReturnedFields
    <3>. HIDE DEF e, p
    <3>. QED
      BY <3>1, <3>2
  <2>. QED
    BY <2>1, <2>2, <2>3
<1>. HIDE DEF p
<1>3. RequestInv(p, up, gone)
  BY <1>2, DoneStep
<1>. QED
  BY <1>3 DEF p

\* A handler that returns.
LEMMA ReturnedStep ==
  ASSUME NEW up, NEW gone, NEW q, RequestInv(q, up, gone), q.pc # "done", NEW code \in Nat,
         NEW part \in Word \ {"text"}
  PROVE  RequestInv(Returned(Respond(q, code, part)), up, gone)
<1>. DEFINE p == Returned(Respond(q, code, part))
<1>1. q \in RequestType
  BY DEF RequestInv
<1>2. /\ p \in RequestType /\ p.kind = q.kind /\ p.pc = "done" /\ p.at = "done"
      /\ p.body = Append(q.body, part)
  BY <1>1, ReturnedFields
<1>. HIDE DEF p
<1>3. RequestInv(p, up, gone)
  BY <1>2, EndStep
<1>. QED
  BY <1>3 DEF p

\* A handler or a worker that panics.
LEMMA PanicStep ==
  ASSUME NEW up, NEW gone, NEW q, RequestInv(q, up, gone), q.pc # "done"
  PROVE  RequestInv(Returned([q EXCEPT !.body = Append(@, "aborted")]), up, gone)
<1>. DEFINE b == Append(q.body, "aborted")
            e == [q EXCEPT !.body = b]
            p == Returned(e)
<1>1. q \in RequestType
  BY DEF RequestInv
<1>2. b \in Seq(Word)
  <2>1. "aborted" \in Word /\ q.body \in Seq(Word)
    BY <1>1, Words DEF RequestType
  <2>. QED
    BY <2>1
<1>. HIDE DEF b
<1>3. e \in RequestType /\ e.kind = q.kind /\ e.body = b
  BY <1>1, <1>2 DEF RequestType
<1>4. e = [q EXCEPT !.body = Append(@, "aborted")]
  BY DEF b
<1>. HIDE DEF e
<1>5. /\ p \in RequestType /\ p.kind = e.kind /\ p.pc = "done" /\ p.at = "done"
      /\ p.body = e.body
  BY <1>3, ReturnedType
<1>. HIDE DEF p
<1>6. RequestInv(p, up, gone)
  <2>1. "aborted" \in Word \ {"text"}
    BY Words
  <2>. QED
    BY <1>3, <1>5, <2>1, EndStep DEF b
<1>. QED
  BY <1>4, <1>6 DEF p

LEMMA OpenStreamStep ==
  ASSUME NEW up, NEW gone, NEW q, RequestInv(q, up, gone), q.kind = "stream",
         q.pc \in {"llm1", "llm2"}
  PROVE  RequestInv([q EXCEPT !.pc = IF @ = "llm1" THEN "stream1" ELSE "stream2"], up, gone)
<1>. DEFINE p == [q EXCEPT !.pc = IF @ = "llm1" THEN "stream1" ELSE "stream2"]
<1>1. q \in RequestType
  BY DEF RequestInv
<1>2. /\ p \in RequestType /\ p.pc = IF q.pc = "llm1" THEN "stream1" ELSE "stream2"
      /\ SameSaid(p, q) /\ SameAsked(p, q) /\ SameHeard(p, q) /\ SameCalls(p, q)
      /\ SameWork(p, q)
  BY <1>1, Words DEF RequestType, SameSaid, SameAsked, SameHeard, SameCalls, SameWork
<1>. HIDE DEF p
<1>3. EndsInv(p)
  BY <1>2 DEF RequestInv, EndsInv, SameSaid, SameAsked
<1>4. CallsInv(p)
  BY <1>2 DEF RequestInv, CallsInv, SameAsked, SameHeard, SameCalls
<1>5. MessagesInv(p)
  BY <1>2 DEF RequestInv, MessagesInv, SameAsked, SameCalls, SameWork, Active
<1>6. FiredInv(p, up, gone)
  BY <1>2 DEF RequestInv, FiredInv, SameAsked, SameCalls, SameWork, Active
<1>. QED
  BY <1>2, <1>3, <1>4, <1>5, <1>6 DEF RequestInv, p

LEMMA RecvTextStep ==
  ASSUME NEW up, NEW gone, NEW q, RequestInv(q, up, gone), q.pc \in {"stream1", "stream2"}
  PROVE  RequestInv(Respond(q, 200, "text"), up, gone)
<1>. DEFINE c == IF q.code = 0 THEN 200 ELSE q.code
            b == Append(q.body, "text")
            p == [q EXCEPT !.code = c, !.body = b]
<1>1. q \in RequestType
  BY DEF RequestInv
<1>2. q.body \in Seq(Word) /\ b \in Seq(Word) /\ c \in Nat
  <2>1. "text" \in Word /\ q.body \in Seq(Word) /\ q.code \in Nat
    BY <1>1, Words DEF RequestType
  <2>. QED
    BY <2>1
<1>3. p = Respond(q, 200, "text")
  BY DEF Respond
<1>. HIDE DEF b, c
<1>4. /\ p \in RequestType /\ p.pc = q.pc /\ p.at = q.at /\ p.body = b /\ SameAsked(p, q)
      /\ SameHeard(p, q) /\ SameCalls(p, q) /\ SameWork(p, q)
  BY <1>1, <1>2 DEF RequestType, SameAsked, SameHeard, SameCalls, SameWork
<1>. HIDE DEF p
<1>5. EndsInv(p)
  <2>. SUFFICES ASSUME q.kind = "stream" PROVE EndsInv(p)
    BY <1>4 DEF EndsInv, SameAsked
  <2>1. NotText(q.body) = {} /\ q.at = "handler"
    BY DEF RequestInv, EndsInv
  <2>2. NotText(b) = {}
    BY <1>2, <2>1, Words, Written DEF b
  <2>. QED
    BY <1>4, <2>1, <2>2 DEF EndsInv, SameAsked
<1>6. CallsInv(p)
  BY <1>4 DEF RequestInv, CallsInv, SameAsked, SameHeard, SameCalls
<1>7. MessagesInv(p)
  BY <1>4 DEF RequestInv, MessagesInv, SameAsked, SameCalls, SameWork
<1>8. FiredInv(p, up, gone)
  BY <1>4 DEF RequestInv, FiredInv, SameAsked, SameCalls, SameWork
<1>. QED
  BY <1>3, <1>4, <1>5, <1>6, <1>7, <1>8 DEF RequestInv

\* What Append does.
LEMMA Appended ==
  ASSUME NEW S, NEW h \in Seq(S), NEW d \in S, NEW g, g = Append(h, d), NEW n, n = Len(h) + 1
  PROVE  /\ g \in Seq(S) /\ n \in Nat /\ g[n] = d /\ n \in DOMAIN g
         /\ DOMAIN h \subseteq DOMAIN g /\ \A k \in DOMAIN h : g[k] = h[k] /\ k < n
         /\ n \notin DOMAIN h /\ \A k \in DOMAIN g : k \in Nat /\ (k \in DOMAIN h \/ k = n)
<1>1. /\ g \in Seq(S) /\ DOMAIN g = 1 .. n /\ DOMAIN h = 1 .. Len(h)
      /\ Len(h) \in Nat /\ g[n] = d /\ \A k \in DOMAIN h : g[k] = h[k]
  OBVIOUS
<1>. QED
  BY <1>1

\* g is h with d behind it, at n.
Longer(h, d, g, n) ==
    /\ g[n] = d /\ n \in DOMAIN g /\ n \in Nat /\ n \notin DOMAIN h
    /\ \A k \in DOMAIN h : k \in DOMAIN g /\ g[k] = h[k] /\ k < n
    /\ \A k \in DOMAIN g : k \in Nat /\ (k \in DOMAIN h \/ k = n)

LEMMA AppendLonger ==
  ASSUME NEW S, NEW h \in Seq(S), NEW d \in S
  PROVE  Longer(h, d, Append(h, d), Len(h) + 1)
<1>. DEFINE g == Append(h, d)
            n == Len(h) + 1
<1>1. /\ g \in Seq(S) /\ n \in Nat /\ g[n] = d /\ n \in DOMAIN g
      /\ DOMAIN h \subseteq DOMAIN g /\ \A k \in DOMAIN h : g[k] = h[k] /\ k < n
      /\ n \notin DOMAIN h /\ \A k \in DOMAIN g : k \in Nat /\ (k \in DOMAIN h \/ k = n)
  BY Appended
<1>. HIDE DEF g, n
<1>2. Longer(h, d, g, n)
  BY <1>1 DEF Longer
<1>. QED
  BY <1>2 DEF g, n

\* The deltas of an index, and the two halves of IsCallOf: what the first of them
\* gives, and what is collected from all.
Of(h, i) == {k \in DOMAIN h : h[k].index = i}
Names(d) == d.name # ""
Named(h, i) == {k \in Of(h, i) : Names(h[k])}
OpenedBy(h, i, id, type) ==
    \E k \in Of(h, i) :
        (\A j \in Of(h, i) : k <= j) /\ id = h[k].id /\ type = h[k].type
NamedBy(h, i, name) ==
    \/ Named(h, i) = {} /\ name = ""
    \/ \E k \in Named(h, i) : (\A j \in Named(h, i) : j <= k) /\ name = h[k].name
Pieced(h, i, args) ==
    /\ Range(args) = {k \in Of(h, i) : h[k].piece}
    /\ \A j, k \in DOMAIN args : j < k => args[j] < args[k]

LEMMA CallOf ==
  ASSUME NEW h, NEW i, NEW c
  PROVE  IsCallOf(h, i, c) <=>
            /\ OpenedBy(h, i, c.id, c.type) /\ NamedBy(h, i, c.name)
            /\ Pieced(h, i, c.arguments)
BY DEF IsCallOf, OpenedBy, NamedBy, Pieced, Of, Named, Names

\* One more delta: its index, ...
LEMMA OfMore ==
  ASSUME NEW h, NEW d, NEW g, NEW n, Longer(h, d, g, n), NEW i
  PROVE  \A k : k \in Of(g, i) <=> k \in Of(h, i) \/ (d.index = i /\ k = n)
BY DEF Longer, Of

LEMMA OfKept ==
  ASSUME NEW h, NEW d, NEW g, NEW n, Longer(h, d, g, n), NEW i
  PROVE  \A k \in Of(h, i) : g[k] = h[k] /\ k < n /\ k \in Nat /\ k # n
BY DEF Longer, Of

LEMMA NameMore ==
  ASSUME NEW h, NEW d, NEW g, NEW n, Longer(h, d, g, n), NEW i
  PROVE  \A k : k \in Named(g, i) <=>
                    k \in Named(h, i) \/ (d.index = i /\ Names(d) /\ k = n)
<1>1. \A k : k \in Of(g, i) <=> k \in Of(h, i) \/ (d.index = i /\ k = n)
  BY OfMore
<1>2. \A k \in Of(h, i) : g[k] = h[k] /\ k # n
  BY OfKept
<1>3. g[n] = d
  BY DEF Longer
<1>. QED
  BY <1>1, <1>2, <1>3 DEF Named

\* ... the call it does not belong to, ...
LEMMA OtherOpened ==
  ASSUME NEW h, NEW d, NEW g, NEW n, Longer(h, d, g, n), NEW i, d.index # i,
         NEW id, NEW type, OpenedBy(h, i, id, type)
  PROVE  OpenedBy(g, i, id, type)
<1>1. \A k : k \in Of(g, i) <=> k \in Of(h, i)
  BY OfMore
<1>2. \A k \in Of(h, i) : g[k] = h[k]
  BY OfKept
<1>. QED
  BY <1>1, <1>2 DEF OpenedBy

LEMMA OtherNamed ==
  ASSUME NEW h, NEW d, NEW g, NEW n, Longer(h, d, g, n), NEW i, d.index # i \/ ~Names(d),
         NEW name, NamedBy(h, i, name)
  PROVE  NamedBy(g, i, name)
<1>1. \A k : k \in Named(g, i) <=> k \in Named(h, i)
  BY NameMore
<1>2. \A k \in Of(h, i) : g[k] = h[k]
  BY OfKept
<1>3. \A k \in Named(h, i) : g[k] = h[k]
  BY <1>2 DEF Named
<1>. QED
  BY <1>1, <1>3 DEF NamedBy

LEMMA OtherPieced ==
  ASSUME NEW h, NEW d, NEW g, NEW n, Longer(h, d, g, n), NEW i, d.index # i \/ ~d.piece,
         NEW args, Pieced(h, i, args)
  PROVE  Pieced(g, i, args)
<1>1. \A k : k \in Of(g, i) <=> k \in Of(h, i) \/ (d.index = i /\ k = n)
  BY OfMore
<1>2. \A k \in Of(h, i) : g[k] = h[k]
  BY OfKept
<1>3. g[n] = d
  BY DEF Longer
<1>4. {k \in Of(g, i) : g[k].piece} = {k \in Of(h, i) : h[k].piece}
  BY <1>1, <1>2, <1>3
<1>. QED
  BY <1>4 DEF Pieced

LEMMA OtherCall ==
  ASSUME NEW h \in Seq(DeltaType), NEW d \in DeltaType, NEW i, d.index # i,
         NEW c, IsCallOf(h, i, c)
  PROVE  IsCallOf(Append(h, d), i, c)
<1>. DEFINE g == Append(h, d)
            n == Len(h) + 1
<1>0. Longer(h, d, g, n)
  BY AppendLonger
<1>. HIDE DEF g, n
<1>1. OpenedBy(h, i, c.id, c.type) /\ NamedBy(h, i, c.name) /\ Pieced(h, i, c.arguments)
  BY CallOf
<1>2. OpenedBy(g, i, c.id, c.type)
  BY <1>0, <1>1, OtherOpened
<1>3. NamedBy(g, i, c.name)
  BY <1>0, <1>1, OtherNamed
<1>4. Pieced(g, i, c.arguments)
  BY <1>0, <1>1, OtherPieced
<1>. QED
  BY <1>2, <1>3, <1>4, CallOf DEF g

\* ... and the one it does: what opened it, ...
LEMMA OpenedMore ==
  ASSUME NEW h, NEW d, NEW g, NEW n, Longer(h, d, g, n), NEW i, i = d.index,
         NEW id, NEW type, OpenedBy(h, i, id, type)
  PROVE  OpenedBy(g, i, id, type)
<1>1. \A k : k \in Of(g, i) <=> k \in Of(h, i) \/ k = n
  BY OfMore
<1>2. \A k \in Of(h, i) : g[k] = h[k] /\ k < n /\ k \in Nat
  BY OfKept
<1>3. PICK k \in Of(h, i) : (\A j \in Of(h, i) : k <= j) /\ id = h[k].id /\ type = h[k].type
  BY DEF OpenedBy
<1>4. k <= n /\ g[k] = h[k] /\ k \in Of(g, i)
  <2>1. n \in Nat
    BY DEF Longer
  <2>2. k < n /\ k \in Nat
    BY <1>2
  <2>3. k <= n
    BY <2>1, <2>2
  <2>. QED
    BY <1>1, <1>2, <2>3
<1>. QED
  BY <1>1, <1>3, <1>4 DEF OpenedBy

LEMMA OpenedFirst ==
  ASSUME NEW h, NEW d, NEW g, NEW n, Longer(h, d, g, n), NEW i, i = d.index,
         \A k : k \notin Of(h, i)
  PROVE  OpenedBy(g, i, d.id, d.type)
<1>1. \A k : k \in Of(g, i) <=> k = n
  BY OfMore
<1>2. g[n] = d /\ n \in Nat
  BY DEF Longer
<1>3. n <= n
  BY <1>2
<1>. QED
  BY <1>1, <1>2, <1>3 DEF OpenedBy

\* ... its name ...
LEMMA NamedMore ==
  ASSUME NEW h, NEW d, NEW g, NEW n, Longer(h, d, g, n), NEW i, i = d.index, Names(d)
  PROVE  NamedBy(g, i, d.name)
<1>1. \A k : k \in Named(g, i) <=> k \in Named(h, i) \/ k = n
  BY NameMore
<1>2. \A k \in Of(h, i) : k < n /\ k \in Nat
  BY OfKept
<1>3. g[n] = d /\ n \in Nat
  BY DEF Longer
<1>4. \A k \in Named(h, i) : k <= n
  BY <1>2, <1>3 DEF Named
<1>5. \A k \in Named(g, i) : k <= n
  BY <1>1, <1>3, <1>4
<1>6. n \in Named(g, i)
  BY <1>1
<1>. QED
  BY <1>3, <1>5, <1>6 DEF NamedBy

\* ... and its arguments.
LEMMA PiecedMore ==
  ASSUME NEW h, NEW d, NEW g, NEW n, Longer(h, d, g, n), NEW i, i = d.index, d.piece,
         NEW args \in Seq(Nat), Pieced(h, i, args)
  PROVE  Pieced(g, i, Append(args, n))
<1>. DEFINE P == {k \in Of(h, i) : h[k].piece}
            more == Append(args, n)
            l == Len(args) + 1
<1>0. \A k : k \in Of(g, i) <=> k \in Of(h, i) \/ k = n
  BY OfMore
<1>1. \A k \in Of(h, i) : g[k] = h[k] /\ k < n /\ k \in Nat
  BY OfKept
<1>2. g[n] = d /\ n \in Nat
  BY DEF Longer
<1>3. Range(args) = P /\ \A j, k \in DOMAIN args : j < k => args[j] < args[k]
  BY DEF Pieced
<1>4. /\ more[l] = n /\ l \in DOMAIN more
      /\ DOMAIN args \subseteq DOMAIN more /\ \A k \in DOMAIN args : more[k] = args[k] /\ k < l
      /\ \A k \in DOMAIN more : k \in Nat /\ (k \in DOMAIN args \/ k = l)
      /\ l \in Nat
  BY <1>2, Appended
<1>. HIDE DEF more, l
<1>5. \A k \in DOMAIN args : args[k] < n
  <2>1. \A k \in DOMAIN args : args[k] \in P
    BY <1>3 DEF Range
  <2>. QED
    BY <1>1, <2>1
<1>6. Range(more) = {k \in Of(g, i) : g[k].piece}
  <2>1. Range(more) = Range(args) \union {n}
    BY <1>4 DEF Range
  <2>2. P \union {n} = {k \in Of(g, i) : g[k].piece}
    BY <1>0, <1>1, <1>2
  <2>. QED
    BY <1>3, <2>1, <2>2
<1>7. ASSUME NEW j \in DOMAIN more, NEW k \in DOMAIN more, j < k
      PROVE  more[j] < more[k]
  <2>1. j \in DOMAIN args
    BY <1>4, <1>7
  <2>2. CASE k \in DOMAIN args
    BY <1>3, <1>4, <1>7, <2>1, <2>2
  <2>3. CASE k = l
    BY <1>4, <1>5, <2>1, <2>3
  <2>. QED
    BY <1>4, <2>2, <2>3
<1>8. Pieced(g, i, more)
  BY <1>6, <1>7 DEF Pieced
<1>. QED
  BY <1>8 DEF more

\* The call that a delta belongs to, new or not.
LEMMA Nothing ==
  <<>> \in Seq(Nat) /\ \A k : k \notin DOMAIN <<>>
OBVIOUS

LEMMA FreshCall ==
  ASSUME NEW d \in DeltaType, NEW c,
         c = [id |-> d.id, type |-> d.type, name |-> "", arguments |-> <<>>]
  PROVE  /\ c \in CallType /\ c.id = d.id /\ c.type = d.type /\ c.name = ""
         /\ \A k : k \notin DOMAIN c.arguments
<1>1. <<>> \in Seq(Nat) /\ \A k : k \notin DOMAIN <<>>
  BY Nothing
<1>2. d.id \in Text /\ d.type \in Text /\ "" \in Text
  BY DEF DeltaType, Text
<1>3. c \in CallType
  BY <1>1, <1>2 DEF CallType
<1>. QED
  BY <1>1, <1>3

LEMMA NothingOf ==
  ASSUME NEW h, NEW i, \A k : k \notin Of(h, i), NEW args, \A k : k \notin DOMAIN args
  PROVE  NamedBy(h, i, "") /\ Pieced(h, i, args)
<1>1. Named(h, i) = {}
  BY DEF Named
<1>2. Range(args) = {k \in Of(h, i) : h[k].piece}
  BY DEF Range
<1>. QED
  BY <1>1, <1>2 DEF NamedBy, Pieced

LEMMA OwnCall ==
  ASSUME NEW h \in Seq(DeltaType), NEW d \in DeltaType, NEW c \in CallType,
         NamedBy(h, d.index, c.name), Pieced(h, d.index, c.arguments),
         \/ OpenedBy(h, d.index, c.id, c.type)
         \/ (\A k : k \notin Of(h, d.index)) /\ c.id = d.id /\ c.type = d.type
  PROVE  LET e == [c EXCEPT
                     !.arguments = IF d.piece THEN Append(@, Len(h) + 1) ELSE @,
                     !.name = IF d.name # "" THEN d.name ELSE @]
         IN  e \in CallType /\ IsCallOf(Append(h, d), d.index, e)
<1>. DEFINE g == Append(h, d)
            n == Len(h) + 1
            i == d.index
            args == IF d.piece THEN Append(c.arguments, n) ELSE c.arguments
            name == IF d.name # "" THEN d.name ELSE c.name
            e == [c EXCEPT !.arguments = args, !.name = name]
<1>0. Longer(h, d, g, n) /\ i = d.index /\ n \in Nat
  BY AppendLonger
<1>1. c.arguments \in Seq(Nat) /\ c.name \in Text /\ d.name \in Text
  BY DEF CallType, DeltaType
<1>2. /\ NamedBy(h, i, c.name) /\ Pieced(h, i, c.arguments)
      /\ \/ OpenedBy(h, i, c.id, c.type)
         \/ (\A k : k \notin Of(h, i)) /\ c.id = d.id /\ c.type = d.type
  OBVIOUS
<1>3. e = [c EXCEPT !.arguments = IF d.piece THEN Append(@, Len(h) + 1) ELSE @,
                    !.name = IF d.name # "" THEN d.name ELSE @]
  OBVIOUS
<1>. HIDE DEF g, n, i, e
<1>4. NamedBy(g, i, name)
  <2>1. CASE d.name # ""
    BY <1>0, <2>1, NamedMore DEF Names
  <2>2. CASE d.name = ""
    BY <1>0, <1>2, <2>2, OtherNamed DEF Names
  <2>. QED
    BY <2>1, <2>2
<1>5. args \in Seq(Nat) /\ Pieced(g, i, args)
  <2>1. CASE d.piece
    <3>1. Pieced(g, i, Append(c.arguments, n))
      BY <1>0, <1>1, <1>2, <2>1, PiecedMore
    <3>2. Append(c.arguments, n) \in Seq(Nat)
      BY <1>0, <1>1
    <3>. QED
      BY <2>1, <3>1, <3>2
  <2>2. CASE ~d.piece
    <3>1. Pieced(g, i, c.arguments)
      BY <1>0, <1>2, <2>2, OtherPieced
    <3>. QED
      BY <1>1, <2>2, <3>1
  <2>. QED
    BY <2>1, <2>2
<1>6. OpenedBy(g, i, c.id, c.type)
  <2>1. CASE OpenedBy(h, i, c.id, c.type)
    BY <1>0, <2>1, OpenedMore
  <2>2. CASE (\A k : k \notin Of(h, i)) /\ c.id = d.id /\ c.type = d.type
    BY <1>0, <2>2, OpenedFirst
  <2>. QED
    BY <1>2, <2>1, <2>2
<1>7. name \in Text
  BY <1>1
<1>. HIDE DEF args, name
<1>8. e \in CallType /\ e.id = c.id /\ e.type = c.type /\ e.name = name /\ e.arguments = args
  BY <1>5, <1>7 DEF CallType, e
<1>9. IsCallOf(g, i, e)
  BY <1>4, <1>5, <1>6, <1>8, CallOf
<1>. QED
  BY <1>3, <1>8, <1>9 DEF g, i

LEMMA MapOf ==
  ASSUME NEW f \in MapType
  PROVE  DOMAIN f \subseteq Nat /\ \A i \in DOMAIN f : f[i] \in CallType
<1>1. PICK D \in SUBSET Nat : f \in [D -> CallType]
  BY DEF MapType
<1>. QED
  BY <1>1

LEMMA MapIn ==
  ASSUME NEW D \in SUBSET Nat, NEW f \in [D -> CallType]
  PROVE  f \in MapType
BY DEF MapType

\* The body of the loop keeps the map right.
LEMMA DeltaAdded ==
  ASSUME NEW h \in Seq(DeltaType), NEW d \in DeltaType, NEW calls \in MapType,
         Hears(h, calls)
  PROVE  LET more == AddDelta(calls, d, Len(h) + 1)
         IN  more \in MapType /\ Hears(Append(h, d), more)
<1>. DEFINE g == Append(h, d)
            n == Len(h) + 1
            x == d.index
            fresh == [id |-> d.id, type |-> d.type, name |-> "", arguments |-> <<>>]
            c == IF x \in DOMAIN calls THEN calls[x] ELSE fresh
            e == [c EXCEPT
                    !.arguments = IF d.piece THEN Append(@, n) ELSE @,
                    !.name = IF d.name # "" THEN d.name ELSE @]
            D == DOMAIN calls \union {x}
            more == AddDelta(calls, d, n)
<1>1. DOMAIN calls \subseteq Nat /\ \A i \in DOMAIN calls : calls[i] \in CallType
  BY MapOf
<1>2. /\ DOMAIN calls = {h[k].index : k \in DOMAIN h}
      /\ \A i \in DOMAIN calls : IsCallOf(h, i, calls[i])
  BY DEF Hears
<1>3. x \in Nat
  BY DEF DeltaType
<1>4. more = [i \in D |-> IF i # x THEN calls[i] ELSE e]
  BY DEF AddDelta
<1>5. /\ c \in CallType /\ NamedBy(h, x, c.name) /\ Pieced(h, x, c.arguments)
      /\ \/ OpenedBy(h, x, c.id, c.type)
         \/ (\A k : k \notin Of(h, x)) /\ c.id = d.id /\ c.type = d.type
  <2>1. CASE x \in DOMAIN calls
    <3>1. c = calls[x]
      BY <2>1
    <3>. HIDE DEF c, x
    <3>2. c \in CallType /\ IsCallOf(h, x, c)
      BY <1>1, <1>2, <2>1, <3>1
    <3>. QED
      BY <3>2, CallOf
  <2>2. CASE x \notin DOMAIN calls
    <3>1. c = fresh
      BY <2>2
    <3>2. \A k : k \notin Of(h, x)
      BY <1>2, <2>2 DEF Of
    <3>. HIDE DEF c, x
    <3>3. /\ c \in CallType /\ c.id = d.id /\ c.type = d.type /\ c.name = ""
          /\ \A k : k \notin DOMAIN c.arguments
      BY <3>1, FreshCall
    <3>. HIDE DEF fresh
    <3>4. NamedBy(h, x, "") /\ Pieced(h, x, c.arguments)
      BY <3>2, <3>3, NothingOf
    <3>. QED
      BY <3>2, <3>3, <3>4
  <2>. QED
    BY <2>1, <2>2
<1>. HIDE DEF c
<1>6. e \in CallType /\ IsCallOf(g, x, e)
  BY <1>5, OwnCall
<1>7. /\ n \in DOMAIN g /\ g[n] = d /\ DOMAIN h \subseteq DOMAIN g
      /\ \A k \in DOMAIN h : g[k] = h[k]
      /\ \A k \in DOMAIN g : k \in DOMAIN h \/ k = n
  BY Appended
<1>8. \A i \in DOMAIN calls : i # x => IsCallOf(g, i, calls[i])
  BY <1>2, OtherCall
<1>. HIDE DEF e, g, n, more
<1>9. more \in [D -> CallType] /\ D \in SUBSET Nat
  <2>1. \A i \in D : i # x => i \in DOMAIN calls
    OBVIOUS
  <2>2. D \in SUBSET Nat
    BY <1>1, <1>3
  <2>. HIDE DEF D, x
  <2>. QED
    BY <1>1, <1>4, <1>6, <2>1, <2>2
<1>10. D = {g[k].index : k \in DOMAIN g}
  <2>1. \A k \in DOMAIN g : g[k].index \in D
    BY <1>2, <1>7
  <2>2. \A i \in D : \E k \in DOMAIN g : g[k].index = i
    BY <1>2, <1>7
  <2>. QED
    BY <2>1, <2>2
<1>11. Hears(g, more)
  <2>1. \A i \in D : IsCallOf(g, i, more[i])
    BY <1>4, <1>6, <1>8
  <2>. QED
    BY <1>9, <1>10, <2>1 DEF Hears
<1>. QED
  BY <1>9, <1>11, MapIn DEF more, g, n

LEMMA RecvDeltaStep ==
  ASSUME NEW up, NEW gone, NEW q, RequestInv(q, up, gone), q.pc = "stream1",
         NEW d \in DeltaType
  PROVE  RequestInv([q EXCEPT !.heard = Append(@, d),
             !.toolCallsMap = AddDelta(@, d, Len(q.heard) + 1)], up, gone)
<1>. DEFINE h == Append(q.heard, d)
            m == AddDelta(q.toolCallsMap, d, Len(q.heard) + 1)
            p == [q EXCEPT !.heard = h, !.toolCallsMap = m]
<1>1. q \in RequestType /\ CallsInv(q)
  BY DEF RequestInv
<1>2. /\ q.heard \in Seq(DeltaType) /\ q.toolCallsMap \in MapType
      /\ Hears(q.heard, q.toolCallsMap) /\ q.kind = "stream"
  BY <1>1 DEF RequestType, CallsInv
<1>3. m \in MapType /\ Hears(h, m)
  BY <1>2, DeltaAdded
<1>4. h \in Seq(DeltaType)
  BY <1>2
<1>. HIDE DEF h, m
<1>5. /\ p \in RequestType /\ p.pc = q.pc /\ p.heard = h /\ p.toolCallsMap = m
      /\ SameSaid(p, q) /\ SameAsked(p, q) /\ SameCalls(p, q) /\ SameWork(p, q)
  BY <1>1, <1>3, <1>4 DEF RequestType, SameSaid, SameAsked, SameCalls, SameWork
<1>. HIDE DEF p
<1>6. CallsInv(p)
  BY <1>2, <1>3, <1>5 DEF CallsInv, SameAsked
<1>7. EndsInv(p)
  BY <1>5 DEF RequestInv, EndsInv, SameSaid, SameAsked
<1>8. MessagesInv(p)
  BY <1>5 DEF RequestInv, MessagesInv, SameAsked, SameCalls, SameWork
<1>9. FiredInv(p, up, gone)
  BY <1>5 DEF RequestInv, FiredInv, SameAsked, SameCalls, SameWork
<1>. QED
  BY <1>5, <1>6, <1>7, <1>8, <1>9 DEF RequestInv, p, h, m

\* Calls that the LLM wants, from an answer or a stream.
LEMMA CallingStep ==
  ASSUME NEW up, NEW gone, NEW q, RequestInv(q, up, gone), q.pc \in {"llm1", "stream1"},
         NEW calls \in Seq(CallType), NEW reason,
         q.kind = "stream" => Reassembled(q.heard, calls)
  PROVE  RequestInv(Calling(q, calls, reason), up, gone)
<1>. DEFINE hits == FnCalls(calls, reason)
            p == [q EXCEPT !.toolCalls = calls, !.hits = hits, !.pc = "fire"]
<1>1. q \in RequestType /\ CallsInv(q)
  BY DEF RequestInv
<1>2. hits \subseteq (DOMAIN ToolName) \X (DOMAIN calls) /\ hits \in SUBSET Pairs
  <2>1. DOMAIN calls \subseteq Nat
    OBVIOUS
  <2>2. hits \subseteq (DOMAIN ToolName) \X (DOMAIN calls)
    BY DEF FnCalls
  <2>. HIDE DEF hits
  <2>. QED
    BY <2>1, <2>2 DEF Pairs
<1>3. Calling(q, calls, reason) = p
  BY DEF Calling
<1>. HIDE DEF hits
<1>4. /\ p \in RequestType /\ p.pc = "fire" /\ p.toolCalls = calls /\ p.hits = hits
      /\ SameSaid(p, q) /\ SameAsked(p, q) /\ SameHeard(p, q) /\ SameWork(p, q)
  BY <1>1, <1>2, Words DEF RequestType, SameSaid, SameAsked, SameHeard, SameWork
<1>. HIDE DEF p
<1>5. CallsInv(p)
  BY <1>4 DEF CallsInv, SameAsked, SameHeard
<1>6. EndsInv(p)
  BY <1>4 DEF RequestInv, EndsInv, SameSaid, SameAsked
<1>7. MessagesInv(p)
  BY <1>2, <1>4 DEF RequestInv, MessagesInv, SameAsked, SameWork, Active
<1>8. FiredInv(p, up, gone)
  BY <1>4 DEF RequestInv, FiredInv, SameAsked, Active
<1>. QED
  BY <1>3, <1>4, <1>5, <1>6, <1>7, <1>8 DEF RequestInv

LEMMA FirstEOFStep ==
  ASSUME NEW up, NEW gone, NEW q, RequestInv(q, up, gone), q.pc = "stream1", NEW n,
         n = Cardinality(DOMAIN q.toolCallsMap), DOMAIN q.toolCallsMap = 0 .. n - 1
  PROVE  RequestInv(Calling(q, [i \in 1 .. n |-> q.toolCallsMap[i - 1]], "tool_calls"),
                    up, gone)
<1>. DEFINE h == q.heard
            m == q.toolCallsMap
            c == [i \in 1 .. n |-> m[i - 1]]
<1>1. q \in RequestType /\ CallsInv(q)
  BY DEF RequestInv
<1>2. h \in Seq(DeltaType) /\ m \in MapType /\ Hears(h, m) /\ q.kind = "stream"
  BY <1>1 DEF RequestType, CallsInv
<1>3. n \in Nat
  <2>1. IsFiniteSet(DOMAIN h)
    <3>1. DOMAIN h = 1 .. Len(h) /\ Len(h) \in Int /\ 1 \in Int
      BY <1>2
    <3>. QED
      BY <3>1, FS_Interval
  <2>. DEFINE index == [k \in DOMAIN h |-> h[k].index]
              T == {h[k].index : k \in DOMAIN h}
  <2>2. index \in Surjection(DOMAIN h, T)
    BY DEF Surjection
  <2>. HIDE DEF index, T
  <2>3. IsFiniteSet(T)
    BY <2>1, <2>2, FS_Surjection
  <2>4. T = DOMAIN m
    BY <1>2 DEF Hears, T
  <2>. QED
    BY <2>3, <2>4, FS_CardinalityType
<1>4. DOMAIN m = 0 .. n - 1
  OBVIOUS
<1>5. \A i \in DOMAIN m : m[i] \in CallType /\ IsCallOf(h, i, m[i])
  BY <1>2, MapOf DEF Hears
<1>6. \A k \in DOMAIN h : h[k].index \in DOMAIN m
  BY <1>2 DEF Hears
<1>. HIDE DEF h, m
<1>7. \A i \in 1 .. n : c[i] \in CallType /\ IsCallOf(h, i - 1, c[i])
  <2>. TAKE i \in 1 .. n
  <2>0. i - 1 \in 0 .. n - 1
    BY <1>3
  <2>1. i - 1 \in DOMAIN m /\ c[i] = m[i - 1]
    BY <1>4, <2>0
  <2>. QED
    BY <1>5, <2>1
<1>8. c \in Seq(CallType) /\ DOMAIN c = 1 .. n
  <2>1. c \in [1 .. n -> CallType]
    BY <1>7
  <2>. HIDE DEF c
  <2>. QED
    BY <1>3, <2>1
<1>. HIDE DEF c
<1>9. \A k \in DOMAIN h : h[k].index + 1 \in 1 .. n
  <2>1. \A x \in 0 .. n - 1 : x + 1 \in 1 .. n
    BY <1>3
  <2>. QED
    BY <1>4, <1>6, <2>1
<1>10. Reassembled(h, c)
  BY <1>7, <1>8, <1>9 DEF Reassembled
<1>11. RequestInv(Calling(q, c, "tool_calls"), up, gone)
  BY <1>8, <1>10, CallingStep DEF h
<1>. QED
  BY <1>11 DEF c, m

\* Calls are fired, ...
LEMMA FireCallsStep ==
  ASSUME NEW up, NEW gone, NEW q, RequestInv(q, up, gone), q.pc = "fire",
         NEW fired \in SUBSET q.hits, fired = q.hits \/ q.srv \in gone
  PROVE  RequestInv([q EXCEPT !.pc = "wait", !.fired = fired, !.pending = fired], up, gone)
<1>. DEFINE p == [q EXCEPT !.pc = "wait", !.fired = fired, !.pending = fired]
<1>1. q \in RequestType /\ CallsInv(q) /\ MessagesInv(q) /\ FiredInv(q, up, gone)
  BY DEF RequestInv
<1>2. fired \in SUBSET Pairs
  BY <1>1 DEF RequestType
<1>3. /\ p \in RequestType /\ p.pc = "wait" /\ p.fired = fired /\ p.pending = fired
      /\ p.val = q.val /\ SameSaid(p, q) /\ SameAsked(p, q) /\ SameHeard(p, q)
      /\ SameCalls(p, q)
  BY <1>1, <1>2, Words DEF RequestType, SameSaid, SameAsked, SameHeard, SameCalls
<1>. HIDE DEF p
<1>4. EndsInv(p)
  BY <1>3 DEF RequestInv, EndsInv, SameSaid, SameAsked
<1>5. CallsInv(p)
  BY <1>1, <1>3 DEF CallsInv, SameAsked, SameHeard, SameCalls
<1>6. MessagesInv(p)
  <2>1. p.val \union IdsOf(p.toolCalls, p.pending) = IdsOf(p.toolCalls, p.fired)
    <3>1. p.val = {}
      BY <1>1, <1>3 DEF MessagesInv
    <3>. QED
      BY <1>3, <3>1
  <2>. QED
    BY <1>1, <1>3, <2>1 DEF MessagesInv, SameAsked, SameCalls, Active
<1>7. FiredInv(p, up, gone)
  BY <1>1, <1>3 DEF FiredInv, SameAsked, SameCalls, Active
<1>. QED
  BY <1>3, <1>4, <1>5, <1>6, <1>7 DEF RequestInv, p

\* ... and answered.
LEMMA FunctionAnswersStep ==
  ASSUME NEW up, NEW gone, NEW q, RequestInv(q, up, gone), q.pc = "wait",
         NEW a \in q.pending
  PROVE  RequestInv([q EXCEPT !.pending = @ \ {a},
                              !.val = @ \union {q.toolCalls[a[2]].id}], up, gone)
<1>. DEFINE id == q.toolCalls[a[2]].id
            v == q.val \union {id}
            w == q.pending \ {a}
            p == [q EXCEPT !.pending = w, !.val = v]
<1>1. q \in RequestType /\ CallsInv(q) /\ MessagesInv(q) /\ FiredInv(q, up, gone)
  BY DEF RequestInv
<1>2. id \in Text
  <2>1. a \in (DOMAIN ToolName) \X (DOMAIN q.toolCalls)
    BY <1>1 DEF MessagesInv
  <2>2. q.toolCalls \in Seq(CallType)
    BY <1>1 DEF RequestType
  <2>3. a[2] \in DOMAIN q.toolCalls
    BY <2>1
  <2>4. q.toolCalls[a[2]] \in CallType
    BY <2>2, <2>3
  <2>. QED
    BY <2>4 DEF CallType
<1>3. IdsOf(q.toolCalls, q.pending) = {id} \union IdsOf(q.toolCalls, w)
  BY DEF IdsOf
<1>4. v \union IdsOf(q.toolCalls, w) = IdsOf(q.toolCalls, q.fired) /\ w \subseteq q.fired
  <2>1. /\ q.val \union IdsOf(q.toolCalls, q.pending) = IdsOf(q.toolCalls, q.fired)
        /\ q.pending \subseteq q.fired
    BY <1>1 DEF MessagesInv
  <2>. QED
    BY <1>3, <2>1
<1>5. v \in SUBSET Text /\ w \in SUBSET Pairs
  <2>1. q.val \in SUBSET Text /\ q.pending \in SUBSET Pairs
    BY <1>1 DEF RequestType
  <2>. QED
    BY <1>2, <2>1
<1>6. p = [q EXCEPT !.pending = @ \ {a}, !.val = @ \union {q.toolCalls[a[2]].id}]
  OBVIOUS
<1>. HIDE DEF id, v, w
<1>7. /\ p \in RequestType /\ p.pc = "wait" /\ p.pending = w /\ p.val = v
      /\ p.fired = q.fired /\ SameSaid(p, q) /\ SameAsked(p, q) /\ SameHeard(p, q)
      /\ SameCalls(p, q)
  BY <1>1, <1>5 DEF RequestType, SameSaid, SameAsked, SameHeard, SameCalls
<1>. HIDE DEF p
<1>8. EndsInv(p)
  BY <1>7 DEF RequestInv, EndsInv, SameSaid, SameAsked
<1>9. CallsInv(p)
  BY <1>1, <1>7 DEF CallsInv, SameAsked, SameHeard, SameCalls
<1>10. MessagesInv(p)
  BY <1>1, <1>4, <1>7 DEF MessagesInv, SameAsked, SameCalls, Active
<1>11. FiredInv(p, up, gone)
  BY <1>1, <1>7 DEF FiredInv, SameAsked, SameCalls, Active
<1>12. RequestInv(p, up, gone)
  BY <1>7, <1>8, <1>9, <1>10, <1>11 DEF RequestInv
<1>. QED
  BY <1>6, <1>12

\* The messages of the second call: m is z with the assistant's message and l tool
\* messages put in behind n of it.
PutIn(m, z, n, l, said, v) ==
    /\ n \in Nat /\ l \in Nat /\ Len(z) \in Nat /\ n <= Len(z)
    /\ DOMAIN z = 1 .. Len(z) /\ Len(m) = Len(z) + l + 1 /\ DOMAIN m = 1 .. Len(m)
    /\ \A i \in 1 .. n : m[i] = z[i]
    /\ m[n + 1] = said
    /\ \A j \in 1 .. l : m[n + 1 + j] = Message("tool", v[j])
    /\ \A i \in n + 1 .. Len(z) : m[i + l + 1] = z[i]

LEMMA MessageFields ==
  \A role, what : Message(role, what).role = role /\ Message(role, what).what = what
BY DEF Message

LEMMA AssistantRole ==
  \A calls : Assistant(calls).role = "assistant"
BY DEF Assistant

\* Each of ids, once.
Covers(v, l, ids) ==
    /\ \A j \in 1 .. l : v[j] \in ids
    /\ \A x \in ids : \E j \in 1 .. l : v[j] = x
    /\ \A j, k \in 1 .. l : v[j] = v[k] => j = k

LEMMA PutInSecond ==
  ASSUME NEW m, NEW z, NEW n, NEW l, NEW calls, NEW v, PutIn(m, z, n, l, Assistant(calls), v),
         NEW ids, Covers(v, l, ids)
  PROVE  Second(m, z, calls, ids)
<1>. DEFINE a == n + 1
            b == n + 1 + l
            L == Len(z)
            M == Len(m)
<1>1. /\ n \in Nat /\ l \in Nat /\ L \in Nat /\ n <= L
      /\ DOMAIN z = 1 .. L /\ M = L + l + 1 /\ DOMAIN m = 1 .. M
      /\ \A i \in 1 .. n : m[i] = z[i]
      /\ m[n + 1] = Assistant(calls)
      /\ \A j \in 1 .. l : m[n + 1 + j] = Message("tool", v[j])
      /\ \A i \in n + 1 .. L : m[i + l + 1] = z[i]
  BY DEF PutIn
<1>2. L = Len(z) /\ M = Len(m)
  OBVIOUS
<1>12. /\ \A j \in 1 .. l : v[j] \in ids
       /\ \A x \in ids : \E j \in 1 .. l : v[j] = x
       /\ \A j, k \in 1 .. l : v[j] = v[k] => j = k
  BY DEF Covers
<1>. HIDE DEF L, M
<1>3. a \in DOMAIN m /\ b \in DOMAIN m /\ a <= b /\ M = L + (b - a) + 1
  BY <1>1
<1>4. \A i \in a + 1 .. b : i - a \in 1 .. l /\ i = n + 1 + (i - a) /\ i \in Int
  BY <1>1
<1>5. \A i \in a + 1 .. b : m[i] = Message("tool", v[i - a])
  BY <1>1, <1>4
<1>6. \A i \in a + 1 .. b : m[i].role = "tool" /\ m[i].what = v[i - a]
  BY <1>5, MessageFields
<1>7. ASSUME NEW i \in a + 1 .. b, NEW j \in a + 1 .. b, m[i].what = m[j].what PROVE i = j
  <2>1. i - a = j - a
    BY <1>4, <1>6, <1>7, <1>12
  <2>2. a \in Int
    BY <1>1
  <2>. HIDE DEF a
  <2>. QED
    BY <2>1, <2>2
<1>8. {m[i].what : i \in a + 1 .. b} = ids
  <2>1. \A i \in a + 1 .. b : m[i].what \in ids
    BY <1>4, <1>6, <1>12
  <2>2. ASSUME NEW x \in ids PROVE \E i \in a + 1 .. b : m[i].what = x
    <3>1. PICK j \in 1 .. l : v[j] = x
      BY <1>12
    <3>2. a + j \in a + 1 .. b /\ (a + j) - a = j
      BY <1>1
    <3>. QED
      BY <1>6, <3>1, <3>2
  <2>. QED
    BY <2>1, <2>2
<1>9. ASSUME NEW i \in 1 .. L PROVE z[i] = m[IF i < a THEN i ELSE i + (b - a) + 1]
  <2>1. CASE i < a
    <3>1. i \in 1 .. n
      BY <1>1, <2>1
    <3>. QED
      BY <1>1, <2>1, <3>1
  <2>2. CASE ~(i < a)
    <3>1. i \in n + 1 .. L /\ i + (b - a) + 1 = i + l + 1
      BY <1>1, <2>2
    <3>. QED
      BY <1>1, <2>2, <3>1
  <2>. QED
    BY <2>1, <2>2
<1>. HIDE DEF a, b
<1>10. m[a] = Assistant(calls)
  BY <1>1 DEF a
<1>11. /\ a \in DOMAIN m /\ b \in DOMAIN m /\ a <= b /\ m[a] = Assistant(calls)
       /\ \A i \in a + 1 .. b : m[i].role = "tool"
       /\ \A i, j \in a + 1 .. b : m[i].what = m[j].what => i = j
       /\ {m[i].what : i \in a + 1 .. b} = ids
       /\ Len(m) = Len(z) + (b - a) + 1
       /\ \A i \in DOMAIN z : z[i] = m[IF i < a THEN i ELSE i + (b - a) + 1]
  <2>1. \A i, j \in a + 1 .. b : m[i].what = m[j].what => i = j
    BY <1>7
  <2>2. \A i \in DOMAIN z : z[i] = m[IF i < a THEN i ELSE i + (b - a) + 1]
    BY <1>1, <1>9
  <2>. QED
    BY <1>2, <1>3, <1>6, <1>8, <1>10, <2>1, <2>2
<1>. QED
  BY <1>11 DEF Second

LEMMA PutInForced ==
  ASSUME NEW m, NEW z, NEW n, NEW l, NEW calls, NEW v, PutIn(m, z, n, l, Assistant(calls), v),
         NEW sysPrompt, Forced(z, sysPrompt)
  PROVE  Forced(m, sysPrompt)
<1>. DEFINE L == Len(z)
            M == Len(m)
<1>0. /\ n \in Nat /\ l \in Nat /\ L \in Nat /\ n <= L
      /\ DOMAIN z = 1 .. L /\ M = L + l + 1 /\ DOMAIN m = 1 .. M
  BY DEF PutIn
<1>1. /\ \A i \in 1 .. n : m[i] = z[i]
      /\ m[n + 1] = Assistant(calls)
      /\ \A j \in 1 .. l : m[n + 1 + j] = Message("tool", v[j])
      /\ \A i \in n + 1 .. L : m[i + l + 1] = z[i]
  BY DEF PutIn
<1>. HIDE DEF L, M
<1>2. With(z, "system") # {} /\ \A i \in With(z, "system") : z[i].what = sysPrompt
  BY DEF Forced
<1>3. PICK i \in DOMAIN z : z[i].role = "system"
  BY <1>2 DEF With
<1>4. \E k \in DOMAIN m : m[k] = z[i]
  <2>0. i \in 1 .. n \/ i \in n + 1 .. L
    BY <1>0
  <2>1. CASE i \in 1 .. n
    <3>1. i \in DOMAIN m
      BY <1>0, <2>1
    <3>. QED
      BY <1>1, <2>1, <3>1
  <2>2. CASE i \in n + 1 .. L
    <3>1. i + l + 1 \in DOMAIN m
      BY <1>0, <2>2
    <3>. QED
      BY <1>1, <2>2, <3>1
  <2>. QED
    BY <2>0, <2>1, <2>2
<1>5. ASSUME NEW k \in DOMAIN m, m[k].role = "system"
      PROVE  \E j \in DOMAIN z : m[k] = z[j]
  <2>1. k # n + 1
    BY <1>1, <1>5, AssistantRole
  <2>2. ASSUME NEW j \in 1 .. l PROVE k # n + 1 + j
    <3>1. Message("tool", v[j]).role = "tool"
      BY MessageFields
    <3>. QED
      BY <1>1, <1>5, <3>1
  <2>3. ~(k \in n + 2 .. n + 1 + l)
    <3>. SUFFICES ASSUME k \in n + 2 .. n + 1 + l PROVE FALSE
      OBVIOUS
    <3>1. k - (n + 1) \in 1 .. l /\ k = n + 1 + (k - (n + 1))
      BY <1>0
    <3>. QED
      BY <2>2, <3>1
  <2>4. CASE k \in 1 .. n
    <3>1. k \in DOMAIN z
      BY <1>0, <2>4
    <3>. QED
      BY <1>1, <2>4, <3>1
  <2>5. CASE k \notin 1 .. n
    <3>1. /\ k - (l + 1) \in n + 1 .. L /\ k = (k - (l + 1)) + l + 1
          /\ k - (l + 1) \in DOMAIN z
      BY <1>0, <2>1, <2>3, <2>5
    <3>. QED
      BY <1>1, <3>1
  <2>. QED
    BY <2>4, <2>5
<1>6. \A k \in With(m, "system") : m[k].what = sysPrompt
  <2>. TAKE k \in With(m, "system")
  <2>1. k \in DOMAIN m /\ m[k].role = "system"
    BY DEF With
  <2>2. PICK j \in DOMAIN z : m[k] = z[j]
    BY <1>5, <2>1
  <2>3. j \in With(z, "system")
    BY <2>1, <2>2 DEF With
  <2>. QED
    BY <1>2, <2>2, <2>3
<1>7. With(m, "system") # {}
  BY <1>3, <1>4 DEF With
<1>. QED
  BY <1>6, <1>7 DEF Forced

\* What the functions' answers and the assistant's message make.
Tools(v) == [i \in DOMAIN v |-> Message("tool", v[i])]
ChainOf(calls, v) == <<Assistant(calls)>> \o Tools(v)

LEMMA ToolsType ==
  ASSUME NEW l \in Nat, NEW v \in [1 .. l -> Text]
  PROVE  /\ Tools(v) \in Seq(MessageType) /\ Len(Tools(v)) = l
         /\ \A j \in 1 .. l : Tools(v)[j] = Message("tool", v[j])
<1>. DEFINE w == Tools(v)
<1>1. \A x \in Text : Message("tool", x) \in MessageType
  BY DEF Message, MessageType
<1>2. w \in [1 .. l -> MessageType] /\ \A j \in 1 .. l : w[j] = Message("tool", v[j])
  BY <1>1 DEF Tools
<1>. HIDE DEF w
<1>3. w \in Seq(MessageType) /\ Len(w) = l
  BY <1>2
<1>. QED
  BY <1>2, <1>3 DEF w

LEMMA AssistantType ==
  ASSUME NEW calls \in Seq(CallType)
  PROVE  Assistant(calls) \in MessageType
<1>. DEFINE ids == {calls[k].id : k \in DOMAIN calls}
<1>1. \A k \in DOMAIN calls : calls[k] \in CallType
  OBVIOUS
<1>2. ids \in SUBSET Text
  BY <1>1 DEF CallType
<1>3. Assistant(calls) = [role |-> "assistant", what |-> "", calls |-> ids]
  BY DEF Assistant
<1>4. "" \in Text
  BY DEF Text
<1>. HIDE DEF ids
<1>5. [role |-> "assistant", what |-> "", calls |-> ids] \in MessageType
  BY <1>2, <1>4 DEF MessageType
<1>. QED
  BY <1>3, <1>5

LEMMA Concatenated ==
  ASSUME NEW S, NEW x \in Seq(S), NEW y \in Seq(S)
  PROVE  /\ x \o y \in Seq(S) /\ Len(x \o y) = Len(x) + Len(y)
         /\ \A i \in 1 .. Len(x) : (x \o y)[i] = x[i]
         /\ \A j \in 1 .. Len(y) : (x \o y)[Len(x) + j] = y[j]
OBVIOUS

LEMMA ChainType ==
  ASSUME NEW calls \in Seq(CallType), NEW l \in Nat, NEW v \in [1 .. l -> Text]
  PROVE  LET c == ChainOf(calls, v)
         IN  /\ c \in Seq(MessageType) /\ Len(c) = l + 1 /\ c[1] = Assistant(calls)
             /\ \A j \in 1 .. l : c[1 + j] = Message("tool", v[j])
<1>. DEFINE a == Assistant(calls)
            b == <<a>>
            w == Tools(v)
            c == b \o w
<1>1. a \in MessageType
  BY AssistantType
<1>2. b \in Seq(MessageType) /\ Len(b) = 1 /\ b[1] = a
  BY <1>1
<1>3. w \in Seq(MessageType) /\ Len(w) = l /\ \A j \in 1 .. l : w[j] = Message("tool", v[j])
  BY ToolsType
<1>. HIDE DEF a, b, w
<1>4. /\ c \in Seq(MessageType) /\ Len(c) = Len(b) + Len(w)
      /\ \A i \in 1 .. Len(b) : c[i] = b[i]
      /\ \A j \in 1 .. Len(w) : c[Len(b) + j] = w[j]
  <2>1. b \in Seq(MessageType) /\ w \in Seq(MessageType)
    BY <1>2, <1>3
  <2>. QED
    BY <2>1, Concatenated
<1>. HIDE DEF c
<1>5. /\ c \in Seq(MessageType) /\ Len(c) = l + 1 /\ c[1] = a
      /\ \A j \in 1 .. l : c[1 + j] = Message("tool", v[j])
  BY <1>2, <1>3, <1>4
<1>. QED
  BY <1>5 DEF c, b, w, a, ChainOf

LEMMA ChatPut ==
  ASSUME NEW z \in Seq(MessageType), NEW calls \in Seq(CallType), NEW l \in Nat,
         NEW v \in [1 .. l -> Text]
  PROVE  LET m == z \o ChainOf(calls, v)
         IN  m \in Seq(MessageType) /\ PutIn(m, z, Len(z), l, Assistant(calls), v)
<1>. DEFINE c == ChainOf(calls, v)
            m == z \o c
            n == Len(z)
            said == Assistant(calls)
<1>1. /\ c \in Seq(MessageType) /\ Len(c) = l + 1 /\ c[1] = said
      /\ \A j \in 1 .. l : c[1 + j] = Message("tool", v[j])
  BY ChainType
<1>. HIDE DEF c, said
<1>2. /\ m \in Seq(MessageType) /\ Len(m) = n + Len(c)
      /\ \A i \in 1 .. n : m[i] = z[i]
      /\ \A j \in 1 .. Len(c) : m[n + j] = c[j]
  BY <1>1, Concatenated
<1>3. n \in Nat /\ DOMAIN z = 1 .. n
  OBVIOUS
<1>4. DOMAIN m = 1 .. Len(m)
  BY <1>2
<1>. HIDE DEF m
<1>5. n = Len(z)
  OBVIOUS
<1>. HIDE DEF n
<1>6. 1 \in 1 .. Len(c) /\ \A j \in 1 .. l : 1 + j \in 1 .. Len(c) /\ n + (1 + j) = n + 1 + j
  BY <1>1, <1>3
<1>7. m[n + 1] = said /\ \A j \in 1 .. l : m[n + 1 + j] = Message("tool", v[j])
  BY <1>1, <1>2, <1>6
<1>8. Len(m) = n + l + 1 /\ n <= n
  BY <1>1, <1>2, <1>3
<1>9. \A i \in n + 1 .. n : m[i + l + 1] = z[i]
  <2>1. \A i \in n + 1 .. n : FALSE
    BY <1>3
  <2>. QED
    BY <2>1
<1>10. \A i \in 1 .. n : m[i] = z[i]
  BY <1>2
<1>11. PutIn(m, z, n, l, said, v)
  BY <1>3, <1>4, <1>5, <1>7, <1>8, <1>9, <1>10 DEF PutIn
<1>. QED
  BY <1>2, <1>11 DEF m, n, c, said

\* The messages of GetInvoke.
LEMMA Prepared ==
  ASSUME NEW c \in Seq(MessageType)
  PROVE  LET m == prepareMessages(c)
         IN  /\ m \in Seq(MessageType) /\ Len(m) = Len(c) + 2
             /\ m[1] = Message("system", "instructions") /\ m[Len(c) + 2] = User
             /\ \A j \in 1 .. Len(c) : m[1 + j] = c[j]
<1>. DEFINE s == Message("system", "instructions")
            a == <<s>>
            b == <<User>>
            x == a \o c
            m == x \o b
            n == Len(c)
<1>1. s \in MessageType /\ User \in MessageType
  BY DEF Message, MessageType, User, Text
<1>. HIDE DEF s
<1>2. /\ a \in Seq(MessageType) /\ Len(a) = 1 /\ a[1] = s
      /\ b \in Seq(MessageType) /\ Len(b) = 1 /\ b[1] = User
  BY <1>1
<1>3. n \in Nat /\ n = Len(c)
  OBVIOUS
<1>. HIDE DEF a, b, n
<1>4. /\ x \in Seq(MessageType) /\ Len(x) = Len(a) + Len(c)
      /\ \A i \in 1 .. Len(a) : x[i] = a[i]
      /\ \A j \in 1 .. Len(c) : x[Len(a) + j] = c[j]
  <2>1. a \in Seq(MessageType)
    BY <1>2
  <2>. QED
    BY <2>1, Concatenated
<1>. HIDE DEF x
<1>5. /\ m \in Seq(MessageType) /\ Len(m) = Len(x) + Len(b)
      /\ \A i \in 1 .. Len(x) : m[i] = x[i]
      /\ \A j \in 1 .. Len(b) : m[Len(x) + j] = b[j]
  <2>1. x \in Seq(MessageType) /\ b \in Seq(MessageType)
    BY <1>2, <1>4
  <2>. QED
    BY <2>1, Concatenated
<1>. HIDE DEF m
<1>6. Len(x) = n + 1 /\ Len(m) = n + 2
  BY <1>2, <1>3, <1>4, <1>5
<1>7. m[1] = s
  BY <1>2, <1>3, <1>4, <1>5, <1>6
<1>8. m[n + 2] = User
  <2>1. (n + 1) + 1 = n + 2
    BY <1>3
  <2>2. m[Len(x) + 1] = User
    BY <1>2, <1>5
  <2>. QED
    BY <1>6, <2>1, <2>2
<1>9. \A j \in 1 .. n : m[1 + j] = c[j]
  <2>. TAKE j \in 1 .. n
  <2>1. 1 + j \in 1 .. Len(x)
    BY <1>3, <1>6
  <2>2. x[1 + j] = c[j]
    BY <1>2, <1>3, <1>4
  <2>. QED
    BY <1>5, <2>1, <2>2
<1>. QED
  BY <1>3, <1>5, <1>6, <1>7, <1>8, <1>9 DEF m, x, a, b, s, prepareMessages

LEMMA InvokePut ==
  ASSUME NEW calls \in Seq(CallType), NEW l \in Nat, NEW v \in [1 .. l -> Text]
  PROVE  LET m == prepareMessages(ChainOf(calls, v))
         IN  /\ m \in Seq(MessageType)
             /\ PutIn(m, prepareMessages(<<>>), 1, l, Assistant(calls), v)
<1>. DEFINE c == ChainOf(calls, v)
            m == prepareMessages(c)
            e == <<>>
            z == prepareMessages(e)
            s == Message("system", "instructions")
            said == Assistant(calls)
<1>1. /\ c \in Seq(MessageType) /\ Len(c) = l + 1 /\ c[1] = said
      /\ \A j \in 1 .. l : c[1 + j] = Message("tool", v[j])
  BY ChainType
<1>2. e \in Seq(MessageType) /\ Len(e) = 0
  OBVIOUS
<1>. HIDE DEF c, e, s, said
<1>3. /\ m \in Seq(MessageType) /\ Len(m) = Len(c) + 2 /\ m[1] = s /\ m[Len(c) + 2] = User
      /\ \A j \in 1 .. Len(c) : m[1 + j] = c[j]
  BY <1>1, Prepared DEF s
<1>4. z \in Seq(MessageType) /\ Len(z) = Len(e) + 2 /\ z[1] = s /\ z[Len(e) + 2] = User
  BY <1>2, Prepared DEF s
<1>. HIDE DEF m, z
<1>5. Len(z) = 2 /\ z[2] = User /\ DOMAIN z = 1 .. Len(z)
  BY <1>2, <1>4
<1>6. DOMAIN m = 1 .. Len(m)
  BY <1>3
<1>7. Len(m) = Len(z) + l + 1
  BY <1>1, <1>3, <1>5
<1>8. m[1 + 1] = said
  <2>1. 1 \in 1 .. Len(c)
    BY <1>1
  <2>. QED
    BY <1>1, <1>3, <2>1
<1>9. \A j \in 1 .. l : m[1 + 1 + j] = Message("tool", v[j])
  <2>. TAKE j \in 1 .. l
  <2>1. 1 + j \in 1 .. Len(c) /\ 1 + (1 + j) = 1 + 1 + j
    BY <1>1
  <2>. QED
    BY <1>1, <1>3, <2>1
<1>10. \A i \in 1 .. 1 : m[i] = z[i]
  BY <1>3, <1>4
<1>11. \A i \in 1 + 1 .. Len(z) : m[i + l + 1] = z[i]
  <2>1. \A i \in 1 + 1 .. Len(z) : i = 2
    BY <1>5
  <2>2. 2 + l + 1 = Len(c) + 2
    BY <1>1
  <2>. QED
    BY <1>3, <1>5, <2>1, <2>2
<1>12. PutIn(m, z, 1, l, said, v)
  BY <1>5, <1>6, <1>7, <1>8, <1>9, <1>10, <1>11 DEF PutIn
<1>. QED
  BY <1>3, <1>12 DEF m, z, e, c, said

\* The results are finitely many.
LEMMA IdsFinite ==
  ASSUME NEW calls \in Seq(CallType), NEW S,
         S \subseteq (DOMAIN ToolName) \X (DOMAIN calls)
  PROVE  Cardinality(IdsOf(calls, S)) \in Nat /\ IdsOf(calls, S) \subseteq Text
<1>. DEFINE D == DOMAIN calls
            T == {calls[k].id : k \in D}
            id == [k \in D |-> calls[k].id]
<1>1. IsFiniteSet(D)
  <2>1. D = 1 .. Len(calls) /\ Len(calls) \in Int /\ 1 \in Int
    OBVIOUS
  <2>. QED
    BY <2>1, FS_Interval
<1>2. id \in Surjection(D, T)
  BY DEF Surjection
<1>3. \A k \in D : calls[k] \in CallType
  OBVIOUS
<1>4. T \subseteq Text
  BY <1>3 DEF CallType
<1>5. IdsOf(calls, S) \subseteq T
  <2>1. \A p \in S : p[2] \in D
    OBVIOUS
  <2>. HIDE DEF D
  <2>. QED
    BY <2>1 DEF IdsOf
<1>. HIDE DEF D, T, id
<1>6. IsFiniteSet(T)
  BY <1>1, <1>2, FS_Surjection
<1>7. IsFiniteSet(IdsOf(calls, S))
  BY <1>5, <1>6, FS_Subset
<1>. QED
  BY <1>4, <1>5, <1>7, FS_CardinalityType

LEMMA Ordered ==
  ASSUME NEW D, NEW S, NEW v \in Bijection(D, S)
  PROVE  /\ v \in [D -> S] /\ \A x \in S : \E j \in D : v[j] = x
         /\ \A j, k \in D : v[j] = v[k] => j = k
BY DEF Bijection, Injection, IsInjective, Surjection

\* wg.Wait returns.
LEMMA WaitReturnsStep ==
  ASSUME NEW up, NEW gone, NEW q, RequestInv(q, up, gone), q.pc = "wait", q.pending = {},
         NEW order \in Bijection(1 .. Cardinality(q.val), q.val)
  PROVE  RequestInv([q EXCEPT !.pc = "llm2",
             !.messages2 = IF q.kind = "invoke"
                             THEN prepareMessages(ChainOf(q.toolCalls, order))
                             ELSE q.messages \o ChainOf(q.toolCalls, order)], up, gone)
<1>. DEFINE l == Cardinality(q.val)
            c == ChainOf(q.toolCalls, order)
            m == IF q.kind = "invoke" THEN prepareMessages(c) ELSE q.messages \o c
            p == [q EXCEPT !.pc = "llm2", !.messages2 = m]
            z == q.messages
            ids == IdsOf(q.toolCalls, q.fired)
<1>1. q \in RequestType /\ CallsInv(q) /\ MessagesInv(q) /\ FiredInv(q, up, gone)
  BY DEF RequestInv
<1>2. /\ q.toolCalls \in Seq(CallType) /\ z \in Seq(MessageType)
      /\ q.kind = "invoke" => z = prepareMessages(<<>>)
      /\ q.fired \subseteq (DOMAIN ToolName) \X (DOMAIN q.toolCalls)
      /\ Prompted(z, q.prompt)
  BY <1>1 DEF RequestType, MessagesInv, Active
<1>3. q.val = ids
  <2>1. q.val \union IdsOf(q.toolCalls, q.pending) = ids
    BY <1>1 DEF MessagesInv
  <2>2. IdsOf(q.toolCalls, q.pending) = {}
    BY DEF IdsOf
  <2>. QED
    BY <2>1, <2>2
<1>4. l \in Nat /\ ids \subseteq Text
  BY <1>2, <1>3, IdsFinite
<1>. HIDE DEF ids, z
<1>5. /\ order \in [1 .. l -> Text] /\ \A j \in 1 .. l : order[j] \in ids
      /\ \A x \in ids : \E j \in 1 .. l : order[j] = x
      /\ \A j, k \in 1 .. l : order[j] = order[k] => j = k
  <2>1. /\ order \in [1 .. l -> ids] /\ \A x \in ids : \E j \in 1 .. l : order[j] = x
        /\ \A j, k \in 1 .. l : order[j] = order[k] => j = k
    <3>. DEFINE D == 1 .. l
    <3>1. order \in Bijection(D, ids)
      BY <1>3
    <3>. HIDE DEF D
    <3>2. /\ order \in [D -> ids] /\ \A x \in ids : \E j \in D : order[j] = x
          /\ \A j, k \in D : order[j] = order[k] => j = k
      BY <3>1, Ordered
    <3>. QED
      BY <3>2 DEF D
  <2>. HIDE DEF l
  <2>2. \A j \in 1 .. l : order[j] \in ids
    BY <2>1
  <2>3. order \in [1 .. l -> Text]
    BY <1>4, <2>1
  <2>. QED
    BY <2>1, <2>2, <2>3
<1>. HIDE DEF l, c
<1>6. PICK n : m \in Seq(MessageType) /\ PutIn(m, z, n, l, Assistant(q.toolCalls), order)
  <2>1. CASE q.kind = "invoke"
    <3>. DEFINE y == prepareMessages(c)
    <3>1. /\ y \in Seq(MessageType)
          /\ PutIn(y, prepareMessages(<<>>), 1, l, Assistant(q.toolCalls), order)
      BY <1>2, <1>4, <1>5, InvokePut DEF c
    <3>. HIDE DEF y
    <3>2. m = y
      BY <2>1 DEF y
    <3>. HIDE DEF m
    <3>3. PutIn(m, z, 1, l, Assistant(q.toolCalls), order)
      BY <1>2, <2>1, <3>1, <3>2
    <3>. QED
      BY <3>1, <3>2, <3>3
  <2>2. CASE q.kind # "invoke"
    <3>. DEFINE y == z \o c
    <3>1. /\ y \in Seq(MessageType)
          /\ PutIn(y, z, Len(z), l, Assistant(q.toolCalls), order)
      BY <1>2, <1>4, <1>5, ChatPut DEF c
    <3>. HIDE DEF y
    <3>2. m = y
      BY <2>2 DEF y, z
    <3>. HIDE DEF m
    <3>. QED
      BY <3>1, <3>2
  <2>. QED
    BY <2>1, <2>2
<1>. HIDE DEF m
<1>7. Second(m, z, q.toolCalls, ids)
  <2>. DEFINE calls == q.toolCalls
  <2>1. PutIn(m, z, n, l, Assistant(calls), order)
    BY <1>6
  <2>. HIDE DEF calls
  <2>2. Second(m, z, calls, ids)
    <3>1. Covers(order, l, ids)
      BY <1>5 DEF Covers
    <3>. QED
      BY <2>1, <3>1, PutInSecond
  <2>. QED
    BY <2>2 DEF calls
<1>8. Prompted(m, q.prompt)
  <2>1. Forced(z, q.prompt) => Forced(m, q.prompt)
    BY <1>6, PutInForced
  <2>. QED
    BY <1>2, <2>1 DEF Prompted
<1>9. /\ p \in RequestType /\ p.pc = "llm2" /\ p.messages2 = m /\ p.fired = q.fired
      /\ SameSaid(p, q) /\ SameAsked(p, q) /\ SameHeard(p, q) /\ SameCalls(p, q)
  BY <1>1, <1>6, Words DEF RequestType, SameSaid, SameAsked, SameHeard, SameCalls
<1>10. p = [q EXCEPT !.pc = "llm2",
             !.messages2 = IF q.kind = "invoke"
                             THEN prepareMessages(ChainOf(q.toolCalls, order))
                             ELSE q.messages \o ChainOf(q.toolCalls, order)]
  BY DEF m, c
<1>. HIDE DEF p
<1>11. EndsInv(p)
  BY <1>9 DEF RequestInv, EndsInv, SameSaid, SameAsked
<1>12. CallsInv(p)
  BY <1>1, <1>9 DEF CallsInv, SameAsked, SameHeard, SameCalls
<1>13. MessagesInv(p)
  <2>1. /\ Second(p.messages2, p.messages, p.toolCalls, IdsOf(p.toolCalls, p.fired))
        /\ Prompted(p.messages2, p.prompt)
    BY <1>7, <1>8, <1>9 DEF SameAsked, SameCalls, z, ids
  <2>. QED
    BY <1>1, <1>9, <2>1 DEF MessagesInv, SameAsked, SameCalls, Active
<1>14. FiredInv(p, up, gone)
  BY <1>1, <1>9 DEF FiredInv, SameAsked, SameCalls, Active
<1>15. RequestInv(p, up, gone)
  BY <1>9, <1>11, <1>12, <1>13, <1>14 DEF RequestInv
<1>. QED
  BY <1>10, <1>15

\* A request that is answered at once.
LEMMA AtOnceStep ==
  ASSUME NEW up, NEW gone, NEW code \in Nat, NEW part \in Word \ {"text"}, NEW kind \in Word
  PROVE  RequestInv([Returned(Respond(NewRequest, code, part)) EXCEPT !.kind = kind],
                    up, gone)
<1>. DEFINE e == Returned(Respond(NewRequest, code, part))
            p == [e EXCEPT !.kind = kind]
            n == NewRequest
<1>1. /\ e \in RequestType /\ e.pc = "done" /\ e.at = "done"
      /\ e.body = Append(n.body, part)
  BY NewRequestType, ReturnedFields
<1>. HIDE DEF e, n
<1>2. p \in RequestType /\ p.pc = e.pc /\ p.at = e.at /\ p.body = e.body
  BY <1>1 DEF RequestType
<1>. HIDE DEF p
<1>3. NotText(p.body) = {Len(p.body)}
  <2>1. n.body = <<>>
    BY NewRequestType DEF n
  <2>2. NotText(n.body) = {} /\ n.body \in Seq(Word)
    BY <2>1 DEF NotText
  <2>3. p.body = Append(n.body, part)
    BY <1>1, <1>2
  <2>. QED
    BY <2>2, <2>3, Written
<1>4. RequestInv(p, up, gone)
  BY <1>1, <1>2, <1>3, DoneStep
<1>. QED
  BY <1>4 DEF p, e

\* A request that the LLM is asked about.
LEMMA HearsNothing ==
  ASSUME NEW h, h = <<>>, NEW f, DOMAIN f = {}
  PROVE  Hears(h, f) /\ NotText(h) = {}
<1>1. DOMAIN h = {}
  OBVIOUS
<1>2. {h[k].index : k \in DOMAIN h} = {}
  BY <1>1
<1>. QED
  BY <1>1, <1>2 DEF Hears, NotText

LEMMA AskStep ==
  ASSUME NEW up, NEW gone, NEW p \in RequestType, p.pc = "llm1", p.srv \in up,
         p.heard = <<>>, DOMAIN p.toolCallsMap = {}, p.body = <<>>, p.val = {},
         p.kind = "stream" => p.at = "handler",
         p.kind = "invoke" => p.messages = prepareMessages(<<>>),
         Prompted(p.messages, p.prompt)
  PROVE  RequestInv(p, up, gone)
<1>1. NotText(p.body) = {} /\ Hears(p.heard, p.toolCallsMap)
  BY HearsNothing
<1>. QED
  BY <1>1 DEF RequestInv, EndsInv, CallsInv, MessagesInv, FiredInv, Active

LEMMA InvokeStep ==
  ASSUME NEW up, NEW gone, NEW s \in Servers, s \in up
  PROVE  RequestInv([NewRequest EXCEPT !.kind = "invoke", !.srv = s, !.pc = "llm1",
                        !.at = "select", !.messages = prepareMessages(<<>>)], up, gone)
<1>. DEFINE n == NewRequest
            e == <<>>
            m == prepareMessages(e)
            p == [n EXCEPT !.kind = "invoke", !.srv = s, !.pc = "llm1",
                           !.at = "select", !.messages = m]
<1>1. m \in Seq(MessageType)
  <2>1. e \in Seq(MessageType)
    OBVIOUS
  <2>. HIDE DEF e
  <2>. QED
    BY <2>1, Prepared
<1>. HIDE DEF m, e
<1>2. /\ n \in RequestType /\ n.body = <<>> /\ n.heard = <<>>
      /\ DOMAIN n.toolCallsMap = {} /\ n.prompt = "" /\ n.val = {}
  BY NewRequestType
<1>. HIDE DEF n
<1>3. /\ p \in RequestType /\ p.kind = "invoke" /\ p.pc = "llm1" /\ p.messages = m
      /\ p.srv = s /\ p.heard = n.heard /\ p.toolCallsMap = n.toolCallsMap
      /\ p.body = n.body /\ p.val = n.val /\ p.prompt = n.prompt
  BY <1>1, <1>2, Words DEF RequestType
<1>. HIDE DEF p
<1>4. Prompted(p.messages, p.prompt)
  BY <1>2, <1>3 DEF Prompted
<1>5. p.messages = prepareMessages(<<>>)
  BY <1>3 DEF m, e
<1>6. RequestInv(p, up, gone)
  BY <1>2, <1>3, <1>4, <1>5, AskStep
<1>. QED
  BY <1>6 DEF p, m, n, e

\* A prompt replaces the system messages there are, or becomes one.
LEMMA OverWritten ==
  ASSUME NEW x \in Seq(MessageType), NEW sysPrompt, Message("system", sysPrompt) \in MessageType
  PROVE  /\ overWriteSystemPrompt(x, sysPrompt) \in Seq(MessageType)
         /\ Prompted(overWriteSystemPrompt(x, sysPrompt), sysPrompt)
<1>. DEFINE y == Message("system", sysPrompt)
            m == overWriteSystemPrompt(x, sysPrompt)
            system == With(x, "system")
<1>1. y \in MessageType /\ y.role = "system" /\ y.what = sysPrompt
  <2>1. y.role = "system" /\ y.what = sysPrompt
    BY DEF Message
  <2>. QED
    BY <2>1
<1>2. \A i \in DOMAIN x : x[i] \in MessageType
  OBVIOUS
<1>3. m = IF sysPrompt = "" THEN x
          ELSE IF system = {} THEN Append(x, y)
          ELSE [i \in DOMAIN x |-> IF i \in system THEN y ELSE x[i]]
  BY DEF overWriteSystemPrompt, With
<1>. HIDE DEF y, m
<1>. SUFFICES m \in Seq(MessageType) /\ Prompted(m, sysPrompt)
  BY DEF m
<1>4. CASE sysPrompt = ""
  BY <1>3, <1>4 DEF Prompted
<1>5. CASE sysPrompt # "" /\ system = {}
  <2>. DEFINE n == Len(x) + 1
  <2>1. m = Append(x, y)
    BY <1>3, <1>5
  <2>2. /\ m \in Seq(MessageType) /\ m[n] = y /\ n \in DOMAIN m
        /\ \A k \in DOMAIN x : m[k] = x[k]
        /\ \A k \in DOMAIN m : k \in DOMAIN x \/ k = n
    BY <1>1, <2>1, Appended
  <2>. HIDE DEF n
  <2>3. With(m, "system") = {n}
    BY <1>1, <1>5, <2>2 DEF With
  <2>. QED
    BY <1>1, <2>2, <2>3 DEF Prompted, Forced
<1>6. CASE sysPrompt # "" /\ system # {}
  <2>1. /\ DOMAIN m = DOMAIN x
        /\ \A i \in DOMAIN x : m[i] = IF i \in system THEN y ELSE x[i]
    BY <1>3, <1>6
  <2>2. m \in Seq(MessageType)
    <3>. DEFINE n == Len(x)
    <3>1. n \in Nat /\ DOMAIN x = 1 .. n
      OBVIOUS
    <3>. HIDE DEF n
    <3>2. m \in [1 .. n -> MessageType]
      BY <1>1, <1>2, <1>3, <1>6, <3>1
    <3>. QED
      BY <3>1, <3>2
  <2>3. With(m, "system") = system
    BY <1>1, <2>1 DEF With
  <2>4. \A i \in system : i \in DOMAIN x
    BY DEF With
  <2>. QED
    BY <1>1, <1>6, <2>1, <2>2, <2>3, <2>4 DEF Prompted, Forced
<1>. QED
  BY <1>4, <1>5, <1>6

LEMMA ChatStep ==
  ASSUME NEW up, NEW gone, NEW s \in Servers, s \in up, NEW kind \in {"chat", "stream"},
         NEW sysPrompt \in {"", "prompt"}, NEW x \in Chats
  PROVE  RequestInv([NewRequest EXCEPT !.kind = kind, !.srv = s, !.pc = "llm1",
                        !.at = "handler", !.prompt = sysPrompt,
                        !.messages = overWriteSystemPrompt(x, sysPrompt)], up, gone)
<1>. DEFINE n == NewRequest
            m == overWriteSystemPrompt(x, sysPrompt)
            p == [n EXCEPT !.kind = kind, !.srv = s, !.pc = "llm1", !.at = "handler",
                           !.prompt = sysPrompt, !.messages = m]
<1>1. x \in Seq(MessageType)
  BY AIBridgeAssumption
<1>2. m \in Seq(MessageType) /\ Prompted(m, sysPrompt)
  <2>1. Message("system", sysPrompt) \in MessageType
    BY DEF Message, MessageType, Text
  <2>. QED
    BY <1>1, <2>1, OverWritten
<1>. HIDE DEF m
<1>3. /\ n \in RequestType /\ n.body = <<>> /\ n.heard = <<>>
      /\ DOMAIN n.toolCallsMap = {} /\ n.val = {}
  BY NewRequestType
<1>. HIDE DEF n
<1>4. kind \in Word
  BY Words
<1>5. /\ p \in RequestType /\ p.kind = kind /\ p.pc = "llm1" /\ p.at = "handler"
      /\ p.srv = s /\ p.messages = m /\ p.prompt = sysPrompt
      /\ p.heard = n.heard /\ p.toolCallsMap = n.toolCallsMap /\ p.body = n.body
      /\ p.val = n.val
  BY <1>2, <1>3, <1>4, Words DEF RequestType
<1>. HIDE DEF p
<1>6. RequestInv(p, up, gone)
  BY <1>2, <1>3, <1>5, AskStep
<1>. QED
  BY <1>6 DEF p, m, n

\* A step of one request is as good as its new state.
LEMMA BecomeStep ==
  ASSUME RequestsInv, NEW r \in Requests, NEW p, RequestInv(p, Up, Gone),
         req' = [req EXCEPT ![r] = p], prompt' = prompt, UNCHANGED serverVars
  PROVE  RequestsInv'
<1>0. Up' = Up /\ Gone' = Gone
  BY DEF Up, Gone, serverVars
<1>1. p \in RequestType
  BY DEF RequestInv
<1>2. /\ req' \in [Requests -> RequestType] /\ req'[r] = p
      /\ \A u \in Requests : u # r => req'[u] = req[u]
  BY <1>1 DEF RequestsInv
<1>3. \A u \in Requests : RequestInv(req'[u], Up, Gone)
  BY <1>2 DEF RequestsInv
<1>4. \A u \in Requests : RequestInv(req'[u], Up', Gone')
  BY <1>0, <1>3
<1>. QED
  BY <1>2, <1>4 DEF RequestsInv

LEMMA Became ==
  ASSUME RequestsInv, NEW r \in Requests, NEW p, RequestInv(p, Up, Gone), Become(r, p)
  PROVE  RequestsInv'
<1>1. req' = [req EXCEPT ![r] = p] /\ prompt' = prompt /\ UNCHANGED serverVars
  BY DEF Become
<1>. QED
  BY <1>1, BecomeStep

LEMMA Panicked ==
  ASSUME RequestsInv, NEW r \in Requests, req[r].pc # "done", Panic(r)
  PROVE  RequestsInv'
<1>. DEFINE q == req[r]
            p == Returned([q EXCEPT !.body = Append(@, "aborted")])
<1>1. RequestInv(q, Up, Gone)
  BY DEF RequestsInv
<1>2. RequestInv(p, Up, Gone)
  BY <1>1, PanicStep
<1>3. req' = [req EXCEPT ![r] = p] /\ prompt' = prompt /\ UNCHANGED serverVars
  BY DEF Panic
<1>. HIDE DEF p
<1>. QED
  BY <1>2, <1>3, BecomeStep

LEMMA HandleStep ==
  ASSUME RequestsInv, NEW r \in Requests, Handle(r)
  PROVE  RequestsInv'
<1>0. /\ 500 \in Nat /\ 400 \in Nat /\ 200 \in Nat
      /\ "error" \in Word \ {"text"} /\ "functions" \in Word \ {"text"}
      /\ "any" \in Word /\ "overview" \in Word /\ "invoke" \in Word
  BY Words
<1>1. PICK s \in Servers :
        \/ HandleFailing(r, s) \/ HandleOverview(r, s)
        \/ \E decoded \in BOOLEAN :
            \/ HandleInvoke(r, s, decoded)
            \/ \E kind \in {"chat", "stream"}, m \in Chats :
                 HandleChatCompletions(r, s, decoded, kind, m)
  BY DEF Handle
<1>2. CASE HandleFailing(r, s)
  <2>. DEFINE p == [Returned(Respond(NewRequest, 500, "error")) EXCEPT !.kind = "any"]
  <2>1. RequestInv(p, Up, Gone)
    BY <1>0, AtOnceStep
  <2>2. Become(r, p)
    BY <1>2 DEF HandleFailing
  <2>. QED
    BY <2>1, <2>2, Became
<1>3. CASE HandleOverview(r, s)
  <2>. DEFINE p == [Returned(Respond(NewRequest, 200, "functions")) EXCEPT !.kind = "overview"]
  <2>1. RequestInv(p, Up, Gone)
    BY <1>0, AtOnceStep
  <2>2. Become(r, p)
    BY <1>3 DEF HandleOverview
  <2>. QED
    BY <2>1, <2>2, Became
<1>4. ASSUME NEW decoded \in BOOLEAN, HandleInvoke(r, s, decoded)
      PROVE  RequestsInv'
  <2>. DEFINE p == [NewRequest EXCEPT !.kind = "invoke", !.srv = s, !.pc = "llm1",
                        !.at = "select", !.messages = prepareMessages(<<>>)]
              e == [Returned(Respond(NewRequest, 400, "error")) EXCEPT !.kind = "invoke"]
  <2>0. s \in Up
    BY <1>4 DEF HandleInvoke, Up
  <2>1. RequestInv(p, Up, Gone)
    BY <2>0, InvokeStep
  <2>2. RequestInv(e, Up, Gone)
    BY <1>0, AtOnceStep
  <2>3. Become(r, p) \/ Become(r, e)
    BY <1>4 DEF HandleInvoke
  <2>. HIDE DEF p, e
  <2>. QED
    BY <2>1, <2>2, <2>3, Became
<1>5. ASSUME NEW decoded \in BOOLEAN, NEW kind \in {"chat", "stream"},
             NEW m \in Chats,
             HandleChatCompletions(r, s, decoded, kind, m)
      PROVE  RequestsInv'
  <2>. DEFINE p == [NewRequest EXCEPT !.kind = kind, !.srv = s, !.pc = "llm1",
                        !.at = "handler", !.prompt = prompt,
                        !.messages = overWriteSystemPrompt(m, prompt)]
              e == [Returned(Respond(NewRequest, 400, "error")) EXCEPT !.kind = kind]
  <2>0. prompt \in {"", "prompt"} /\ kind \in Word /\ s \in Up
    BY <1>5, Words DEF RequestsInv, HandleChatCompletions, Up
  <2>1. RequestInv(p, Up, Gone)
    BY <2>0, ChatStep
  <2>2. RequestInv(e, Up, Gone)
    <3>1. 400 \in Nat /\ "error" \in Word \ {"text"} /\ kind \in Word
      BY <1>0, <2>0
    <3>. QED
      BY <3>1, AtOnceStep
  <2>3. Become(r, p) \/ Become(r, e)
    BY <1>5 DEF HandleChatCompletions, RespondWithError
  <2>. HIDE DEF p, e
  <2>. QED
    BY <2>1, <2>2, <2>3, Became
<1>. QED
  BY <1>1, <1>2, <1>3, <1>4, <1>5

LEMMA LLMStep ==
  ASSUME RequestsInv, NEW r \in Requests, LLM(r)
  PROVE  RequestsInv'
<1>. DEFINE q == req[r]
<1>0. RequestInv(q, Up, Gone)
  BY DEF RequestsInv
<1>1. CASE ProviderPanics(r)
  BY <1>1, Panicked DEF ProviderPanics
<1>2. ASSUME NEW reason \in Reasons, NEW calls \in CallLists, FirstAnswer(r, reason, calls)
      PROVE  RequestsInv'
  <2>0. q.pc = "llm1" /\ q.kind # "stream" /\ calls \in Seq(CallType)
    BY <1>2, AIBridgeAssumption DEF FirstAnswer
  <2>. DEFINE c == Calling(q, calls, reason)
              e == Finish(q, "err")
              a == Finish(q, "res")
  <2>1. RequestInv(e, Up, Gone) /\ RequestInv(a, Up, Gone)
    BY <1>0, <2>0, FinishStep
  <2>2. RequestInv(c, Up, Gone)
    BY <1>0, <2>0, CallingStep
  <2>3. Become(r, e) \/ Become(r, a) \/ Panic(r) \/ Become(r, c)
    BY <1>2 DEF FirstAnswer, ConvertToInvokeResponse
  <2>. HIDE DEF c, e, a
  <2>. QED
    BY <2>0, <2>1, <2>2, <2>3, Became, Panicked
<1>3. ASSUME NEW reason \in Reasons, NEW calls \in CallLists, SecondAnswer(r, reason, calls)
      PROVE  RequestsInv'
  <2>0. q.pc = "llm2" /\ q.kind # "stream"
    BY <1>3 DEF SecondAnswer
  <2>. DEFINE e == Finish(q, "err")
              a == Finish(q, "res")
  <2>1. RequestInv(e, Up, Gone) /\ RequestInv(a, Up, Gone)
    BY <1>0, <2>0, FinishStep
  <2>2. Become(r, e) \/ Become(r, a) \/ Panic(r)
    BY <1>3 DEF SecondAnswer
  <2>. HIDE DEF e, a
  <2>. QED
    BY <2>0, <2>1, <2>2, Became, Panicked
<1>4. ASSUME NEW ok \in BOOLEAN, OpenStream(r, ok) PROVE RequestsInv'
  <2>. DEFINE e == Returned(Respond(q, 400, "error"))
              a == [q EXCEPT !.pc = IF @ = "llm1" THEN "stream1" ELSE "stream2"]
  <2>0. q.pc \in {"llm1", "llm2"} /\ q.kind = "stream"
    BY <1>4 DEF OpenStream
  <2>1. RequestInv(e, Up, Gone)
    BY <1>0, <2>0, Words, ReturnedStep
  <2>2. RequestInv(a, Up, Gone)
    BY <1>0, <2>0, OpenStreamStep
  <2>3. Become(r, e) \/ Become(r, a)
    BY <1>4 DEF OpenStream, RespondWithError
  <2>. HIDE DEF e, a
  <2>. QED
    BY <2>1, <2>2, <2>3, Became
<1>5. CASE RecvError(r)
  <2>. DEFINE e == Returned(Respond(q, 400, "error"))
  <2>0. q.pc \in {"stream1", "stream2"}
    BY <1>5 DEF RecvError
  <2>1. RequestInv(e, Up, Gone)
    BY <1>0, <2>0, Words, ReturnedStep
  <2>2. Become(r, e)
    BY <1>5 DEF RecvError, RespondWithError
  <2>. HIDE DEF e
  <2>. QED
    BY <2>1, <2>2, Became
<1>6. CASE FirstEOF(r)
  <2>. DEFINE e == Returned(Respond(q, 200, "DONE"))
              n == Cardinality(DOMAIN q.toolCallsMap)
              a == Calling(q, [i \in 1 .. n |-> q.toolCallsMap[i - 1]], "tool_calls")
  <2>0. q.pc = "stream1"
    BY <1>6 DEF FirstEOF
  <2>1. RequestInv(e, Up, Gone)
    BY <1>0, <2>0, Words, ReturnedStep
  <2>2. DOMAIN q.toolCallsMap = 0 .. n - 1 => RequestInv(a, Up, Gone)
    BY <1>0, <2>0, FirstEOFStep
  <2>3. \/ Become(r, e) \/ Panic(r)
        \/ DOMAIN q.toolCallsMap = 0 .. n - 1 /\ Become(r, a)
    BY <1>6 DEF FirstEOF
  <2>. HIDE DEF e, a
  <2>. QED
    BY <2>0, <2>1, <2>2, <2>3, Became, Panicked
<1>7. CASE SecondEOF(r)
  <2>. DEFINE e == Returned(Respond(q, 200, "DONE"))
  <2>0. q.pc = "stream2"
    BY <1>7 DEF SecondEOF
  <2>1. RequestInv(e, Up, Gone)
    BY <1>0, <2>0, Words, ReturnedStep
  <2>2. Become(r, e)
    BY <1>7 DEF SecondEOF
  <2>. HIDE DEF e
  <2>. QED
    BY <2>1, <2>2, Became
<1>. QED
  BY <1>1, <1>2, <1>3, <1>4, <1>5, <1>6, <1>7 DEF LLM

LEMMA ChunkStep ==
  ASSUME RequestsInv, NEW r \in Requests, Chunk(r)
  PROVE  RequestsInv'
<1>. DEFINE q == req[r]
<1>0. RequestInv(q, Up, Gone)
  BY DEF RequestsInv
<1>1. CASE RecvText(r)
  <2>. DEFINE p == Respond(q, 200, "text")
  <2>1. RequestInv(p, Up, Gone)
    BY <1>0, <1>1, RecvTextStep DEF RecvText
  <2>2. Become(r, p)
    BY <1>1 DEF RecvText
  <2>. HIDE DEF p
  <2>. QED
    BY <2>1, <2>2, Became
<1>2. ASSUME NEW d \in Deltas, RecvDelta(r, d) PROVE RequestsInv'
  <2>. DEFINE p == [q EXCEPT !.heard = Append(@, d),
                             !.toolCallsMap = AddDelta(@, d, Len(q.heard) + 1)]
  <2>1. q.pc = "stream1" /\ Become(r, p)
    BY <1>2 DEF RecvDelta
  <2>2. d \in DeltaType
    BY AIBridgeAssumption
  <2>3. RequestInv(p, Up, Gone)
    BY <1>0, <2>1, <2>2, RecvDeltaStep
  <2>. HIDE DEF p
  <2>. QED
    BY <2>1, <2>3, Became
<1>3. CASE RecvNoIndex(r)
  BY <1>3, Panicked DEF RecvNoIndex
<1>. QED
  BY <1>1, <1>2, <1>3 DEF Chunk

LEMMA FunctionsStep ==
  ASSUME RequestsInv, NEW r \in Requests,
         Functions(r) \/ \E p \in req[r].pending : FunctionAnswers(r, p)
  PROVE  RequestsInv'
<1>. DEFINE q == req[r]
<1>0. RequestInv(q, Up, Gone)
  BY DEF RequestsInv
<1>1. ASSUME NEW fired \in SUBSET q.hits, FireCalls(r, fired) PROVE RequestsInv'
  <2>. DEFINE p == [q EXCEPT !.pc = "wait", !.fired = fired, !.pending = fired]
  <2>1. q.pc = "fire" /\ Become(r, p)
    BY <1>1 DEF FireCalls
  <2>2. fired = q.hits \/ q.srv \in Gone
    <3>1. q.srv \in Up
      BY <1>0, <2>1 DEF RequestInv, FiredInv, Active
    <3>2. fired = q.hits \/ services[svc[q.srv]].source # "open"
      BY <1>1 DEF FireCalls
    <3>. QED
      BY <3>1, <3>2 DEF Gone
  <2>3. RequestInv(p, Up, Gone)
    BY <1>0, <2>1, <2>2, FireCallsStep
  <2>. HIDE DEF p
  <2>. QED
    BY <2>1, <2>3, Became
<1>2. ASSUME NEW order \in Orders(q.val), WaitReturns(r, order) PROVE RequestsInv'
  <2>. DEFINE p == [q EXCEPT !.pc = "llm2",
                      !.messages2 = IF q.kind = "invoke"
                                      THEN prepareMessages(ChainOf(q.toolCalls, order))
                                      ELSE q.messages \o ChainOf(q.toolCalls, order)]
  <2>1. q.pc = "wait" /\ q.pending = {} /\ Become(r, p)
    BY <1>2 DEF WaitReturns, ChainOf, Tools
  <2>2. order \in Bijection(1 .. Cardinality(q.val), q.val)
    BY DEF Orders
  <2>3. RequestInv(p, Up, Gone)
    BY <1>0, <2>1, <2>2, WaitReturnsStep
  <2>. HIDE DEF p
  <2>. QED
    BY <2>1, <2>3, Became
<1>3. ASSUME NEW f \in q.pending, FunctionAnswers(r, f) PROVE RequestsInv'
  <2>. DEFINE p == [q EXCEPT !.pending = @ \ {f},
                             !.val = @ \union {q.toolCalls[f[2]].id}]
  <2>1. q.pc = "wait" /\ Become(r, p)
    BY <1>3 DEF FunctionAnswers
  <2>2. RequestInv(p, Up, Gone)
    BY <1>0, <2>1, FunctionAnswersStep
  <2>. HIDE DEF p
  <2>. QED
    BY <2>1, <2>2, Became
<1>. QED
  BY <1>1, <1>2, <1>3 DEF Functions

LEMMA WaitingStep ==
  ASSUME RequestsInv, NEW r \in Requests, Expire(r) \/ InvokeReturns(r)
  PROVE  RequestsInv'
<1>. DEFINE q == req[r]
<1>0. RequestInv(q, Up, Gone)
  BY DEF RequestsInv
<1>1. CASE Expire(r)
  <2>. DEFINE p == [q EXCEPT !.expired = TRUE]
  <2>1. RequestInv(p, Up, Gone)
    BY <1>0, ExpireStep
  <2>2. Become(r, p)
    BY <1>1 DEF Expire
  <2>. HIDE DEF p
  <2>. QED
    BY <2>1, <2>2, Became
<1>2. CASE InvokeReturns(r)
  <2>. DEFINE P(code, part) ==
                [Respond(q, code, part) EXCEPT !.at = "done", !.expired = TRUE]
  <2>1. q.at = "select" /\ (Become(r, P(200, "answer")) \/ Become(r, P(500, "error"))
                            \/ Become(r, P(408, "error")))
    BY <1>2 DEF InvokeReturns
  <2>2. \A code \in Nat : \A part \in Word : RequestInv(P(code, part), Up, Gone)
    <3>. TAKE code \in Nat
    <3>. TAKE part \in Word
    <3>. QED
      BY <1>0, <2>1, InvokeReturnsStep
  <2>3. \A code \in Nat : \A part \in Word : Become(r, P(code, part)) => RequestsInv'
    <3>. TAKE code \in Nat
    <3>. TAKE part \in Word
    <3>. HIDE DEF P
    <3>. QED
      BY <2>2, Became
  <2>4. 200 \in Nat /\ 500 \in Nat /\ 408 \in Nat /\ "answer" \in Word /\ "error" \in Word
    BY Words
  <2>. HIDE DEF P
  <2>. QED
    BY <2>1, <2>3, <2>4
<1>. QED
  BY <1>1, <1>2

\* A source that is closed is not opened again, and a caller that is up stays so.
Later == \A t \in Up :
    /\ server'[t] = "up" /\ svc'[t] = svc[t]
    /\ services[svc[t]].source # "open" => services'[svc[t]].source # "open"

LEMMA ServeLater ==
  ASSUME ServicesInv, NEW s \in Servers, Serve(s)
  PROVE  Later
<1>0. server \in [Servers -> Places] /\ svc \in [Servers -> Nat] /\ services \in Seq(ServiceType)
  BY DEF ServicesInv, ServiceTypeOK
<1>1. \A t \in Up : t \in Servers /\ t # s /\ svc[t] \in DOMAIN services
  BY DEF Serve, Up, ServicesInv, UpInv
<1>2. \A t \in Up : server'[t] = server[t] /\ svc'[t] = svc[t] /\ server[t] = "up"
  BY <1>0, <1>1 DEF Serve, Up
<1>3. \A t \in Up : services'[svc[t]] = services[svc[t]]
  <2>. DEFINE d == [cred |-> cred[s], source |-> "none", reducer |-> "none"]
  <2>1. services' = services \/ services' = Append(services, d)
    BY DEF Serve
  <2>. HIDE DEF d
  <2>2. CASE services' = services
    BY <2>2
  <2>3. CASE services' = Append(services, d)
    <3>1. \A i \in DOMAIN services : Append(services, d)[i] = services[i]
      BY <1>0
    <3>. QED
      BY <1>1, <2>3, <3>1
  <2>. QED
    BY <2>1, <2>2, <2>3
<1>. QED
  BY <1>2, <1>3 DEF Later

LEMMA CreateLater ==
  ASSUME ServicesInv, NEW s \in Servers, NEW ok \in BOOLEAN,
         createSource(s, ok) \/ createReducer(s, ok)
  PROVE  Later
<1>0. server \in [Servers -> Places] /\ svc \in [Servers -> Nat] /\ services \in Seq(ServiceType)
  BY DEF ServicesInv, ServiceTypeOK
<1>1. \A t \in Up : t \in Servers /\ t # s /\ svc[t] \in DOMAIN services
  BY DEF createSource, createReducer, Up, ServicesInv, UpInv
<1>2. \A t \in Up : server'[t] = server[t] /\ svc'[t] = svc[t] /\ server[t] = "up"
  BY <1>0, <1>1 DEF createSource, createReducer, Up
<1>3. CASE createSource(s, ok)
  <2>1. \A t \in Up : svc[t] # svc[s]
    <3>1. server[s] = "source" /\ "source" \in Booting
      BY <1>3 DEF createSource, Booting
    <3>2. services[svc[s]].source = "none"
      BY <3>1 DEF ServicesInv, BootInv
    <3>3. \A t \in Up : services[svc[t]].source # "none"
      BY DEF Up, ServicesInv, UpInv
    <3>. QED
      BY <3>2, <3>3
  <2>2. services' = services \/ services' = [services EXCEPT ![svc[s]].source = "open"]
    BY <1>3 DEF createSource
  <2>3. \A t \in Up : services'[svc[t]] = services[svc[t]]
    BY <1>0, <1>1, <2>1, <2>2
  <2>. QED
    BY <1>2, <2>3 DEF Later
<1>4. CASE createReducer(s, ok)
  <2>1. services' = services \/ services' = [services EXCEPT ![svc[s]].reducer = "open"]
    BY <1>4 DEF createReducer
  <2>2. \A v \in DOMAIN services : services'[v].source = services[v].source
    <3>1. CASE services' = services
      BY <3>1
    <3>2. CASE services' = [services EXCEPT ![svc[s]].reducer = "open"]
      <4>1. \A v \in DOMAIN services : services[v] \in ServiceType
        BY <1>0
      <4>. QED
        BY <3>2, <4>1 DEF ServiceType
    <3>. QED
      BY <2>1, <3>1, <3>2
  <2>. QED
    BY <1>1, <1>2, <2>2 DEF Later
<1>. QED
  BY <1>3, <1>4

LEMMA ReleaseLater ==
  ASSUME NEW d \in ServiceType
  PROVE  (IF d.source = "remote" THEN d
          ELSE [d EXCEPT !.source = "closed",
                  !.reducer = IF d.reducer = "remote" THEN "remote" ELSE "closed"]).source
            # "open"
<1>1. CASE d.source = "remote"
  BY <1>1
<1>2. CASE d.source # "remote"
  BY <1>2 DEF ServiceType
<1>. QED
  BY <1>1, <1>2

LEMMA AddLater ==
  ASSUME ServicesInv, NEW s \in Servers, AddService(s)
  PROVE  Later
<1>0. server \in [Servers -> Places] /\ svc \in [Servers -> Nat] /\ services \in Seq(ServiceType)
  BY DEF ServicesInv, ServiceTypeOK
<1>1. \A t \in Up : t \in Servers /\ t # s /\ svc[t] \in DOMAIN services
  BY DEF AddService, Up, ServicesInv, UpInv
<1>2. \A t \in Up : server'[t] = server[t] /\ svc'[t] = svc[t] /\ server[t] = "up"
  BY <1>0, <1>1 DEF AddService, Up
<1>3. \E v : services' = services \/ services' = Release(v)
  BY DEF AddService
<1>4. PICK v : services' = services \/ services' = Release(v)
  BY <1>3
<1>5. \A i \in DOMAIN services : services[i].source # "open" => services'[i].source # "open"
  <2>1. CASE services' = services
    BY <2>1
  <2>2. CASE services' = Release(v)
    <3>. DEFINE d == services[v]
                e == IF d.source = "remote" THEN d
                     ELSE [d EXCEPT !.source = "closed",
                             !.reducer = IF d.reducer = "remote" THEN "remote" ELSE "closed"]
    <3>1. services' = [services EXCEPT ![v] = e]
      BY <2>2 DEF Release
    <3>2. v \in DOMAIN services => e.source # "open"
      <4>1. v \in DOMAIN services => d \in ServiceType
        BY <1>0
      <4>. SUFFICES ASSUME v \in DOMAIN services PROVE e.source # "open"
        OBVIOUS
      <4>2. d \in ServiceType
        BY <4>1
      <4>. HIDE DEF d
      <4>3. e.source # "open"
        BY <4>2, ReleaseLater
      <4>. QED
        BY <4>3 DEF d
    <3>. HIDE DEF e
    <3>. QED
      BY <3>1, <3>2
  <2>. QED
    BY <1>4, <2>1, <2>2
<1>. QED
  BY <1>1, <1>2, <1>5 DEF Later

LEMMA CutLater ==
  ASSUME ServicesInv, Cut
  PROVE  Later
<1>0. services \in Seq(ServiceType)
  BY DEF ServicesInv, ServiceTypeOK
<1>1. \A t \in Up : svc[t] \in DOMAIN services
  BY DEF Up, ServicesInv, UpInv
<1>2. PICK v \in DOMAIN services, client \in {"source", "reducer"} : ZipperCloses(v, client)
  BY DEF Cut
<1>3. \A t \in Up : server'[t] = "up" /\ svc'[t] = svc[t]
  BY <1>2 DEF ZipperCloses, Up
<1>. DEFINE d == [services[v] EXCEPT ![client] = "remote"]
<1>4. services' = [services EXCEPT ![v] = d]
  BY <1>2 DEF ZipperCloses
<1>5. services[v].source # "open" => d.source # "open"
  <2>1. services[v] \in ServiceType
    BY <1>0
  <2>2. CASE client = "source"
    BY <2>1, <2>2 DEF ServiceType
  <2>3. CASE client = "reducer"
    BY <2>1, <2>3 DEF ServiceType
  <2>. QED
    BY <2>2, <2>3
<1>. HIDE DEF d
<1>6. \A i \in DOMAIN services : services[i].source # "open" => services'[i].source # "open"
  BY <1>4, <1>5
<1>. QED
  BY <1>1, <1>3, <1>6 DEF Later

\* What happens to services keeps the state of the requests right.
LEMMA LaterStep ==
  ASSUME RequestsInv, Later, UNCHANGED <<req, prompt>>
  PROVE  RequestsInv'
<1>1. Up \subseteq Up'
  BY DEF Later, Up
<1>2. Gone \subseteq Gone'
  BY <1>1 DEF Later, Gone, Up
<1>3. ASSUME NEW r \in Requests PROVE RequestInv(req[r], Up', Gone')
  <2>. DEFINE q == req[r]
  <2>1. RequestInv(q, Up, Gone)
    BY DEF RequestsInv
  <2>. HIDE DEF q
  <2>2. FiredInv(q, Up', Gone')
    BY <1>1, <1>2, <2>1 DEF RequestInv, FiredInv
  <2>3. RequestInv(q, Up', Gone')
    BY <2>1, <2>2 DEF RequestInv
  <2>. QED
    BY <2>3 DEF q
<1>4. req' = req /\ prompt' = prompt
  OBVIOUS
<1>5. \A r \in Requests : RequestInv(req'[r], Up', Gone')
  BY <1>3, <1>4
<1>6. req' \in [Requests -> RequestType] /\ prompt' \in {"", "prompt"}
  BY <1>4 DEF RequestsInv
<1>. QED
  BY <1>5, <1>6 DEF RequestsInv

\* The state of a request stays as RequestInv says, whatever the LLM answers or
\* streams and however many functions answer, in any order with timers, clients
\* other requests, and services that are released or cut off meanwhile.
THEOREM RequestsInvariant == Spec => []RequestsInv
<1>1. Init => RequestsInv
  <2>. SUFFICES ASSUME Init PROVE RequestsInv
    OBVIOUS
  <2>. DEFINE n == NewRequest
  <2>1. ASSUME NEW up, NEW gone PROVE RequestInv(n, up, gone)
    BY NewRequestType DEF RequestInv, EndsInv, CallsInv, MessagesInv, FiredInv, Active
  <2>2. n \in RequestType
    BY NewRequestType
  <2>3. req = [r \in Requests |-> n] /\ prompt \in {"", "prompt"}
    BY DEF Init
  <2>. HIDE DEF n
  <2>4. RequestInv(n, Up, Gone)
    BY <2>1
  <2>. QED
    BY <2>2, <2>3, <2>4 DEF RequestsInv
<1>2. ServicesInv /\ RequestsInv /\ [Next]_vars => RequestsInv'
  <2>. SUFFICES ASSUME ServicesInv, RequestsInv, [Next]_vars PROVE RequestsInv'
    OBVIOUS
  <2>1. ASSUME NEW s \in Servers, Boot(s) PROVE RequestsInv'
    <3>1. UNCHANGED <<req, prompt>>
      BY <2>1 DEF Boot, Serve, AddService, createSource, createReducer
    <3>2. Later
      BY <2>1, ServeLater, AddLater, CreateLater DEF Boot
    <3>. QED
      BY <3>1, <3>2, LaterStep
  <2>2. CASE Cut
    <3>1. UNCHANGED <<req, prompt>>
      BY <2>2 DEF Cut, ZipperCloses
    <3>. QED
      BY <2>2, <3>1, CutLater, LaterStep
  <2>3. ASSUME NEW r \in Requests,
               \/ Handle(r) \/ Expire(r) \/ InvokeReturns(r) \/ LLM(r) \/ Chunk(r)
               \/ Functions(r) \/ \E p \in req[r].pending : FunctionAnswers(r, p)
        PROVE  RequestsInv'
    BY <2>3, HandleStep, WaitingStep, LLMStep, ChunkStep, FunctionsStep
  <2>4. CASE UNCHANGED vars
    <3>1. Up' = Up /\ Gone' = Gone /\ req' = req /\ prompt' = prompt
      BY <2>4 DEF vars, Up, Gone
    <3>. QED
      BY <3>1 DEF RequestsInv
  <2>. QED
    BY <2>1, <2>2, <2>3, <2>4 DEF Next
<1>. QED
  BY <1>1, <1>2, ServicesInvariant, PTL DEF Spec

\* However the second question comes about - by name, with several functions for
\* one call or none, over a stream or not, after any earlier turns - the LLM gets
\* it in the form it insists on, each call that was fired answered once and right
\* behind the assistant's message, under the prompt that was set; and all calls
\* that hit a function are fired, unless the source was closed (service.go).
THEOREM SecondCall == Spec => []SecondCallWellFormed
<1>1. RequestsInv => SecondCallWellFormed
  <2>. SUFFICES ASSUME RequestsInv, NEW r \in Requests, req[r].pc \in {"llm2", "stream2"}
       PROVE  LET q == req[r]
                  m == q.messages2
                  system == {i \in DOMAIN m : m[i].role = "system"}
              IN  /\ \E a, b \in DOMAIN m :
                       /\ a <= b
                       /\ m[a] = Assistant(q.toolCalls)
                       /\ \A i \in a + 1 .. b : m[i].role = "tool"
                       /\ \A i, j \in a + 1 .. b : m[i].what = m[j].what => i = j
                       /\ {m[i].what : i \in a + 1 .. b} =
                            {q.toolCalls[p[2]].id : p \in q.fired}
                       /\ Len(m) = Len(q.messages) + (b - a) + 1
                       /\ \A i \in DOMAIN q.messages :
                            q.messages[i] = m[IF i < a THEN i ELSE i + (b - a) + 1]
                  /\ q.fired = q.hits \/ services[svc[q.srv]].source # "open"
                  /\ q.prompt # "" =>
                       system # {} /\ \A i \in system : m[i].what = q.prompt
    BY DEF SecondCallWellFormed
  <2>. DEFINE q == req[r]
              m == q.messages2
  <2>1. RequestInv(q, Up, Gone)
    BY DEF RequestsInv
  <2>2. Second(m, q.messages, q.toolCalls, IdsOf(q.toolCalls, q.fired)) /\ Prompted(m, q.prompt)
    BY <2>1 DEF RequestInv, MessagesInv
  <2>3. q.fired = q.hits \/ services[svc[q.srv]].source # "open"
    BY <2>1 DEF RequestInv, FiredInv, Gone
  <2>4. \E a, b \in DOMAIN m :
          /\ a <= b
          /\ m[a] = Assistant(q.toolCalls)
          /\ \A i \in a + 1 .. b : m[i].role = "tool"
          /\ \A i, j \in a + 1 .. b : m[i].what = m[j].what => i = j
          /\ {m[i].what : i \in a + 1 .. b} = {q.toolCalls[p[2]].id : p \in q.fired}
          /\ Len(m) = Len(q.messages) + (b - a) + 1
          /\ \A i \in DOMAIN q.messages :
               q.messages[i] = m[IF i < a THEN i ELSE i + (b - a) + 1]
    BY <2>2 DEF Second, IdsOf
  <2>5. q.prompt # "" =>
          /\ {i \in DOMAIN m : m[i].role = "system"} # {}
          /\ \A i \in {i \in DOMAIN m : m[i].role = "system"} : m[i].what = q.prompt
    BY <2>2 DEF Prompted, Forced, With
  <2>. QED
    BY <2>3, <2>4, <2>5
<1>. QED
  BY <1>1, RequestsInvariant, PTL

\* Whatever number of deltas alternates, the loop over them has put each call
\* together from the deltas of its index and no other (toolCallsMap,
\* mapToSliceTools).
THEOREM Reassembly == Spec => []CallsReassembled
<1>1. RequestsInv => CallsReassembled
  BY DEF RequestsInv, RequestInv, CallsInv, Reassembled, CallsReassembled
<1>. QED
  BY <1>1, RequestsInvariant, PTL

\* Every stream that is over has exactly one end, as the last thing written.
THEOREM StreamsEnd == Spec => []StreamHasAnEnd
<1>1. RequestsInv => StreamHasAnEnd
  <2>. SUFFICES ASSUME RequestsInv, NEW r \in Requests, req[r].kind = "stream"
       PROVE  LET ends == {i \in DOMAIN req[r].body : req[r].body[i] # "text"}
              IN  ends = IF req[r].at = "done" THEN {Len(req[r].body)} ELSE {}
    BY DEF StreamHasAnEnd
  <2>1. EndsInv(req[r])
    BY DEF RequestsInv, RequestInv
  <2>. QED
    BY <2>1 DEF EndsInv, NotText
<1>. QED
  BY <1>1, RequestsInvariant, PTL
=============================================================================
