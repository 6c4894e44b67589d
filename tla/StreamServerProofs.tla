------------------------- MODULE StreamServerProofs -------------------------
(***************************************************************************)
(* StreamServer's safety for any set of clients, any channel capacity and  *)
(* any number of pages: the type invariant, the three invariants about     *)
(* what a client receives, and the refinement of LiveJoin.                 *)
(***************************************************************************)
EXTENDS StreamServer, SequenceTheorems, TLAPS

Assumptions == /\ Sink \notin Clients
               /\ Free \notin Clients \cup {Sink}
               /\ Capacity \in Nat \ {0}
               /\ MaxPages \in Nat

LEMMA ConstantAssumptions == Assumptions
BY SinkAssumption, FreeAssumption, CapacityAssumption, MaxPagesAssumption
   DEF Assumptions

-----------------------------------------------------------------------------
LEMMA TypeInit == Init => TypeOK
<1>1. <<>> \in Seq(PageKinds) /\ <<>> \in Seq(Nat)
  OBVIOUS
<1>2. "header" \in PageKinds
  BY DEF PageKinds
<1> HAVE Init
<1>3. lock \in Clients \cup {Sink, Free}
  BY DEF Init
<1>4. got \in [Clients -> Seq(Nat)] /\ snap \in [Clients -> Seq(Nat)]
  BY <1>1 DEF Init
<1> QED
  BY <1>1, <1>2, <1>3, <1>4 DEF Init, TypeOK

LEMMA TypeStep == TypeOK /\ [Next]_vars => TypeOK'
<1> SUFFICES ASSUME TypeOK, [Next]_vars PROVE TypeOK'
  OBVIOUS
<1> USE ConstantAssumptions DEF Assumptions, TypeOK, sinkVars, httpVars
<1>1. CASE SinkLock
  BY <1>1 DEF SinkLock, Acquire, MuxerPages, PageKinds
<1>2. CASE SinkCache
  BY <1>2 DEF SinkCache, CachedHeaders
<1>3. CASE SinkBroadcast
  <2>1. pages' \in Seq(PageKinds) /\ lock' \in Clients \cup {Sink, Free}
    BY <1>3 DEF SinkBroadcast, Release
  <2> QED
    BY <1>3, <2>1 DEF SinkBroadcast
<1>4. ASSUME NEW c \in Clients, HttpLock(c) PROVE TypeOK'
  BY <1>4 DEF HttpLock, Acquire
<1>5. ASSUME NEW c \in Clients, HandlerStep(c) PROVE TypeOK'
  <2>1. CASE HttpCloneHeaders(c)
    BY <2>1 DEF HttpCloneHeaders
  <2>2. CASE HttpSubscribe(c)
    <3>1. lock' \in Clients \cup {Sink, Free} /\ FirstLive \in Nat
      BY <2>2 DEF HttpSubscribe, FirstLive, Release
    <3> QED
      BY <2>2, <3>1 DEF HttpSubscribe
  <2> QED
    BY <1>5, <2>1, <2>2 DEF HandlerStep
<1>6. ASSUME NEW c \in Clients, SendHeader(c) PROVE TypeOK'
  <2>1. snap[c][Len(got[c]) + 1] \in Nat
    BY <1>6 DEF SendHeader, HeadersDone
  <2> QED
    BY <1>6, <2>1 DEF SendHeader
<1>7. ASSUME NEW c \in Clients, SendLive(c) PROVE TypeOK'
  BY <1>7 DEF SendLive
<1>8. ASSUME NEW c \in Clients, Lag(c) \/ Disconnect(c) PROVE TypeOK'
  <2>1. <<>> \in Seq(Nat)
    OBVIOUS
  <2>2. Hangup(c)
    BY <1>8 DEF Lag, Disconnect
  <2>3. got' \in [Clients -> Seq(Nat)]
    BY <2>1, <2>2 DEF Hangup
  <2>4. snap' \in [Clients -> Seq(Nat)]
    BY <2>1, <2>2 DEF Hangup
  <2> QED
    BY <2>2, <2>3, <2>4 DEF Hangup
<1>9. CASE UNCHANGED vars
  BY <1>9 DEF vars
<1> QED
  BY <1>1, <1>2, <1>3, <1>4, <1>5, <1>6, <1>7, <1>8, <1>9
     DEF Next, SinkStep, BodyStep

(* Every variable keeps its type. *)
THEOREM TypeCorrect == Spec => []TypeOK
BY TypeInit, TypeStep, PTL DEF Spec

-----------------------------------------------------------------------------
(* Which header pages are current.                                         *)

(* What is published later does not change which pages opened a stream.    *)
LEMMA OpeningStable ==
  ASSUME NEW s \in Seq(PageKinds), NEW x \in PageKinds, NEW k \in 0..Len(s)
  PROVE  Promise!Opening(Append(s, x), k) = Promise!Opening(s, k)
<1>1. \A i \in 1..k : Append(s, x)[i] = s[i]
  OBVIOUS
<1> QED
  BY <1>1 DEF Promise!Opening

(* The headers of a stream still open it after any of its pages. *)
LEMMA OpeningPrefix ==
  ASSUME NEW s \in Seq(PageKinds), NEW n \in Nat, NEW k \in 0..n,
         NEW h \in Promise!Opening(s, n), h <= k
  PROVE  h \in Promise!Opening(s, k)
BY DEF Promise!Opening

LEMMA OpeningAudio ==
  ASSUME NEW s \in Seq(PageKinds)
  PROVE  Promise!Opening(Append(s, "audio"), Len(s) + 1)
           = Promise!Opening(s, Len(s))
<1> DEFINE t == Append(s, "audio")
<1>1. /\ \A i \in 1..Len(s) : t[i] = s[i]
      /\ t[Len(s) + 1] = "audio"
  OBVIOUS
<1> HIDE DEF t
<1>2. Promise!Opening(t, Len(s) + 1) = Promise!Opening(s, Len(s))
  BY <1>1 DEF Promise!Opening
<1> QED
  BY <1>2 DEF t

LEMMA OpeningHeader ==
  ASSUME NEW s \in Seq(PageKinds)
  PROVE  Promise!Opening(Append(s, "header"), Len(s) + 1)
           = (IF s # <<>> /\ s[Len(s)] = "header"
              THEN Promise!Opening(s, Len(s)) ELSE {}) \cup {Len(s) + 1}
<1> DEFINE t == Append(s, "header")
           n == Len(s)
<1>1. n \in Nat /\ (\A i \in 1..n : t[i] = s[i]) /\ t[n + 1] = "header"
  OBVIOUS
<1> HIDE DEF t
<1>2. CASE s # <<>> /\ s[n] = "header"
  <2>1. n > 0
    BY <1>2
  <2> HIDE DEF n
  <2>2. \A h : h \in Promise!Opening(t, n + 1) => h \in Promise!Opening(s, n) \cup {n + 1}
    BY <1>1 DEF Promise!Opening
  <2>3. n + 1 \in Promise!Opening(t, n + 1)
    BY <1>1 DEF Promise!Opening
  <2>4. ASSUME NEW h \in Promise!Opening(s, n) PROVE h \in Promise!Opening(t, n + 1)
    <3>1. \A i \in h..n : s[i] = "header"
      BY <2>4, <1>1, <1>2, <2>1 DEF Promise!Opening
    <3> QED
      BY <3>1, <1>1 DEF Promise!Opening
  <2>5. Promise!Opening(t, n + 1) = Promise!Opening(s, n) \cup {n + 1}
    BY <2>2, <2>3, <2>4
  <2> QED
    BY <2>5, <1>2 DEF t, n
<1>3. CASE ~(s # <<>> /\ s[n] = "header")
  <2>1. n = 0 \/ s[n] # "header"
    BY <1>3
  <2> HIDE DEF n
  <2>2. Promise!Opening(t, n + 1) = {n + 1}
    BY <1>1, <2>1 DEF Promise!Opening
  <2> QED
    BY <2>2, <1>3 DEF t, n
<1> QED
  BY <1>2, <1>3

-----------------------------------------------------------------------------
(* The inductive invariant.  MutexInv says who may be where, CacheInv what *)
(* the cache holds (while a page is cached but not yet broadcast it is     *)
(* already the cache of the longer output), ClientInv that what a client   *)
(* was handed and what it has received are determined by how many pages    *)
(* had been published when it joined.                                      *)

Lists(q, S) ==
  /\ \A h : h \in S <=> \E i \in 1..Len(q) : q[i] = h
  /\ \A i, j \in 1..Len(q) : i < j => q[i] < q[j]

Caches(hs, was, s) ==
  /\ hs \in Seq(Nat)
  /\ Lists(hs, Promise!Opening(s, Len(s)))
  /\ was = (s # <<>> /\ s[Len(s)] = "header")

MutexInv ==
  /\ lock = Sink <=> sink # "idle"
  /\ \A c \in Clients : lock = c <=> http[c] \in {"locked", "copied"}

CacheInv ==
  Caches(headers, lastWasHeader,
         IF sink = "cached" THEN Append(pages, kind) ELSE pages)

Expected(c, k) ==
  IF k <= Len(snap[c]) THEN snap[c][k] ELSE Since(c) + k - Len(snap[c])

ClientInv(c) ==
  /\ http[c] \in {"away", "locked"} => snap[c] = <<>> /\ next[c] = 1
  /\ http[c] = "copied" => snap[c] = headers
  /\ http[c] # "streaming" => got[c] = <<>>
  /\ http[c] = "streaming" =>
       /\ Since(c) \in 0..Len(pages)
       /\ next[c] <= Len(pages) + 1
       /\ Lists(snap[c], Promise!Opening(pages, Since(c)))
       /\ \A k \in 1..Len(got[c]) : got[c][k] = Expected(c, k)

(* The model's bound on pages, re-established at the broadcast. *)
BoundInv == sink # "idle" => Len(pages) < MaxPages

IInv ==
  /\ TypeOK /\ MutexInv /\ BoundInv /\ CacheInv
  /\ \A c \in Clients : ClientInv(c)

-----------------------------------------------------------------------------
LEMMA InvInit == Init => IInv
<1> SUFFICES ASSUME Init PROVE IInv
  OBVIOUS
<1> USE ConstantAssumptions DEF Assumptions
<1>1. TypeOK
  BY TypeInit
<1>2. MutexInv
  BY DEF Init, MutexInv
<1>3. CacheInv
  <2>1. Promise!Opening(<<>>, Len(<<>>)) = {}
    BY DEF Promise!Opening
  <2>2. Lists(<<>>, {}) /\ <<>> \in Seq(Nat)
    BY DEF Lists
  <2>3. Caches(<<>>, FALSE, <<>>)
    BY <2>1, <2>2 DEF Caches
  <2> QED
    BY <2>3 DEF Init, CacheInv
<1>4. ASSUME NEW c \in Clients PROVE ClientInv(c)
  BY DEF Init, ClientInv
<1>5. BoundInv
  BY DEF Init, BoundInv
<1> QED
  BY <1>1, <1>2, <1>3, <1>4, <1>5 DEF IInv

(* The mutex keeps the callback and the handlers apart. *)
LEMMA MutexStep == TypeOK /\ MutexInv /\ [Next]_vars => MutexInv'
<1> SUFFICES ASSUME TypeOK, MutexInv, [Next]_vars PROVE MutexInv'
  OBVIOUS
<1> USE ConstantAssumptions DEF Assumptions, TypeOK, MutexInv, sinkVars, httpVars
<1>1. CASE SinkLock
  BY <1>1 DEF SinkLock, Acquire
<1>2. CASE SinkCache
  BY <1>2 DEF SinkCache
<1>3. CASE SinkBroadcast
  BY <1>3 DEF SinkBroadcast, Release
<1>4. ASSUME NEW c \in Clients, HttpLock(c) PROVE MutexInv'
  BY <1>4 DEF HttpLock, Acquire
<1>5. ASSUME NEW c \in Clients, HandlerStep(c) PROVE MutexInv'
  <2>1. CASE HttpCloneHeaders(c)
    BY <2>1 DEF HttpCloneHeaders
  <2>2. CASE HttpSubscribe(c)
    BY <2>2 DEF HttpSubscribe, Release
  <2> QED
    BY <1>5, <2>1, <2>2 DEF HandlerStep
<1>6. ASSUME NEW c \in Clients, SendHeader(c) \/ SendLive(c) PROVE MutexInv'
  BY <1>6 DEF SendHeader, SendLive
<1>7. ASSUME NEW c \in Clients, Lag(c) \/ Disconnect(c) PROVE MutexInv'
  BY <1>7 DEF Lag, Lagged, Disconnect, Hangup
<1>8. CASE UNCHANGED vars
  BY <1>8 DEF vars
<1> QED
  BY <1>1, <1>2, <1>3, <1>4, <1>5, <1>6, <1>7, <1>8
     DEF Next, SinkStep, BodyStep

LEMMA BoundStep == TypeOK /\ BoundInv /\ [Next]_vars => BoundInv'
<1> SUFFICES ASSUME TypeOK, BoundInv, [Next]_vars PROVE BoundInv'
  OBVIOUS
<1> USE DEF BoundInv, sinkVars, httpVars
<1>1. CASE SinkStep
  BY <1>1 DEF SinkStep, SinkLock, SinkCache, SinkBroadcast
<1>2. ASSUME NEW c \in Clients,
             HttpLock(c) \/ HandlerStep(c) \/ BodyStep(c) \/ Disconnect(c)
      PROVE  UNCHANGED <<pages, sink>>
  BY <1>2 DEF HttpLock, HandlerStep, HttpCloneHeaders, HttpSubscribe, BodyStep,
              SendHeader, SendLive, Lag, Disconnect, Hangup
<1>3. CASE UNCHANGED vars
  BY <1>3 DEF vars
<1> QED
  BY <1>1, <1>2, <1>3 DEF Next

(* Caching a page turns the cache of s into the cache of s with the page. *)
LEMMA CacheGrows ==
  ASSUME NEW s \in Seq(PageKinds), NEW hs, NEW was, Caches(hs, was, s),
         NEW k \in PageKinds
  PROVE  Caches(IF k = "header"
                THEN Append(IF was THEN hs ELSE <<>>, Len(s) + 1) ELSE hs,
                k = "header", Append(s, k))
<1> DEFINE t == Append(s, k)
           n == Len(s)
<1>1. n \in Nat /\ Len(t) = n + 1 /\ t # <<>> /\ t[Len(t)] = k
  OBVIOUS
<1>2. CASE k = "audio"
  <2>1. Promise!Opening(t, n + 1) = Promise!Opening(s, n)
    BY <1>2, OpeningAudio
  <2> QED
    BY <1>1, <1>2, <2>1 DEF Caches
<1>3. CASE k = "header"
  <2> DEFINE kept == IF was THEN hs ELSE <<>>
             old  == IF was THEN Promise!Opening(s, n) ELSE {}
  <2>1. Promise!Opening(t, n + 1) = old \cup {n + 1}
    BY <1>3, OpeningHeader DEF Caches
  <2>2. kept \in Seq(Nat) /\ Lists(kept, old)
    BY DEF Caches, Lists
  <2>3. old \subseteq 1..n
    BY DEF Promise!Opening
  <2> HIDE DEF kept, old, n
  <2>4. Append(kept, n + 1) \in Seq(Nat)
    BY <1>1, <2>2
  <2>5. \A i \in 1..Len(kept) : kept[i] \in 1..n
    BY <2>2, <2>3 DEF Lists
  <2>6. Lists(Append(kept, n + 1), old \cup {n + 1})
    <3> DEFINE q == Append(kept, n + 1)
    <3>1. /\ Len(q) = Len(kept) + 1 /\ Len(kept) \in Nat
          /\ \A i \in 1..Len(kept) : q[i] = kept[i]
          /\ q[Len(kept) + 1] = n + 1
      BY <1>1, <2>2
    <3> HIDE DEF q
    <3>2. \A h : h \in old \cup {n + 1} <=> \E i \in 1..Len(q) : q[i] = h
      BY <3>1, <2>2 DEF Lists
    <3>3. \A i, j \in 1..Len(q) : i < j => q[i] < q[j]
      <4> SUFFICES ASSUME NEW i \in 1..Len(q), NEW j \in 1..Len(q), i < j
                   PROVE  q[i] < q[j]
        OBVIOUS
      <4>1. i \in 1..Len(kept) /\ q[i] = kept[i] /\ kept[i] \in 1..n
        BY <3>1, <2>5
      <4>2. CASE j = Len(kept) + 1
        BY <4>1, <4>2, <3>1, <1>1
      <4>3. CASE j \in 1..Len(kept)
        BY <4>1, <4>3, <3>1, <2>2 DEF Lists
      <4> QED
        BY <4>2, <4>3, <3>1
    <3> QED
      BY <3>2, <3>3 DEF Lists, q
  <2> QED
    BY <1>1, <1>3, <2>1, <2>4, <2>6 DEF Caches, kept, n
<1> QED
  BY <1>2, <1>3 DEF PageKinds

(* Only the callback writes the cache, and it does so one page at a time.  *)
LEMMA CacheStep == TypeOK /\ CacheInv /\ [Next]_vars => CacheInv'
<1> SUFFICES ASSUME TypeOK, CacheInv, [Next]_vars PROVE CacheInv'
  OBVIOUS
<1> USE DEF CacheInv, sinkVars, httpVars
<1>1. CASE SinkLock
  BY <1>1 DEF SinkLock
<1>2. CASE SinkCache
  <2>1. Caches(headers, lastWasHeader, pages)
    BY <1>2 DEF SinkCache
  <2>2. Caches(headers', lastWasHeader', Append(pages, kind))
    <3>1. Caches(IF kind = "header"
                 THEN Append(IF lastWasHeader THEN headers ELSE <<>>, Len(pages) + 1)
                 ELSE headers, kind = "header", Append(pages, kind))
      BY <2>1, CacheGrows DEF TypeOK
    <3> QED
      BY <3>1, <1>2 DEF SinkCache, CachedHeaders
  <2> QED
    BY <2>2, <1>2 DEF SinkCache
<1>3. CASE SinkBroadcast
  BY <1>3 DEF SinkBroadcast
<1>4. ASSUME NEW c \in Clients, HttpLock(c) PROVE CacheInv'
  BY <1>4 DEF HttpLock
<1>5. ASSUME NEW c \in Clients, HandlerStep(c) PROVE CacheInv'
  BY <1>5 DEF HandlerStep, HttpCloneHeaders, HttpSubscribe
<1>6. ASSUME NEW c \in Clients, SendHeader(c) \/ SendLive(c) PROVE CacheInv'
  BY <1>6 DEF SendHeader, SendLive
<1>7. ASSUME NEW c \in Clients, Lag(c) \/ Disconnect(c) PROVE CacheInv'
  BY <1>7 DEF Lag, Disconnect, Hangup
<1>8. CASE UNCHANGED vars
  BY <1>8 DEF vars
<1> QED
  BY <1>1, <1>2, <1>3, <1>4, <1>5, <1>6, <1>7, <1>8
     DEF Next, SinkStep, BodyStep

(* A step that leaves the pages, the cache and d alone keeps ClientInv(d). *)
LEMMA ClientFrame ==
  ASSUME NEW d \in Clients, ClientInv(d), UNCHANGED <<pages, headers>>,
         http'[d] = http[d], snap'[d] = snap[d],
         next'[d] = next[d], got'[d] = got[d]
  PROVE  ClientInv(d)'
BY DEF ClientInv, Since, HeadersDone, Expected

(* When a handler subscribes, what it cloned is still the current cache.   *)
LEMMA SubscribeJoins ==
  ASSUME IInv, NEW c \in Clients, HttpSubscribe(c)
  PROVE  /\ Caches(headers, lastWasHeader, pages)
         /\ http'[c] = "streaming" /\ snap'[c] = headers /\ got'[c] = <<>>
         /\ next'[c] = Len(pages) + 1
         /\ Since(c)' = Len(pages)
         /\ \A d \in Clients \ {c} : Since(d)' = Since(d)
<1> USE ConstantAssumptions DEF Assumptions, IInv, TypeOK, HttpSubscribe
<1>1. sink = "idle" /\ Caches(headers, lastWasHeader, pages)
  BY DEF MutexInv, CacheInv
<1>2. http'[c] = "streaming" /\ snap'[c] = headers /\ got'[c] = <<>>
  BY DEF ClientInv
<1>3. next'[c] = Len(pages) + 1
  BY DEF FirstLive
<1>4. Since(c)' = Len(pages)
  BY <1>2, <1>3 DEF Since, HeadersDone
<1>5. \A d \in Clients \ {c} : Since(d)' = Since(d)
  BY DEF Since, HeadersDone
<1> QED
  BY <1>1, <1>2, <1>3, <1>4, <1>5

(* What a step of a body writes, and that it does not move Since.          *)
LEMMA BodySends ==
  ASSUME TypeOK, NEW c \in Clients, ClientInv(c), SendHeader(c) \/ SendLive(c)
  PROVE  /\ http[c] = "streaming"
         /\ \A d \in Clients : Since(d)' = Since(d)
         /\ got' = [got EXCEPT ![c] = Append(@, Expected(c, Len(got[c]) + 1))]
         /\ next'[c] <= Len(pages) + 1
         /\ UNCHANGED <<pages, headers, http, snap>>
<1> USE DEF TypeOK, sinkVars
<1>1. CASE SendHeader(c)
  <2>1. http[c] = "streaming" /\ Len(got[c]) < Len(snap[c])
    BY <1>1 DEF SendHeader, HeadersDone
  <2>2. Len(got'[c]) = Len(got[c]) + 1
    BY <1>1 DEF SendHeader
  <2>3. Since(c)' = Since(c)
    BY <1>1, <2>1, <2>2 DEF SendHeader, Since, HeadersDone
  <2>4. \A d \in Clients \ {c} : Since(d)' = Since(d)
    BY <1>1 DEF SendHeader, Since, HeadersDone
  <2>5. snap[c][Len(got[c]) + 1] = Expected(c, Len(got[c]) + 1)
    BY <2>1 DEF Expected
  <2>6. next'[c] <= Len(pages) + 1
    BY <1>1, <2>1 DEF SendHeader, ClientInv
  <2> QED
    BY <1>1, <2>1, <2>3, <2>4, <2>5, <2>6 DEF SendHeader
<1>2. CASE SendLive(c)
  <2>1. http[c] = "streaming" /\ Len(got[c]) >= Len(snap[c])
    BY <1>2 DEF SendLive, HeadersDone
  <2>2. Len(got'[c]) = Len(got[c]) + 1 /\ next'[c] = next[c] + 1
    BY <1>2 DEF SendLive
  <2>3. Since(c)' = Since(c)
    BY <1>2, <2>1, <2>2 DEF SendLive, Since, HeadersDone
  <2>4. \A d \in Clients \ {c} : Since(d)' = Since(d)
    BY <1>2 DEF SendLive, Since, HeadersDone
  <2>5. next[c] = Expected(c, Len(got[c]) + 1)
    BY <2>1 DEF Expected, Since, HeadersDone
  <2>6. next'[c] <= Len(pages) + 1
    BY <1>2, <2>2, CapacityAssumption DEF SendLive, Unread
  <2> QED
    BY <1>2, <2>1, <2>3, <2>4, <2>5, <2>6 DEF SendLive
<1> QED
  BY <1>1, <1>2

(* One step per action; in each, first the client that acts, if any, then  *)
(* the others.                                                             *)
LEMMA ClientStep ==
  ASSUME IInv, [Next]_vars, NEW d \in Clients
  PROVE  ClientInv(d)'
<1> USE ConstantAssumptions DEF Assumptions, IInv, TypeOK, sinkVars, httpVars
<1>1. CASE SinkLock
  BY <1>1, ClientFrame DEF SinkLock
<1>2. CASE SinkCache
  <2>1. http[d] # "copied"
    BY <1>2 DEF SinkCache, MutexInv
  <2> QED
    BY <1>2, <2>1 DEF SinkCache, ClientInv, Since, HeadersDone, Expected
<1>3. CASE SinkBroadcast
  <2>1. pages' = Append(pages, kind) /\ Len(pages') = Len(pages) + 1
    BY <1>3 DEF SinkBroadcast
  <2>2. UNCHANGED <<headers, http, snap, next, got>> /\ Since(d)' = Since(d)
    BY <1>3 DEF SinkBroadcast, Since, HeadersDone
  <2>3. CASE http[d] = "streaming"
    <3>1. Promise!Opening(pages', Since(d)) = Promise!Opening(pages, Since(d))
      BY <2>1, <2>3, OpeningStable DEF ClientInv
    <3> QED
      BY <2>1, <2>2, <2>3, <3>1 DEF ClientInv, Expected
  <2> QED
    BY <2>2, <2>3 DEF ClientInv
<1>4. ASSUME NEW c \in Clients, HttpLock(c) PROVE ClientInv(d)'
  <2>1. CASE c = d
    BY <1>4, <2>1 DEF HttpLock, ClientInv
  <2> QED
    BY <1>4, <2>1, ClientFrame DEF HttpLock
<1>5. ASSUME NEW c \in Clients, HttpCloneHeaders(c) PROVE ClientInv(d)'
  <2>1. CASE c = d
    BY <1>5, <2>1 DEF HttpCloneHeaders, ClientInv
  <2> QED
    BY <1>5, <2>1, ClientFrame DEF HttpCloneHeaders
<1>6. ASSUME NEW c \in Clients, HttpSubscribe(c) PROVE ClientInv(d)'
  <2>1. CASE c = d
    <3>1. Caches(headers, lastWasHeader, pages) /\ UNCHANGED pages
      BY <1>6, SubscribeJoins DEF HttpSubscribe
    <3>2. /\ http'[d] = "streaming" /\ snap'[d] = headers /\ got'[d] = <<>>
          /\ next'[d] = Len(pages) + 1 /\ Since(d)' = Len(pages)
      BY <1>6, <2>1, SubscribeJoins
    <3>3. Lists(snap'[d], Promise!Opening(pages', Since(d)'))
      BY <3>1, <3>2 DEF Caches
    <3> QED
      BY <3>1, <3>2, <3>3 DEF ClientInv
  <2> QED
    BY <1>6, <2>1, ClientFrame DEF HttpSubscribe
<1>7. ASSUME NEW c \in Clients, SendHeader(c) \/ SendLive(c) PROVE ClientInv(d)'
  <2>1. CASE c = d
    <3> DEFINE x == Expected(d, Len(got[d]) + 1)
    <3>1. /\ http[d] = "streaming" /\ Since(d)' = Since(d)
          /\ got' = [got EXCEPT ![d] = Append(@, x)]
          /\ next'[d] <= Len(pages) + 1
          /\ UNCHANGED <<pages, headers, http, snap>>
      BY <1>7, <2>1, BodySends
    <3>2. \A k : Expected(d, k)' = Expected(d, k)
      BY <3>1 DEF Expected
    <3> HIDE DEF x
    <3>3. /\ Len(got'[d]) = Len(got[d]) + 1
          /\ \A k \in 1..Len(got[d]) : got'[d][k] = got[d][k]
          /\ got'[d][Len(got[d]) + 1] = x
      BY <3>1
    <3>4. \A k \in 1..Len(got'[d]) : got'[d][k] = Expected(d, k)
      BY <3>1, <3>3 DEF ClientInv, x
    <3>5. \A k \in 1..Len(got'[d]) : got'[d][k] = Expected(d, k)'
      BY <3>2, <3>4
    <3>6. /\ Since(d)' \in 0..Len(pages') /\ next'[d] <= Len(pages') + 1
          /\ Lists(snap'[d], Promise!Opening(pages', Since(d)'))
      BY <3>1 DEF ClientInv
    <3>7. http'[d] = "streaming"
      BY <3>1
    <3> QED
      BY <3>5, <3>6, <3>7 DEF ClientInv
  <2> QED
    BY <1>7, <2>1, ClientFrame DEF SendHeader, SendLive
<1>8. ASSUME NEW c \in Clients, Lag(c) \/ Disconnect(c) PROVE ClientInv(d)'
  <2>1. CASE c = d
    BY <1>8, <2>1 DEF Lag, Disconnect, Hangup, ClientInv
  <2> QED
    BY <1>8, <2>1, ClientFrame DEF Lag, Disconnect, Hangup
<1>9. CASE UNCHANGED vars
  BY <1>9, ClientFrame DEF vars
<1> QED
  BY <1>1, <1>2, <1>3, <1>4, <1>5, <1>6, <1>7, <1>8, <1>9
     DEF Next, SinkStep, HandlerStep, BodyStep

THEOREM Invariance == Spec => []IInv
<1>1. IInv /\ [Next]_vars => IInv'
  BY TypeStep, MutexStep, BoundStep, CacheStep, ClientStep DEF IInv
<1> QED
  BY InvInit, <1>1, PTL DEF Spec

-----------------------------------------------------------------------------
(* A request that takes the mutex always finds the current headers. *)
THEOREM CacheAlwaysCurrent == Spec => []CacheIsCurrent
<1>1. IInv => CacheIsCurrent
  <2> SUFFICES ASSUME IInv, lock = Free PROVE CacheIsCurrent
    BY DEF CacheIsCurrent
  <2>1. Caches(headers, lastWasHeader, pages)
    BY FreeAssumption DEF IInv, TypeOK, MutexInv, CacheInv
  <2> QED
    BY <2>1 DEF Caches, Lists, CacheIsCurrent
<1> QED
  BY Invariance, <1>1, PTL

(* What a client that has received something holds: what it cloned, which  *)
(* lists the opening of the stream it joined, then one page after another. *)
LEMMA Received ==
  ASSUME IInv, NEW c \in Clients, got[c] # <<>>
  PROVE  /\ Len(got[c]) \in Nat /\ Len(snap[c]) \in Nat
         /\ Since(c) \in 0..Len(pages)
         /\ Lists(snap[c], Promise!Opening(pages, Since(c)))
         /\ \A i \in 1..Len(snap[c]) :
              snap[c][i] \in 1..Since(c) /\ pages[snap[c][i]] = "header"
         /\ \A i \in 1..Len(got[c]) :
              got[c][i] = IF i <= Len(snap[c]) THEN snap[c][i]
                          ELSE Since(c) + i - Len(snap[c])
<1>1. got[c] \in Seq(Nat) /\ snap[c] \in Seq(Nat)
  BY DEF IInv, TypeOK
<1>2. http[c] = "streaming"
  BY DEF IInv, ClientInv
<1>3. Lists(snap[c], Promise!Opening(pages, Since(c)))
  BY <1>2 DEF IInv, ClientInv
<1>4. \A i \in 1..Len(snap[c]) : snap[c][i] \in Promise!Opening(pages, Since(c))
  BY <1>3 DEF Lists
<1>5. \A i \in 1..Len(got[c]) : got[c][i] = Expected(c, i)
  BY <1>2 DEF IInv, ClientInv
<1>6. Since(c) \in 0..Len(pages)
  BY <1>2 DEF IInv, ClientInv
<1>7. \A i \in 1..Len(snap[c]) :
        snap[c][i] \in 1..Since(c) /\ pages[snap[c][i]] = "header"
  BY <1>4 DEF Promise!Opening
<1>8. \A i \in 1..Len(got[c]) :
        got[c][i] = IF i <= Len(snap[c]) THEN snap[c][i]
                    ELSE Since(c) + i - Len(snap[c])
  BY <1>5 DEF Expected
<1>9. Len(got[c]) \in Nat /\ Len(snap[c]) \in Nat
  BY <1>1
<1> QED
  BY <1>3, <1>6, <1>7, <1>8, <1>9

(* No page twice, none out of order, none skipped after the headers.       *)
THEOREM AlwaysInOrder == Spec => []InOrderOnce
<1>1. IInv => InOrderOnce
  <2> SUFFICES ASSUME IInv, NEW c \in Clients, NEW k \in 1..Len(got[c])-1
               PROVE  /\ got[c][k] < got[c][k+1]
                      /\ k > Len(snap[c]) => got[c][k+1] = got[c][k] + 1
    BY DEF InOrderOnce
  <2> DEFINE n == Len(snap[c])
             m == Len(got[c])
             since == Since(c)
  <2>1. got[c] \in Seq(Nat) /\ got[c] # <<>>
    BY DEF IInv, TypeOK
  <2>2. /\ n \in Nat /\ m \in Nat /\ since \in Nat
        /\ \A i, j \in 1..n : i < j => snap[c][i] < snap[c][j]
        /\ \A i \in 1..n : snap[c][i] \in 1..since
        /\ \A i \in 1..m :
             got[c][i] = IF i <= n THEN snap[c][i] ELSE since + i - n
    <3>1. n \in Nat /\ m \in Nat /\ Since(c) \in 0..Len(pages)
      BY <2>1, Received
    <3>2. Lists(snap[c], Promise!Opening(pages, Since(c)))
      BY <2>1, Received
    <3>3. /\ \A i \in 1..n : snap[c][i] \in 1..since
          /\ \A i \in 1..m :
               got[c][i] = IF i <= n THEN snap[c][i] ELSE since + i - n
      BY <2>1, Received
    <3> QED
      BY <3>1, <3>2, <3>3 DEF Lists
  <2> HIDE DEF since
  <2>3. k \in 1..m /\ k + 1 \in 1..m
    BY <2>2
  <2>4. /\ got[c][k] = IF k <= n THEN snap[c][k] ELSE since + k - n
        /\ got[c][k+1] = IF k + 1 <= n THEN snap[c][k+1] ELSE since + (k + 1) - n
    BY <2>2, <2>3
  <2>5. k \in Nat /\ n \in Nat /\ since \in Nat
    BY <2>2, <2>3
  <2> HIDE DEF n, m
  <2>6. CASE k > n
    <3>1. got[c][k] = since + k - n /\ got[c][k+1] = since + (k + 1) - n
      BY <2>4, <2>5, <2>6
    <3> QED
      BY <2>5, <3>1
  <2>7. CASE k = n
    <3>1. snap[c][k] \in 1..since
      BY <2>2, <2>3, <2>7
    <3>2. got[c][k] = snap[c][k] /\ got[c][k+1] = since + 1
      BY <2>4, <2>5, <2>7
    <3> QED
      BY <2>5, <2>7, <3>1, <3>2 DEF n
  <2>8. CASE k < n
    <3>1. snap[c][k] < snap[c][k+1]
      BY <2>2, <2>3, <2>8
    <3>2. got[c][k] = snap[c][k] /\ got[c][k+1] = snap[c][k+1]
      BY <2>4, <2>5, <2>8
    <3> QED
      BY <2>5, <2>8, <3>1, <3>2 DEF n
  <2> QED
    BY <2>5, <2>6, <2>7, <2>8
<1> QED
  BY Invariance, <1>1, PTL

(* Audio is always preceded by all headers of the stream it belongs to.    *)
THEOREM HeadersAlwaysFirst == Spec => []HeadersBeforeAudio
<1>1. IInv => HeadersBeforeAudio
  <2> SUFFICES ASSUME IInv, NEW c \in Clients, NEW k \in 1..Len(got[c]),
                      pages[got[c][k]] = "audio",
                      NEW h \in Promise!Opening(pages, got[c][k])
               PROVE  \E i \in 1..k-1 : got[c][i] = h
    BY DEF HeadersBeforeAudio
  <2> DEFINE n == Len(snap[c])
             m == Len(got[c])
             since == Since(c)
             opening == Promise!Opening(pages, since)
             page == got[c][k]
  <2>1. got[c] \in Seq(Nat) /\ got[c] # <<>> /\ pages \in Seq(PageKinds)
    BY DEF IInv, TypeOK
  <2>2. /\ n \in Nat /\ m \in Nat /\ since \in Nat
        /\ \A x : x \in opening => \E i \in 1..n : snap[c][i] = x
        /\ \A i \in 1..n : pages[snap[c][i]] = "header"
        /\ \A i \in 1..m :
             got[c][i] = IF i <= n THEN snap[c][i] ELSE since + i - n
    <3>1. n \in Nat /\ m \in Nat /\ Since(c) \in 0..Len(pages)
      BY <2>1, Received
    <3>2. Lists(snap[c], opening)
      BY <2>1, Received
    <3>3. /\ \A i \in 1..n : pages[snap[c][i]] = "header"
          /\ \A i \in 1..m :
               got[c][i] = IF i <= n THEN snap[c][i] ELSE since + i - n
      BY <2>1, Received
    <3> QED
      BY <3>1, <3>2, <3>3 DEF Lists
  <2>3. page \in Nat
    BY <2>1
  <2>4. h \in 1..page /\ pages[h] = "header" /\ h # page
    BY <2>3 DEF Promise!Opening
  <2>5. CASE h <= since
    <3>1. k > n /\ page = since + k - n
      BY <2>2
    <3>2. h \in opening
      BY <2>1, <2>2, <2>3, <2>5, <3>1, OpeningPrefix
    <3> HIDE DEF n, since, opening
    <3>3. PICK i \in 1..n : snap[c][i] = h
      BY <2>2, <3>2
    <3>4. i \in 1..k-1 /\ i \in 1..m /\ i <= n
      BY <2>2, <3>1
    <3> QED
      BY <2>2, <3>3, <3>4
  <2>6. CASE h > since
    <3>1. k > n /\ page = since + k - n
      BY <2>2
    <3> HIDE DEF n, since, opening
    <3> DEFINE i == h - since + n
    <3>2. i \in 1..k-1 /\ i \in 1..m /\ i > n
      BY <2>2, <2>3, <2>4, <2>6, <3>1
    <3>3. got[c][i] = h
      BY <2>2, <2>4, <3>2
    <3> QED
      BY <3>2, <3>3
  <2> QED
    BY <2>2, <2>4, <2>5, <2>6
<1> QED
  BY Invariance, <1>1, PTL

-----------------------------------------------------------------------------
(* The server implements LiveJoin.                                         *)

On == [c \in Clients |-> Streaming(c)]
JoinedAt == [c \in Clients |-> IF Streaming(c) THEN Since(c) ELSE 0]

(* A body receives the next page it is entitled to. *)
LEMMA SendReceives ==
  ASSUME IInv, NEW c \in Clients, SendHeader(c) \/ SendLive(c)
  PROVE  Promise!Receive(c)
<1> DEFINE n == Len(snap[c])
           m == Len(got[c])
           since == Since(c)
           x == Expected(c, m + 1)
           opening == Promise!Opening(pages, since)
<1>1. /\ http[c] = "streaming" /\ \A d \in Clients : Since(d)' = Since(d)
      /\ got' = [got EXCEPT ![c] = Append(@, x)]
      /\ next'[c] <= Len(pages) + 1
      /\ UNCHANGED <<pages, headers, http, snap>>
  BY BodySends DEF IInv
<1>2. UNCHANGED <<pages, On, JoinedAt>>
  BY <1>1 DEF On, JoinedAt, Streaming
<1>3. On[c] /\ JoinedAt[c] = since
  BY <1>1 DEF On, JoinedAt, Streaming
<1>4. /\ n \in Nat /\ m \in Nat /\ since \in 0..Len(pages) /\ Len(pages) \in Nat
      /\ got[c] \in Seq(Nat) /\ snap[c] \in Seq(Nat)
  BY <1>1 DEF IInv, TypeOK, ClientInv
<1>5. /\ \A h : h \in opening <=> \E i \in 1..n : snap[c][i] = h
      /\ \A i, j \in 1..n : i < j => snap[c][i] < snap[c][j]
      /\ \A i \in 1..m : got[c][i] = IF i <= n THEN snap[c][i] ELSE since + i - n
  BY <1>1 DEF IInv, ClientInv, Lists, Expected
<1>6. opening \subseteq 1..since
  BY DEF Promise!Opening
<1>7. Promise!Entitled(c) = opening \cup (since + 1)..Len(pages)
  BY <1>3 DEF Promise!Entitled, On, JoinedAt
<1>8. Promise!LastGot(c) = IF m = 0 THEN 0 ELSE got[c][m]
  BY <1>4 DEF Promise!LastGot
<1>9. x = IF m + 1 <= n THEN snap[c][m + 1] ELSE since + (m + 1) - n
  BY DEF Expected
<1> HIDE DEF n, m, since, x, opening
<1>10. /\ x \in Promise!Entitled(c) /\ x > Promise!LastGot(c)
      /\ \A y \in Promise!Entitled(c) : y > Promise!LastGot(c) => x <= y
  <2>1. CASE m < n
    <3>1. x = snap[c][m + 1] /\ m + 1 \in 1..n
      BY <1>4, <1>9, <2>1
    <3>2. x \in opening /\ x \in 1..since
      BY <1>5, <1>6, <3>1
    <3>3. Promise!LastGot(c) = IF m = 0 THEN 0 ELSE snap[c][m]
      BY <1>4, <1>5, <1>8, <2>1
    <3>4. x > Promise!LastGot(c)
      BY <1>4, <1>5, <2>1, <3>1, <3>2, <3>3
    <3>5. ASSUME NEW y \in opening, y > Promise!LastGot(c) PROVE x <= y
      <4>1. PICK i \in 1..n : snap[c][i] = y
        BY <1>5
      <4>2. y \in 1..since
        BY <1>6
      <4>3. i >= m + 1
        <5>1. ASSUME i <= m PROVE FALSE
          <6>1. m \in 1..n /\ Promise!LastGot(c) = snap[c][m]
            BY <1>4, <2>1, <3>3, <5>1
          <6>2. snap[c][m] \in 1..since
            BY <1>5, <1>6, <6>1
          <6>3. i = m \/ snap[c][i] < snap[c][m]
            BY <1>4, <1>5, <5>1, <6>1
          <6> QED
            BY <1>4, <3>5, <4>1, <4>2, <6>1, <6>2, <6>3
        <5> QED
          BY <1>4, <5>1
      <4>4. CASE i = m + 1
        BY <1>4, <3>1, <3>2, <4>1, <4>4
      <4>5. CASE i > m + 1
        <5>1. snap[c][m + 1] < snap[c][i]
          BY <1>4, <1>5, <3>1, <4>5
        <5> QED
          BY <3>1, <3>2, <4>1, <4>2, <5>1
      <4> QED
        BY <1>4, <4>3, <4>4, <4>5
    <3>6. \A y \in (since + 1)..Len(pages) : x <= y
      BY <1>4, <3>2
    <3> QED
      BY <1>7, <3>2, <3>4, <3>5, <3>6
  <2>2. CASE m >= n
    <3>1. x = since + (m + 1) - n
      BY <1>4, <1>9, <2>2
    <3>2. x = next[c] /\ x <= Len(pages)
      <4>1. SendLive(c)
        BY <2>2, <1>4 DEF SendHeader, HeadersDone, n, m
      <4>2. next[c] = x /\ next[c] \in Nat
        BY <3>1, <2>2, <1>4 DEF Since, HeadersDone, IInv, TypeOK, n, m, since
      <4> QED
        BY <4>1, <4>2, <1>4, CapacityAssumption DEF SendLive, Unread
    <3>3. x >= since + 1 /\ x \in Nat
      BY <1>4, <2>2, <3>1
    <3>4. Promise!LastGot(c) = IF m = 0 THEN 0 ELSE
                               IF m = n THEN snap[c][n] ELSE since + m - n
      <4>1. CASE m = 0
        BY <1>8, <4>1
      <4>2. CASE m # 0
        <5>1. m \in 1..m
          BY <1>4, <4>2
        <5>2. got[c][m] = IF m <= n THEN snap[c][m] ELSE since + m - n
          BY <1>5, <5>1
        <5>3. m <= n <=> m = n
          BY <1>4, <2>2
        <5> QED
          BY <1>8, <4>2, <5>2, <5>3
      <4> QED
        BY <4>1, <4>2
    <3>5. m = n /\ m # 0 => snap[c][n] \in 1..since
      <4> SUFFICES ASSUME n # 0 PROVE snap[c][n] \in 1..since
        OBVIOUS
      <4>1. n \in 1..n
        BY <1>4
      <4>2. snap[c][n] \in opening
        BY <1>5, <4>1
      <4> QED
        BY <1>6, <4>2
    <3>6. x > Promise!LastGot(c)
      <4>1. CASE m = 0
        BY <3>3, <3>4, <4>1, <1>4
      <4>2. CASE m # 0 /\ m = n
        BY <3>3, <3>4, <3>5, <4>2, <1>4
      <4>3. CASE m # 0 /\ m # n
        BY <3>1, <3>4, <4>3, <1>4
      <4> QED
        BY <4>1, <4>2, <4>3
    <3>7. ASSUME NEW y \in opening PROVE ~(y > Promise!LastGot(c))
      <4>1. PICK i \in 1..n : snap[c][i] = y
        BY <1>5
      <4>2. y \in 1..since /\ m # 0
        BY <1>4, <1>6, <2>2
      <4>3. CASE m = n
        <5>1. i = n \/ snap[c][i] < snap[c][n]
          BY <1>4, <1>5, <4>2, <4>3
        <5> QED
          BY <1>4, <3>4, <3>5, <4>1, <4>2, <4>3, <5>1
      <4>4. CASE m > n
        BY <1>4, <3>4, <4>2, <4>4
      <4> QED
        BY <1>4, <2>2, <4>3, <4>4
    <3>8. ASSUME NEW y \in (since + 1)..Len(pages), y > Promise!LastGot(c)
          PROVE  x <= y
      BY <1>4, <2>2, <3>1, <3>4, <3>5, <3>8
    <3> QED
      BY <1>4, <1>7, <3>2, <3>3, <3>6, <3>7, <3>8
  <2> QED
    BY <1>4, <2>1, <2>2
<1> QED
  BY <1>1, <1>2, <1>3, <1>10 DEF Promise!Receive, On, JoinedAt

LEMMA StepImplements ==
  ASSUME IInv, [Next]_vars PROVE [Promise!Next]_(Promise!vars)
<1> USE ConstantAssumptions DEF Assumptions, sinkVars, httpVars
<1>0. ASSUME UNCHANGED <<pages, got, On, JoinedAt>>
      PROVE  UNCHANGED Promise!vars
  BY <1>0 DEF Promise!vars, On, JoinedAt
<1>1. CASE SinkLock \/ SinkCache
  <2>1. UNCHANGED <<pages, http, snap, next, got>>
    BY <1>1 DEF SinkLock, SinkCache
  <2> QED
    BY <1>0, <2>1 DEF On, JoinedAt, Streaming, Since, HeadersDone
<1>2. CASE SinkBroadcast
  <2>1. pages' = Append(pages, kind) /\ UNCHANGED <<http, snap, next, got>>
    BY <1>2 DEF SinkBroadcast
  <2>2. UNCHANGED <<On, JoinedAt>>
    BY <2>1 DEF On, JoinedAt, Streaming, Since, HeadersDone
  <2>3. kind \in PageKinds /\ Len(pages) < MaxPages
    BY <1>2 DEF SinkBroadcast, IInv, TypeOK, BoundInv
  <2>4. Promise!Publish(kind)
    BY <2>1, <2>2, <2>3 DEF Promise!Publish, On, JoinedAt
  <2> QED
    BY <2>3, <2>4 DEF Promise!Next, Promise!PageKinds, PageKinds
<1>3. ASSUME NEW c \in Clients, HttpLock(c) \/ HttpCloneHeaders(c)
      PROVE  UNCHANGED Promise!vars
  <2>1. UNCHANGED <<pages, next, got>>
    BY <1>3 DEF HttpLock, HttpCloneHeaders
  <2>2. http[c] # "streaming" /\ http'[c] # "streaming"
    BY <1>3 DEF HttpLock, HttpCloneHeaders, IInv, TypeOK
  <2>3. \A d \in Clients \ {c} : http'[d] = http[d] /\ snap'[d] = snap[d]
    BY <1>3 DEF HttpLock, HttpCloneHeaders, IInv, TypeOK
  <2>4. UNCHANGED <<On, JoinedAt>>
    BY <2>1, <2>2, <2>3 DEF On, JoinedAt, Streaming, Since, HeadersDone
  <2> QED
    BY <1>0, <2>1, <2>4
<1>4. ASSUME NEW c \in Clients, HttpSubscribe(c) PROVE Promise!Join(c)
  <2>1. http[c] = "copied" /\ UNCHANGED <<pages, got>>
    BY <1>4, SubscribeJoins DEF HttpSubscribe, IInv, TypeOK, ClientInv
  <2>2. http' = [http EXCEPT ![c] = "streaming"] /\ Since(c)' = Len(pages)
    BY <1>4, SubscribeJoins DEF HttpSubscribe
  <2>3. \A d \in Clients \ {c} : Since(d)' = Since(d)
    BY <1>4, SubscribeJoins
  <2>4. ~On[c] /\ On' = [On EXCEPT ![c] = TRUE]
    BY <2>1, <2>2 DEF On, Streaming, IInv, TypeOK
  <2>5. JoinedAt' = [JoinedAt EXCEPT ![c] = Len(pages)]
    BY <2>1, <2>2, <2>3 DEF JoinedAt, Streaming, IInv, TypeOK
  <2> QED
    BY <2>1, <2>4, <2>5 DEF Promise!Join, On, JoinedAt
<1>5. ASSUME NEW c \in Clients, SendHeader(c) \/ SendLive(c)
      PROVE  Promise!Receive(c)
  BY <1>5, SendReceives
<1>6. ASSUME NEW c \in Clients, Lag(c) \/ Disconnect(c) PROVE Promise!Leave(c)
  <2>1. http[c] = "streaming" /\ Hangup(c)
    BY <1>6 DEF Lag, Lagged, Disconnect
  <2>2. got' = [got EXCEPT ![c] = <<>>] /\ UNCHANGED pages
    BY <2>1 DEF Hangup
  <2>3. On[c] /\ On' = [On EXCEPT ![c] = FALSE]
    BY <2>1 DEF Hangup, On, Streaming, IInv, TypeOK
  <2>4. \A d \in Clients \ {c} : http'[d] = http[d] /\ Since(d)' = Since(d)
    BY <2>1 DEF Hangup, Since, HeadersDone, IInv, TypeOK
  <2>5. http'[c] = "away"
    BY <2>1 DEF Hangup, IInv, TypeOK
  <2>6. JoinedAt' = [JoinedAt EXCEPT ![c] = 0]
    BY <2>4, <2>5 DEF JoinedAt, Streaming
  <2> QED
    BY <2>2, <2>3, <2>6 DEF Promise!Leave, On, JoinedAt
<1>7. CASE UNCHANGED vars
  BY <1>0, <1>7 DEF vars, On, JoinedAt, Streaming, Since, HeadersDone
<1> QED
  BY <1>1, <1>2, <1>3, <1>4, <1>5, <1>6, <1>7
     DEF Next, SinkStep, HandlerStep, BodyStep, Promise!Next

(* Taking the mutex, cloning and subscribing amount to one atomic join.    *)
THEOREM ImplementsPromise == Spec => KeepsPromise
<1>1. Init => Promise!Init
  BY DEF Init, Promise!Init, Streaming
<1>2. IInv /\ [Next]_vars => [Promise!Next]_(Promise!vars)
  BY StepImplements
<1> QED
  BY Invariance, <1>1, <1>2, PTL DEF Spec, KeepsPromise, Promise!Spec
=============================================================================
