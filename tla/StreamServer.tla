---------------------------- MODULE StreamServer ----------------------------
(***************************************************************************)
(* The output side of a listener node: the appsink callback that GStreamer *)
(* runs on its own thread for every Ogg page (ogg_dec.rs), and the HTTP    *)
(* handler that streams those pages to clients (stream_handler in          *)
(* rpc/mod.rs).  They share the mutex around the cached header pages and   *)
(* the broadcast channel dec_tx.                                           *)
(*                                                                         *)
(* A page is named by its position in the muxer's output, so the cache and *)
(* what a client receives are sequences of page numbers; pages[n] is the   *)
(* kind of page n.  Each step between taking and dropping the mutex is an  *)
(* action of its own: only the mutex keeps the two threads apart.          *)
(***************************************************************************)
EXTENDS Naturals, Sequences

CONSTANTS
  Clients,    \* the HTTP connections that may exist
  Sink,       \* the muxer's streaming thread, as an owner of the mutex
  Free,       \* nobody owns the mutex
  Capacity,   \* pages the broadcast channel keeps for a slow receiver
  MaxPages    \* bound: how many pages the muxer produces

ASSUME SinkAssumption == Sink \notin Clients
ASSUME FreeAssumption == Free \notin Clients \cup {Sink}
ASSUME CapacityAssumption == Capacity \in Nat \ {0}
ASSUME MaxPagesAssumption == MaxPages \in Nat

VARIABLES
  pages,          \* kinds of the pages sent to the broadcast channel
  lock,           \* who holds the mutex around the cached headers
  headers,        \* the cached header pages (OggHeaders)
  lastWasHeader,  \* last_was_header, owned by the callback
  sink,           \* where the callback is
  kind,           \* kind of the page the callback is handling
  http,           \* http[c]: where the handler or the body of c is
  snap,           \* snap[c]: the headers c's handler cloned
  next,           \* next[c]: the page c's broadcast receiver reads next
  got             \* got[c]: the pages written to c's body, oldest first

sinkVars == <<pages, headers, lastWasHeader, sink, kind>>
httpVars == <<http, snap, next, got>>
vars == <<pages, lock, headers, lastWasHeader, sink, kind, http, snap, next, got>>

PageKinds == {"header", "audio"}

TypeOK ==
  /\ pages \in Seq(PageKinds)
  /\ lock \in Clients \cup {Sink, Free}
  /\ headers \in Seq(Nat)
  /\ lastWasHeader \in BOOLEAN
  /\ sink \in {"idle", "locked", "cached"}
  /\ kind \in PageKinds
  /\ http \in [Clients -> {"away", "locked", "copied", "streaming"}]
  /\ snap \in [Clients -> Seq(Nat)]
  /\ next \in [Clients -> Nat]
  /\ got \in [Clients -> Seq(Nat)]

Init ==
  /\ pages = <<>>
  /\ lock = Free
  /\ headers = <<>>
  /\ lastWasHeader = FALSE
  /\ sink = "idle"
  /\ kind = "header"
  /\ http = [c \in Clients |-> "away"]
  /\ snap = [c \in Clients |-> <<>>]
  /\ next = [c \in Clients |-> 1]
  /\ got = [c \in Clients |-> <<>>]

-----------------------------------------------------------------------------
(* The appsink callback (new_sample). *)

AcquireIgnoringOwner(owner) == lock' = owner   \* mutant: no mutex

Acquire(owner) == lock = Free /\ lock' = owner

ReleaseNever == UNCHANGED lock                 \* mutant: the guard is leaked

Release == lock' = Free

(* What oggmux hands to the sink: a stream opens with header pages. *)
MuxerPages == IF pages = <<>> THEN {"header"} ELSE PageKinds

(* A sample has been pulled and the mutex is taken. *)
SinkLock ==
  /\ sink = "idle"
  /\ Len(pages) < MaxPages
  /\ Acquire(Sink)
  /\ kind' \in MuxerPages
  /\ sink' = "locked"
  /\ UNCHANGED <<pages, headers, lastWasHeader, httpVars>>

CachedHeadersNoClear ==                        \* mutant: cache never cleared
  IF kind = "header" THEN Append(headers, Len(pages) + 1) ELSE headers

(* A header page that follows an audio page opens a new stream. *)
CachedHeaders ==
  IF kind = "header"
  THEN Append(IF lastWasHeader THEN headers ELSE <<>>, Len(pages) + 1)
  ELSE headers

SinkCache ==
  /\ sink = "locked"
  /\ headers' = CachedHeaders
  /\ lastWasHeader' = (kind = "header")
  /\ sink' = "cached"
  /\ UNCHANGED <<pages, lock, kind, httpVars>>

(* dec_tx.send, then the guard is dropped as the callback returns.  With   *)
(* no receiver the send fails and the page is only logged: nobody holds a  *)
(* position, so counting it in pages is not observable.                    *)
SinkBroadcast ==
  /\ sink = "cached"
  /\ pages' = Append(pages, kind)
  /\ Release
  /\ sink' = "idle"
  /\ UNCHANGED <<headers, lastWasHeader, kind, httpVars>>

-----------------------------------------------------------------------------
(* The HTTP handler and the response body it returns (stream_handler; the  *)
(* library's response_stream repeats it line by line for hyper).           *)

HttpLock(c) ==
  /\ http[c] = "away"
  /\ Acquire(c)
  /\ http' = [http EXCEPT ![c] = "locked"]
  /\ UNCHANGED <<sinkVars, snap, next, got>>

HttpCloneHeaders(c) ==
  /\ http[c] = "locked"
  /\ snap' = [snap EXCEPT ![c] = headers]
  /\ http' = [http EXCEPT ![c] = "copied"]
  /\ UNCHANGED <<sinkVars, lock, next, got>>

FirstLiveRewinds == Len(pages) + 1 - Capacity  \* mutant: replays the channel's buffer

FirstLiveMissesOne == Len(pages) + 2           \* mutant: off by one

(* Where the channel starts a new receiver: after everything sent so far. *)
FirstLive == Len(pages) + 1

(* dec_tx.subscribe, then the guard is dropped and the response begins. *)
HttpSubscribe(c) ==
  /\ http[c] = "copied"
  /\ next' = [next EXCEPT ![c] = FirstLive]
  /\ Release
  /\ http' = [http EXCEPT ![c] = "streaming"]
  /\ UNCHANGED <<sinkVars, snap, got>>

Unread(c) == Len(pages) + 1 - next[c]

HeadersDone(c) == Len(got[c]) >= Len(snap[c])

(* The body is initial.chain(live): first the cloned headers ... *)
SendHeader(c) ==
  /\ http[c] = "streaming"
  /\ ~HeadersDone(c)
  /\ got' = [got EXCEPT ![c] = Append(@, snap[c][Len(@) + 1])]
  /\ UNCHANGED <<sinkVars, lock, http, snap, next>>

(* ... then what the broadcast receiver yields. *)
SendLive(c) ==
  /\ http[c] = "streaming"
  /\ HeadersDone(c)
  /\ Unread(c) \in 1..Capacity
  /\ got' = [got EXCEPT ![c] = Append(@, next[c])]
  /\ next' = [next EXCEPT ![c] = @ + 1]
  /\ UNCHANGED <<sinkVars, lock, http, snap>>

Hangup(c) ==
  /\ http' = [http EXCEPT ![c] = "away"]
  /\ snap' = [snap EXCEPT ![c] = <<>>]
  /\ next' = [next EXCEPT ![c] = 1]
  /\ got' = [got EXCEPT ![c] = <<>>]
  /\ UNCHANGED <<sinkVars, lock>>

Lagged(c) == http[c] = "streaming" /\ HeadersDone(c) /\ Unread(c) > Capacity

LagSkips(c) ==                                 \* mutant: resume at the oldest page kept
  /\ Lagged(c)
  /\ next' = [next EXCEPT ![c] = Len(pages) + 1 - Capacity]
  /\ UNCHANGED <<sinkVars, lock, http, snap, got>>

LagHangs(c) == Lagged(c) /\ UNCHANGED vars     \* mutant: the error is swallowed

(* A receiver that fell behind yields an error, which ends the body. *)
Lag(c) == Lagged(c) /\ Hangup(c)

(* The client closes the connection. *)
Disconnect(c) == http[c] = "streaming" /\ Hangup(c)

-----------------------------------------------------------------------------
SinkStep == SinkLock \/ SinkCache \/ SinkBroadcast

HandlerStep(c) == HttpCloneHeaders(c) \/ HttpSubscribe(c)

BodyStep(c) == SendHeader(c) \/ SendLive(c) \/ Lag(c)

Next ==
  \/ SinkStep
  \/ \E c \in Clients :
       HttpLock(c) \/ HandlerStep(c) \/ BodyStep(c) \/ Disconnect(c)

Spec == Init /\ [][Next]_vars

(* Once a thread holds the mutex the operating system keeps running it,    *)
(* and hyper polls the body of a client that keeps reading.  Nothing makes *)
(* the muxer produce pages, a client connect, or the mutex hand over       *)
(* fairly.                                                                 *)
Fairness ==
  /\ WF_vars(SinkCache) /\ WF_vars(SinkBroadcast)
  /\ \A c \in Clients : WF_vars(HandlerStep(c)) /\ WF_vars(BodyStep(c))

FairSpec == Spec /\ Fairness

-----------------------------------------------------------------------------
(* Properties. *)

(* How many pages had been published when c subscribed. *)
Since(c) ==
  (next[c] - 1) - (IF HeadersDone(c) THEN Len(got[c]) - Len(snap[c]) ELSE 0)

Streaming(c) == http[c] = "streaming"

Promise == INSTANCE LiveJoin WITH
  on    <- [c \in Clients |-> Streaming(c)],
  since <- [c \in Clients |-> IF Streaming(c) THEN Since(c) ELSE 0]

(* The code's own claim (ogg_dec.rs, rpc/mod.rs): whenever the mutex is    *)
(* free, a handler that takes it finds exactly the header pages of the     *)
(* current stream in the cache, in order, and none of an earlier stream.   *)
CacheIsCurrent ==
  lock = Free =>
    /\ \A h \in 1..Len(pages) :
         h \in Promise!Opening(pages, Len(pages))
           <=> \E i \in 1..Len(headers) : headers[i] = h
    /\ \A i, j \in 1..Len(headers) : i < j => headers[i] < headers[j]

(* A client receives no page twice, none out of order, and, once it has    *)
(* its headers, skips none: a client that lags is cut off instead.         *)
InOrderOnce ==
  \A c \in Clients : \A k \in 1..Len(got[c])-1 :
    /\ got[c][k] < got[c][k+1]
    /\ k > Len(snap[c]) => got[c][k+1] = got[c][k] + 1

(* No client receives an audio page before all header pages of the stream  *)
(* that page belongs to, however its request interleaves with the muxer.   *)
HeadersBeforeAudio ==
  \A c \in Clients : \A k \in 1..Len(got[c]) :
    got[c][k] <= Len(pages) /\ pages[got[c][k]] = "audio" =>
      \A h \in Promise!Opening(pages, got[c][k]) :
        \E i \in 1..k-1 : got[c][i] = h

(* The server implements the abstract promise: taking the mutex, cloning   *)
(* and subscribing amount to one atomic join.                              *)
KeepsPromise == Promise!Spec

(* A client that keeps reading gets every page published while it is       *)
(* connected, or is cut off; it is never left waiting for a page.          *)
CatchesUp ==
  \A c \in Clients : \A n \in 1..MaxPages :
    (Streaming(c) /\ Since(c) < n /\ n <= Len(pages))
      ~> (~Streaming(c) \/ n < next[c])

(* Whoever takes the mutex gives it back: neither the muxer nor a handler  *)
(* can shut the other out for good.                                        *)
MutexReleased == \A o \in Clients \cup {Sink} : lock = o ~> lock # o
=============================================================================
