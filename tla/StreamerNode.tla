---------------------------- MODULE StreamerNode ----------------------------
(***************************************************************************)
(* A streamer node from the GStreamer source to the swarm, how it starts   *)
(* and how it ends.  The appsink callback runs on GStreamer's streaming    *)
(* thread and blocks in a bounded flume channel (backend/icecast_ogg.rs);  *)
(* main_loop reads the bus and puts titles into a watch channel; msg_loop  *)
(* merges both into the bounded gossip channel (backend/mod.rs); the swarm *)
(* publishes what it takes from there (p2p/swarm.rs).  Every task but      *)
(* msg_loop watches the cancellation token; the end of the first one is    *)
(* handed up to main (node.rs, main.rs).                                   *)
(*                                                                         *)
(* Packets and titles are numbered in the order GStreamer makes them.      *)
(***************************************************************************)
EXTENDS Naturals, Sequences

CONSTANTS
  SinkCap,     \* capacity of the flume channel from the callback
  GossipCap,   \* capacity of the channel to the swarm
  MaxPackets,  \* bound: how many packets the source makes
  MaxTitles    \* bound: how many title tags it posts

ASSUME CapAssumption == SinkCap \in Nat \ {0} /\ GossipCap \in Nat \ {0}
ASSUME BoundAssumption == MaxPackets \in Nat /\ MaxTitles \in Nat

VARIABLES
  pipeline,   \* state of the encoding pipeline
  made,       \* packets the callback was called with so far
  callback,   \* the packet the callback is blocked on sending, 0 outside it
  sink,       \* flume channel: callback to msg_loop
  tagAt,      \* the title tags posted: made at the time of each
  bus,        \* the pipeline's bus: a title, or 0 for Eos and Error
  ended,      \* the source posted Eos or Error
  cell,       \* the watch channel's value, 0 before the first title
  seen,       \* the value msg_loop last borrowed
  held,       \* what msg_loop is sending to the swarm: <<>> in select!
  gossip,     \* channel: msg_loop to swarm
  taken,      \* what the swarm took to publish, oldest first
  step,       \* what StreamerNode::new makes next; "run" once it is done
  mainLoop,   \* where main_loop is
  result,     \* result[t]: "run", or what task t returned
  fault,      \* a step of making the node, the pipeline or a server failed
  cancel      \* the cancellation token

source == <<made, callback, sink, tagAt, ended>>
relay == <<seen, held, gossip, taken>>
life == <<step, result, fault, cancel>>
data == <<source, bus, cell, relay>>
vars == <<data, pipeline, mainLoop, life>>

Tasks == {"msgLoop", "backend", "swarm", "server", "node", "main"}
Packets == 1..MaxPackets
Titles == 1..MaxTitles
Messages == ({"audio"} \X Packets) \cup ({"title"} \X Titles)
Steps == {"swarm", "http", "info", "pipeline", "run"}

TypeOK ==
  /\ pipeline \in {"none", "null", "playing"}
  /\ made \in 0..MaxPackets /\ callback \in Packets \cup {0}
  /\ sink \in Seq(Packets) /\ Len(sink) <= SinkCap
  /\ tagAt \in Seq(0..made) /\ bus \in Seq(Titles \cup {0})
  /\ cell \in 0..Len(tagAt) /\ seen \in 0..cell
  /\ held \in Messages \cup {<<>>}
  /\ gossip \in Seq(Messages) /\ Len(gossip) <= GossipCap
  /\ taken \in Seq(Messages)
  /\ step \in Steps
  /\ mainLoop \in {"start", "loop", "stopping", "done"}
  /\ result \in [Tasks -> {"run", "none", "err"}]
  /\ ended \in BOOLEAN /\ fault \in BOOLEAN /\ cancel \in BOOLEAN

Init ==
  /\ pipeline = "none"
  /\ made = 0 /\ callback = 0 /\ sink = <<>>
  /\ tagAt = <<>> /\ bus = <<>> /\ cell = 0 /\ seen = 0
  /\ held = <<>> /\ gossip = <<>> /\ taken = <<>>
  /\ step = "swarm" /\ mainLoop = "start"
  /\ result = [t \in Tasks |-> "run"]
  /\ ended = FALSE /\ fault = FALSE /\ cancel = FALSE

(* When main returns the runtime drops every task at its await, but it     *)
(* waits for the worker thread that is inside set_state(Null).             *)
Up == result["main"] = "run"
Running == Up /\ step = "run"
Runs(t) == Running /\ result[t] = "run"
Exited == ~Up /\ mainLoop # "stopping"

Ends(t, r) == result' = [result EXCEPT ![t] = r]

SignalLost == FALSE                      \* mutant: main cancels another token

(* What a task sees of the token. *)
Signalled == cancel

-----------------------------------------------------------------------------
(* StreamerNode::new: the swarm, the HTTP socket, the RPC server, the      *)
(* pipeline.  It does not look at the token.                               *)

AfterStep ==
  [swarm |-> "http", http |-> "info", info |-> "pipeline", pipeline |-> "run"]

MakeNext ==
  /\ Up /\ step # "run" /\ result["node"] = "run"
  /\ step' = AfterStep[step]
  /\ pipeline' = IF step = "pipeline" THEN "null" ELSE pipeline
  /\ UNCHANGED <<data, mainLoop, result, fault, cancel>>

(* An address in use, an empty url, a missing element: the error is the    *)
(* node's.                                                                 *)
MakeFails ==
  /\ Up /\ step # "run" /\ result["node"] = "run"
  /\ fault' = TRUE /\ Ends("node", "err")
  /\ UNCHANGED <<data, pipeline, mainLoop, step, cancel>>

-----------------------------------------------------------------------------
(* GStreamer: the streaming thread and the bus.                            *)

Playing == pipeline = "playing" /\ ~Exited

CallbackCalled ==
  /\ Playing /\ callback = 0 /\ ~ended /\ made < MaxPackets
  /\ made' = made + 1 /\ callback' = made + 1
  /\ UNCHANGED <<pipeline, sink, tagAt, bus, ended, cell, relay, mainLoop, life>>

TrySend ==                               \* mutant: try_send instead of send
  sink' = IF Len(sink) < SinkCap THEN Append(sink, callback) ELSE sink

SendUnbounded == sink' = Append(sink, callback)     \* mutant: flume::unbounded

(* flume's send blocks while the channel is full.  It would fail only      *)
(* without receivers, but the Stream owned by main_loop holds one as long  *)
(* as the pipeline plays.                                                  *)
BlockingSend == Len(sink) < SinkCap /\ sink' = Append(sink, callback)

CallbackSends ==
  /\ Playing /\ callback # 0
  /\ BlockingSend
  /\ callback' = 0
  /\ UNCHANGED <<pipeline, made, tagAt, bus, ended, cell, relay, mainLoop, life>>

TagPosted ==
  /\ Playing /\ ~ended /\ Len(tagAt) < MaxTitles
  /\ tagAt' = Append(tagAt, made) /\ bus' = Append(bus, Len(tagAt) + 1)
  /\ UNCHANGED <<pipeline, made, callback, sink, ended, cell, relay, mainLoop, life>>

(* The source ends or fails; the streaming thread may still be blocked. *)
EndPosted ==
  /\ Playing /\ ~ended
  /\ ended' = TRUE /\ bus' = Append(bus, 0)
  /\ UNCHANGED <<pipeline, made, callback, sink, tagAt, cell, relay, mainLoop, life>>

-----------------------------------------------------------------------------
(* main_loop.                                                              *)

(* set_state(Playing); on an error the task ends at once. *)
MainLoopStarts ==
  /\ Running /\ mainLoop = "start"
  /\ \/ mainLoop' = "loop" /\ pipeline' = "playing" /\ UNCHANGED fault
     \/ mainLoop' = "done" /\ fault' = TRUE /\ UNCHANGED pipeline
  /\ UNCHANGED <<data, step, result, cancel>>

EndsLoopNever(msg) == FALSE              \* mutant: Eos and Error are ignored

EndsLoop(msg) == msg = 0

TitleKept(msg) == IF cell = 0 THEN msg ELSE cell    \* mutant: first title only

NewCell(msg) == msg

MainLoopBus ==
  /\ Up /\ mainLoop = "loop" /\ bus # <<>>
  /\ bus' = Tail(bus)
  /\ LET msg == Head(bus) IN
       \/ msg # 0 /\ cell' = NewCell(msg) /\ UNCHANGED mainLoop
       \/ /\ msg = 0 /\ UNCHANGED cell
          /\ mainLoop' = IF EndsLoop(msg) THEN "stopping" ELSE "loop"
  /\ UNCHANGED <<pipeline, source, relay, life>>

MainLoopCancelled ==
  /\ Up /\ mainLoop = "loop" /\ Signalled
  /\ mainLoop' = "stopping"
  /\ UNCHANGED <<pipeline, data, life>>

(* set_state(Null) returns once the streaming thread has left the          *)
(* callback; it blocks a worker thread until then.                         *)
MainLoopNull ==
  /\ mainLoop = "stopping" /\ callback = 0
  /\ mainLoop' = "done" /\ pipeline' = "null" /\ bus' = <<>>
  /\ UNCHANGED <<source, cell, relay, life>>

-----------------------------------------------------------------------------
(* msg_loop.                                                               *)

MsgLoopAudio ==
  /\ Runs("msgLoop") /\ held = <<>> /\ sink # <<>>
  /\ held' = <<"audio", Head(sink)>> /\ sink' = Tail(sink)
  /\ UNCHANGED <<pipeline, made, callback, tagAt, ended, bus, cell, seen, gossip,
                 taken, mainLoop, life>>

BorrowOnly == seen' = seen               \* mutant: borrow without update

BorrowAndUpdate == seen' = cell

MsgLoopTitle ==
  /\ Runs("msgLoop") /\ held = <<>> /\ cell # seen
  /\ held' = <<"title", cell>> /\ BorrowAndUpdate
  /\ UNCHANGED <<pipeline, source, bus, cell, gossip, taken, mainLoop, life>>

(* With the swarm gone the send fails and the loop returns the error.      *)
MsgLoopSend ==
  /\ Runs("msgLoop") /\ held # <<>>
  /\ \/ /\ result["swarm"] = "run" /\ Len(gossip) < GossipCap
        /\ gossip' = Append(gossip, held) /\ held' = <<>> /\ UNCHANGED result
     \/ /\ result["swarm"] # "run"
        /\ Ends("msgLoop", "err") /\ UNCHANGED <<gossip, held>>
  /\ UNCHANGED <<pipeline, source, bus, cell, seen, taken, mainLoop, step, fault,
                 cancel>>

(* What a task does that only ends. *)
JustEnds(t, r) ==
  Runs(t) /\ Ends(t, r) /\ UNCHANGED <<pipeline, data, mainLoop, step>>

(* Both senders are gone with main_loop, and nothing is left to read.      *)
MsgLoopElse ==
  /\ held = <<>> /\ mainLoop = "done" /\ sink = <<>> /\ cell = seen
  /\ JustEnds("msgLoop", "none") /\ UNCHANGED <<fault, cancel>>

-----------------------------------------------------------------------------
(* The swarm.                                                              *)

(* What it takes is published, or dropped when publish fails (no peers).   *)
SwarmPublish ==
  /\ Runs("swarm") /\ gossip # <<>>
  /\ taken' = Append(taken, Head(gossip)) /\ gossip' = Tail(gossip)
  /\ UNCHANGED <<pipeline, source, bus, cell, seen, held, mainLoop, life>>

SwarmCancelled ==
  /\ Runs("swarm") /\ Signalled
  /\ Ends("swarm", "none") /\ gossip' = <<>>
  /\ UNCHANGED <<pipeline, source, bus, cell, seen, held, taken, mainLoop, step,
                 fault, cancel>>

-----------------------------------------------------------------------------
(* The servers, and the tasks that wait for other tasks.                   *)

HandledAsCancelled(t) == "none"          \* mutant: an error taken for a cancellation

(* handle_to_main_handle, handle_loop_cannot_fail_handle *)
Handled(t) == result[t]

(* select! over the handles of the tasks in ts. *)
FirstOf(t, ts) ==
  \E u \in ts : result[u] # "run" /\ JustEnds(t, Handled(u)) /\ UNCHANGED <<fault, cancel>>

(* The token ends the server, directly or through its axum task; the RPC   *)
(* server may stop by itself.                                              *)
ServerReturns ==
  /\ \/ Signalled /\ JustEnds("server", "none") /\ UNCHANGED fault
     \/ JustEnds("server", "err") /\ fault' = TRUE
  /\ UNCHANGED cancel

(* process_url: whichever loop ends first, the backend returns an error. *)
BackendReturns ==
  /\ mainLoop = "done" \/ result["msgLoop"] # "run"
  /\ JustEnds("backend", "err") /\ UNCHANGED <<fault, cancel>>

NodeReturns == FirstOf("node", {"swarm", "server", "backend"})

MainReturns ==
  /\ Up /\ result["node"] # "run"
  /\ Ends("main", Handled("node")) /\ cancel' = TRUE
  /\ UNCHANGED <<pipeline, data, mainLoop, step, fault>>

CtrlC ==
  /\ Up /\ ~cancel
  /\ cancel' = TRUE
  /\ UNCHANGED <<pipeline, data, mainLoop, step, result, fault>>

-----------------------------------------------------------------------------
Next ==
  \/ MakeNext \/ MakeFails
  \/ CallbackCalled \/ CallbackSends \/ TagPosted \/ EndPosted
  \/ MainLoopStarts \/ MainLoopBus \/ MainLoopCancelled \/ MainLoopNull
  \/ MsgLoopAudio \/ MsgLoopTitle \/ MsgLoopSend \/ MsgLoopElse
  \/ SwarmPublish \/ SwarmCancelled
  \/ ServerReturns \/ BackendReturns \/ NodeReturns \/ MainReturns \/ CtrlC

Spec == Init /\ [][Next]_vars

(* Making the node comes to an end; the streaming thread and the polled    *)
(* tasks go on when they can; select! picks its branch at random, so one   *)
(* that is ready again and again is taken.  Nothing makes packets, titles, *)
(* failures or interrupts come.                                            *)
Fairness ==
  /\ WF_vars(MakeNext \/ MakeFails) /\ WF_vars(CallbackSends)
  /\ WF_vars(MainLoopStarts) /\ WF_vars(MainLoopBus)
  /\ WF_vars(MainLoopCancelled) /\ WF_vars(MainLoopNull)
  /\ SF_vars(MsgLoopAudio) /\ SF_vars(MsgLoopTitle)
  /\ WF_vars(MsgLoopSend) /\ WF_vars(MsgLoopElse)
  /\ WF_vars(SwarmPublish) /\ WF_vars(SwarmCancelled)
  /\ WF_vars(Signalled /\ ServerReturns) /\ WF_vars(BackendReturns)
  /\ WF_vars(NodeReturns) /\ WF_vars(MainReturns)

FairSpec == Spec /\ Fairness

-----------------------------------------------------------------------------
(* Properties. *)

(* The node implements Feed: however the threads and tasks interleave and  *)
(* end, what the swarm takes has no gap, titles are never repeated nor go  *)
(* back although the watch channel is overwritten while msg_loop is busy,  *)
(* and none passes more packets than the callback and its channel hold.    *)
Promise == INSTANCE Feed WITH Lead <- SinkCap + 1

KeepsFeed == Promise!Spec

(* Until something ends, every packet GStreamer made is with the swarm or  *)
(* on its way there: the streaming thread waits for a slow swarm instead   *)
(* of dropping audio.                                                      *)
Holds(q, m) == \E i \in 1..Len(q) : q[i] = m

NothingLost ==
  ~cancel =>
    \A n \in 1..made :
      \/ n = callback \/ held = <<"audio", n>>
      \/ Holds(sink, n) \/ Holds(gossip \o taken, <<"audio", n>>)

(* The program ends with None, "cancelled" in the code, only after an      *)
(* interrupt: no end of stream or failure is taken for one.                *)
NoneMeansInterrupted == [][result'["main"] = "none" => cancel]_vars

(* The newest title reaches the swarm, however busy the audio is, unless   *)
(* the program ends.                                                       *)
TitleDelivered ==
  \A n \in Titles :
    Len(tagAt) >= n ~> (~Up \/ \E i \in 1..Len(taken) :
                                 taken[i][1] = "title" /\ taken[i][2] >= n)

(* Main returns after an interrupt, the end of the source, a failed server *)
(* or a failed step of making the node, wherever each task is waiting.     *)
AlwaysEnds == (cancel \/ ended \/ fault) ~> ~Up

(* icecast_ogg.rs: with nobody left to receive, the callback's send fails  *)
(* with "channel closed" instead of blocking.                              *)
SendReturns == callback # 0 ~> (callback = 0 \/ Exited)
=============================================================================
