---------------------------- MODULE ListenerNode ----------------------------
(***************************************************************************)
(* A listener node from the swarm to the decoding pipeline, how it starts  *)
(* and how it ends.  The swarm task (p2p/swarm.rs) puts what it accepts    *)
(* into a bounded channel; the GossipBackendBridge (rpc/mod.rs) writes     *)
(* titles into a shared cell and forwards audio through a second bounded   *)
(* channel to the decoder task (backend/ogg_dec.rs), which pushes it into  *)
(* GStreamer.  Every task watches one cancellation token; the first one to *)
(* end takes the server, the node and then main with it (node.rs, main.rs).*)
(*                                                                         *)
(* A message is named by its position in what the swarm accepted; heard[n] *)
(* says whether message n is audio or a title.                             *)
(***************************************************************************)
EXTENDS Naturals, Sequences

CONSTANTS
  GossipCap,  \* capacity of the channel from the swarm to the bridge
  AudioCap,   \* capacity of the channel from the bridge to the decoder
  MaxMsgs     \* bound: how many messages the swarm accepts

ASSUME CapAssumption == GossipCap \in Nat \ {0} /\ AudioCap \in Nat \ {0}
ASSUME MaxMsgsAssumption == MaxMsgs \in Nat

VARIABLES
  heard,      \* kinds of the messages accepted so far
  sending,    \* the message the swarm's handler is sending, 0 in its select!
  gossip,     \* channel: swarm to bridge
  held,       \* the audio packet the bridge is sending, 0 in recv
  title,      \* the shared title: a message, 0 is the empty string
  audio,      \* channel: bridge to decoder
  pushed,     \* the packets pushed into the pipeline, oldest first
  step,       \* what ListenerNode::new makes next; "run" once it is done
  pipeline,   \* state of the decoding pipeline
  result,     \* result[t]: "run", or what task t returned (None or an error)
  fault,      \* something outside the program failed
  cancel      \* the cancellation token

data == <<heard, sending, gossip, held, title, audio, pushed>>
life == <<step, pipeline, result, fault, cancel>>
vars == <<data, life>>

Tasks == {"swarm", "bridge", "decoder", "axum", "info", "server", "node", "main"}
Kinds == {"audio", "title"}
Msgs == 1..MaxMsgs
Steps == {"swarm", "http", "pipeline", "info", "run"}

TypeOK ==
  /\ heard \in Seq(Kinds) /\ Len(heard) <= MaxMsgs
  /\ sending \in Msgs \cup {0}
  /\ gossip \in Seq(Msgs) /\ Len(gossip) <= GossipCap
  /\ held \in Msgs \cup {0}
  /\ title \in Msgs \cup {0}
  /\ audio \in Seq(Msgs) /\ Len(audio) <= AudioCap
  /\ pushed \in Seq(Msgs)
  /\ step \in Steps
  /\ pipeline \in {"none", "ready", "playing", "null"}
  /\ result \in [Tasks -> {"run", "none", "err"}]
  /\ fault \in BOOLEAN
  /\ cancel \in BOOLEAN

Init ==
  /\ heard = <<>>
  /\ sending = 0
  /\ gossip = <<>>
  /\ held = 0
  /\ title = 0
  /\ audio = <<>>
  /\ pushed = <<>>
  /\ step = "swarm"
  /\ pipeline = "none"
  /\ result = [t \in Tasks |-> "run"]
  /\ fault = FALSE
  /\ cancel = FALSE

Up == result["main"] = "run"

(* Tasks run once the node is made; when main returns, the runtime drops   *)
(* every one of them where it is.                                          *)
Runs(t) == Up /\ step = "run" /\ result[t] = "run"

Ends(t, r) == result' = [result EXCEPT ![t] = r]

SignalLost == FALSE                      \* mutant: main cancels another token

(* What a task sees of the token. *)
Signalled == cancel

HasRoomOffByOne(chan, cap) == Len(chan) + 1 < cap            \* mutant
HasRoomAlways(chan, cap) == Len(chan) <= cap * MaxMsgs       \* mutant: unbounded

HasRoom(chan, cap) == Len(chan) < cap

-----------------------------------------------------------------------------
(* ListenerNode::new: the swarm, the HTTP socket, the decoding pipeline,   *)
(* the RPC server.  It does not look at the token.                         *)

AfterStep ==
  [swarm |-> "http", http |-> "pipeline", pipeline |-> "info", info |-> "run"]

MakeNext ==
  /\ Up /\ step # "run" /\ result["node"] = "run"
  /\ step' = AfterStep[step]
  /\ pipeline' = IF step = "pipeline" THEN "ready" ELSE pipeline
  /\ UNCHANGED <<data, result, fault, cancel>>

(* An address in use, say.  What has been made is dropped, the error is    *)
(* the node's.                                                             *)
MakeFails ==
  /\ Up /\ step # "run" /\ result["node"] = "run"
  /\ fault' = TRUE /\ Ends("node", "err") /\ pipeline' = "none"
  /\ UNCHANGED <<data, step, cancel>>

-----------------------------------------------------------------------------
(* The swarm task: process_gossip_sub_event awaits the send inside the     *)
(* select! handler, so neither events nor the token are looked at then.    *)

SwarmAccept ==
  /\ Runs("swarm") /\ sending = 0 /\ Len(heard) < MaxMsgs
  /\ \E k \in Kinds : heard' = Append(heard, k)
  /\ sending' = Len(heard) + 1
  /\ UNCHANGED <<gossip, held, title, audio, pushed, life>>

SwarmSend ==
  /\ Runs("swarm") /\ sending # 0
  /\ \/ /\ result["bridge"] = "run" /\ HasRoom(gossip, GossipCap)
        /\ gossip' = Append(gossip, sending)
     \/ result["bridge"] # "run" /\ UNCHANGED gossip     \* receiver gone: only logged
  /\ sending' = 0
  /\ UNCHANGED <<heard, held, title, audio, pushed, life>>

(* What a task does that only ends. *)
JustEnds(t, r) == Runs(t) /\ Ends(t, r) /\ UNCHANGED <<data, step, pipeline, cancel>>

SwarmCancelled ==
  Signalled /\ sending = 0 /\ JustEnds("swarm", "none") /\ UNCHANGED fault

-----------------------------------------------------------------------------
(* GossipBackendBridge::run.  Once the swarm is gone recv returns None at  *)
(* once and the loop spins until the token is seen; no state changes.      *)

TitleFirstOnly(n) == IF title = 0 THEN n ELSE title          \* mutant

NewTitle(n) == n

BridgeRecv ==
  /\ Runs("bridge") /\ held = 0 /\ gossip # <<>>
  /\ LET n == Head(gossip) IN
       \/ heard[n] = "audio" /\ held' = n /\ UNCHANGED title
       \/ heard[n] = "title" /\ title' = NewTitle(n) /\ UNCHANGED held
  /\ gossip' = Tail(gossip)
  /\ UNCHANGED <<heard, sending, audio, pushed, life>>

BridgeTrySend ==                         \* mutant: try_send instead of send
  /\ Runs("bridge") /\ held # 0
  /\ audio' = IF result["decoder"] = "run" /\ HasRoom(audio, AudioCap)
              THEN Append(audio, held) ELSE audio
  /\ held' = 0
  /\ UNCHANGED <<heard, sending, gossip, title, pushed, life>>

BridgeSend ==
  /\ Runs("bridge") /\ held # 0
  /\ \/ /\ result["decoder"] = "run" /\ HasRoom(audio, AudioCap)
        /\ audio' = Append(audio, held)
     \/ result["decoder"] # "run" /\ UNCHANGED audio     \* send(..).ok()
  /\ held' = 0
  /\ UNCHANGED <<heard, sending, gossip, title, pushed, life>>

(* Its half of the channel, and a packet it was sending, go with it. *)
BridgeCancelled ==
  /\ Runs("bridge") /\ Signalled
  /\ Ends("bridge", "none")
  /\ gossip' = <<>> /\ held' = 0
  /\ UNCHANGED <<heard, sending, title, audio, pushed, step, pipeline, fault, cancel>>

-----------------------------------------------------------------------------
(* DecodingBackend::run.  However run_dec_stream ends, the caller gets an  *)
(* error; the token seen by run_until_cancelled first gives None.          *)

DecoderEnds(r) ==
  /\ Ends("decoder", r) /\ audio' = <<>>
  /\ UNCHANGED <<heard, sending, gossip, held, title, pushed, step, cancel>>

DecoderStart ==
  /\ Runs("decoder") /\ pipeline = "ready"
  /\ \/ pipeline' = "playing" /\ UNCHANGED <<data, step, result, fault, cancel>>
     \/ fault' = TRUE /\ DecoderEnds("err") /\ UNCHANGED pipeline

(* process_bytes; an error from the push ends the loop. *)
DecoderPush ==
  /\ Runs("decoder") /\ pipeline = "playing" /\ audio # <<>>
  /\ \/ /\ pushed' = Append(pushed, Head(audio)) /\ audio' = Tail(audio)
        /\ UNCHANGED <<heard, sending, gossip, held, title, life>>
     \/ fault' = TRUE /\ DecoderEnds("err") /\ pipeline' = "null"

(* Eos or Error on the bus. *)
DecoderBus ==
  /\ Runs("decoder") /\ pipeline = "playing"
  /\ fault' = TRUE /\ DecoderEnds("err") /\ pipeline' = "null"

(* The inner select! sees the token: Ok(()) becomes an error in the caller. *)
DecoderCancelled ==
  /\ Runs("decoder") /\ pipeline = "playing" /\ Signalled
  /\ DecoderEnds("err") /\ pipeline' = "null" /\ UNCHANGED fault

(* The outer run_until_cancelled sees it first: before the first poll, or  *)
(* when the inner select! has used up its budget.                          *)
DecoderDropped ==
  /\ Runs("decoder") /\ Signalled
  /\ DecoderEnds("none") /\ UNCHANGED <<pipeline, fault>>

-----------------------------------------------------------------------------
(* The HTTP and RPC servers, and the tasks that wait for other tasks.      *)

AxumCancelled == Signalled /\ JustEnds("axum", "none") /\ UNCHANGED fault

InfoStops == JustEnds("info", "err") /\ fault' = TRUE

HandledAsCancelled(t) == "none"          \* mutant: an error taken for a cancellation

(* handle_to_main_handle, handle_loop_cannot_fail_handle *)
Handled(t) == result[t]

(* select! over the handles of the tasks in ts. *)
FirstOf(t, ts) ==
  \E u \in ts : result[u] # "run" /\ JustEnds(t, Handled(u)) /\ UNCHANGED fault

ServerForgetsDecoder == FirstOf("server", {"axum", "bridge", "info"})   \* mutant

ServerReturns == FirstOf("server", {"decoder", "axum", "bridge", "info"})

NodeReturns == FirstOf("node", {"swarm", "server"})

MainReturns ==
  /\ Up /\ result["node"] # "run"
  /\ Ends("main", Handled("node")) /\ cancel' = TRUE
  /\ UNCHANGED <<data, step, pipeline, fault>>

CtrlC ==
  /\ Up /\ ~cancel
  /\ cancel' = TRUE
  /\ UNCHANGED <<data, step, pipeline, result, fault>>

-----------------------------------------------------------------------------
Next ==
  \/ MakeNext \/ MakeFails
  \/ SwarmAccept \/ SwarmSend \/ SwarmCancelled
  \/ BridgeRecv \/ BridgeSend \/ BridgeCancelled
  \/ DecoderStart \/ DecoderPush \/ DecoderBus \/ DecoderCancelled \/ DecoderDropped
  \/ AxumCancelled \/ InfoStops
  \/ ServerReturns \/ NodeReturns \/ MainReturns
  \/ CtrlC

Spec == Init /\ [][Next]_vars

(* Making the node comes to an end.  The runtime polls every task that can *)
(* go on, and select! picks its branch at random, so a branch that is      *)
(* ready again and again is taken.  Nothing makes messages arrive, the     *)
(* user interrupt, or anything fail.                                       *)
Fairness ==
  /\ WF_vars(MakeNext \/ MakeFails)
  /\ WF_vars(SwarmSend) /\ SF_vars(SwarmCancelled)
  /\ WF_vars(BridgeRecv) /\ WF_vars(BridgeSend) /\ WF_vars(BridgeCancelled)
  /\ WF_vars(DecoderStart) /\ WF_vars(DecoderPush)
  /\ WF_vars(DecoderCancelled \/ DecoderDropped) /\ WF_vars(AxumCancelled)
  /\ WF_vars(ServerReturns) /\ WF_vars(NodeReturns) /\ WF_vars(MainReturns)

FairSpec == Spec /\ Fairness

-----------------------------------------------------------------------------
(* Properties. *)

Promise == INSTANCE Intake WITH playing <- Up /\ result["decoder"] = "run"

(* The node implements Intake: no packet is lost, doubled or overtaken     *)
(* between the tasks, in whatever order they end, and audio is never heard *)
(* under a title older than the one announced before it, nor more than     *)
(* AudioCap packets early, although the title does not travel with it.     *)
KeepsIntake == Promise!Spec

(* While nothing has ended, every accepted packet that is not in the       *)
(* pipeline is still on its way there.                                     *)
Holds(q, n) == \E i \in 1..Len(q) : q[i] = n

NothingLost ==
  ~cancel /\ ~fault =>
    \A n \in 1..Len(heard) : heard[n] = "audio" =>
      n \in {held, sending} \/ Holds(pushed \o audio \o gossip, n)

(* The program ends with None, "cancelled" in the code, only after an      *)
(* interrupt: no failure is taken for one.                                 *)
NoneMeansInterrupted == [][result'["main"] = "none" => cancel]_vars

(* Backpressure always lets go: the swarm, which serves no other event     *)
(* while it sends, is never stuck behind a full channel.                   *)
SwarmUnblocked == sending # 0 ~> (sending = 0 \/ ~Up)

(* An interrupt ends the program, wherever each task is waiting, and also  *)
(* when it comes before the node is made.                                  *)
InterruptEnds == cancel ~> ~Up

(* A failure of one task, or of one step of making the node, ends the      *)
(* program.                                                                *)
FailureEnds == fault ~> ~Up

(* The code's comments on a task's result, "// errored" (utils.rs), and on *)
(* main's match, "// cancelled" (main.rs): an error means one occurred.    *)
ErrorMeansFault == result["main"] = "err" => fault
=============================================================================
