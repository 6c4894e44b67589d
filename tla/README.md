# p2pradio in TLA+

P2PRadio carries a web radio over libp2p gossipsub. A *streamer* node pulls an
Icecast URL through GStreamer, cuts it into Opus/RTP packets and publishes them,
together with the titles it finds, on a gossipsub topic. A *listener* node
subscribes to the topic, accepts what one chosen station hands it, feeds it to a
second GStreamer pipeline that makes Ogg pages of it, and serves those pages to
HTTP clients under `/stream`, with ICY metadata for players that ask for it.

This directory specifies what can go wrong between those steps: threads and
tasks that meet in a mutex, in bounded channels and in a cancellation token,
peers that relay to each other, and a byte stream in which two sides must count
alike. Paths below are relative to the repository; modules are in this directory.

## 1. Inventory

| Component | Source | State | Operations |
|---|---|---|---|
| Live stream server | `backend/ogg_dec.rs` (appsink callback), `rpc/mod.rs` (`stream_handler`, `response_stream`) | header cache behind a mutex, `last_was_header`, broadcast channel, one receiver per client | new page; request, snapshot and subscribe; body: headers, live pages, lag, hang-up |
| ICY metadata | `rpc/mod.rs` (`IcyEncoder`, `format_title`) | bytes left in the interval | encode a page, format a title |
| Listener node | `node.rs`, `rpc/mod.rs`, `backend/mod.rs`, `backend/ogg_dec.rs`, `p2p/swarm.rs`, `utils.rs`, `main.rs` | gossip channel, audio channel, shared title, pipeline, result of every task, token | accept, forward, push, cancel, fail, return |
| Streamer node | `node.rs`, `backend/mod.rs`, `backend/icecast_ogg.rs`, `p2p/swarm.rs`, `rpc/mod.rs`, `utils.rs`, `main.rs` | flume channel, bus, watch channel, gossip channel, pipeline, results, token | packet, tag, end of stream, forward, publish, cancel, return |
| Gossip network | `p2p/swarm.rs` | explicit peers, blacklist, duplicate cache, messages in flight | mDNS discovered/expired, publish, receive and relay, check the source |
| Message codec | `p2p/codec.rs` | none | encode, decode |
| Pipeline construction | `create_icecast_pipeline`, `create_opus_pipeline` | links between the source's pads | make and link the elements; pad added (two callbacks) |
| Command line and start | `cli.rs`, `main.rs`, `node.rs` | what has been made so far | parse, make a node step by step, start |
| Info/listener/JSON RPC, metrics, error types | `rpc/info.rs`, `rpc/listener.rs`, `rpc/json.rs`, `metrics.rs`, `lib.rs` | none | report constants |

How they interact:

    streamer                                        listener
    GStreamer thread --flume(100)--> msg_loop       swarm --mpsc(100)--> bridge --mpsc(100)--> decoder
        bus --> main_loop --watch----^ |                ^                  | title                 | appsrc
                                mpsc(100)               |                  v                       v
                                       v             gossip            RwLock<String>        GStreamer thread
                                     swarm --topic--> network              |                 mutex | broadcast(100)
                                                                           v                       v
                                                                       IcyEncoder <--------- HTTP bodies

What makes each component correct, and what is hard about it:

* **Live stream server.** A client must get the header pages of the current Ogg
  stream and then every page since, none twice and none missing. The snapshot of
  the cache and the subscription are two operations, and so are caching a page
  and broadcasting it; only the mutex keeps them apart.
* **ICY metadata.** A player counts bytes. One byte too many or a length byte
  that wraps turns every following second of audio into noise.
* **Listener node.** Backpressure, a title beside the audio rather than in it,
  failure in the middle of start-up, and shutdown from any point of any task.
* **Streamer node.** A foreign thread that blocks in a channel, `select!` over
  audio and titles, a pipeline that must be stopped, four tasks that may end first.
* **Message codec.** A message must decode to what was encoded, on every node;
  bytes of other programs on the topic must not.
* **Pipeline construction.** The source's pads come and go while it plays, and a
  callback that links them makes several calls during which they may be gone.
* **The radio as a whole.** Nothing is repeated by the program and nothing carries a
  time: a title runs ahead of its audio by what both nodes queue, a late listener
  has no title at all, what gossipsub recovers comes late and out of order, and a
  station that is started again is somebody else.
* **Gossip network.** Relays race with the station; a message may be handed over
  again, late, on request; the id of a message is its sequence number alone; trust
  is decided by who handed a message over.

`PROJECT.json` lists the single hazards, each at its line, under "hazards".

## 2. Modules

| Module | What it is |
|---|---|
| `LiveJoin` | abstract: what a listener node promises an HTTP client; joining is one step |
| `StreamServer` | the callback, the handler and the body, with the mutex; implements `LiveJoin` |
| `StreamServerProofs` | its theorems |
| `IcyBody`, `MCIcyBody` | encoder and title formatter, composed with a player |
| `IcyBodyProofs` | its theorems |
| `Intake` | abstract: what a listener node makes of the messages it accepts |
| `ListenerNode` | the listener's start-up, tasks, channels and lifecycle; implements `Intake` |
| `ListenerNodeProofs` | its theorems |
| `Feed` | abstract: what a streamer node hands to the network |
| `StreamerNode` | the streamer's start-up, tasks, channels and lifecycle; implements `Feed` |
| `StreamerNodeProofs` | its theorems |
| `Codec` | encode and decode, with their theorems |
| `GossipNetwork`, `MCGossipNetwork` | stations and listeners on one topic |
| `GossipNetworkProofs` | its theorems |
| `Radio`, `MCRadio` | a station and a listener end to end: `Feed`, `Codec` and `Intake` composed |
| `RadioProofs` | its theorems |
| `SourceLinks` | the streamer's pad-added callbacks |
| `SourceLinksProofs` | its theorems |

An operator whose comment says *mutant* is never used by a specification: it is
a plausible slip of the operator defined after it, and `PROJECT.json` names the
property that notices when it is put in its place.

### StreamServer

A page is a number, its position in the muxer's output; `pages[n]` is its kind
(the `HEADER` buffer flag). `SinkLock`, `SinkCache`, `SinkBroadcast` are the
callback up to taking the mutex, the cache update, and `dec_tx.send` with the
guard dropped on return. `HttpLock`, `HttpCloneHeaders`, `HttpSubscribe` are the
handler's block; `SendHeader`, `SendLive` the two halves of
`initial.chain(live)`; `Lag` the receiver's `Lagged` error, which ends the body.
The broadcast channel is the history `pages` and one cursor `next[c]` per
receiver: a receiver more than `Capacity` behind has lagged. (tokio rounds the
capacity of 100 up to 128; nothing depends on the number.) A page sent without
receivers fails in the code and counts in `pages` here; no one holds a position
then, so it cannot be told apart. That `oggmux` opens a stream with a header page
is external, taken from the comment and the test in `ogg_dec.rs`.

`Promise` instantiates `LiveJoin` with `since`, the pages published when the
client subscribed, computed from the cursor. `KeepsPromise` is the refinement.

### IcyBody

One step per turn of the loop in `encode` (`Copy`, then `AppendBlock` when the
interval is full) and of the loop in `format_title` (`PushChar`). Audio bytes are
numbered; a character is its UTF-8 width and whether it is replaced. `LengthByte`
keeps the cast to `u8` (`% (MaxBlocks + 1)`). The player is `strip_icy` from the
tests, one byte per step: it distinguishes bytes by counting only. It may read
what complete calls of `encode` returned. The read lock on the title is held for
a call, hence `SetTitle` only between calls.

### ListenerNode and StreamerNode

`step` is what the node's constructor makes next; `MakeNext` and `MakeFails` are
one step of it, in the order of `node.rs`, and tasks run only once it is done. An
interrupt may come before that: the constructor does not look at the token.

One variable per channel and per local that outlives an await; a task is at its
`select!`/`recv` when its local is empty and in its `send` when it is not.
`result` is what each task returned: `"none"` is the code's `None`, cancelled,
and `"err"` its `Some(Err(_))`. `FirstOf` is a `select!` over join handles, and
dropping a handle does not end the task behind it. `MainReturns` is main
returning: the runtime drops tasks at their awaits (`Runs`, `Up`). In the
streamer `set_state(Null)` is a blocking call that GStreamer ends only when its
thread is out of the callback (`MainLoopNull`), and the process is gone (`Exited`)
only when no worker thread is inside it. Failures of the outside world (pipeline
does not start, bus error, a server stops) are free choices that set `fault` or
`ended`, so properties can say "unless something failed".

In the listener, `DecoderCancelled` and `DecoderDropped` are the two ways the
decoder may end on the token: the inner `select!` sees it, or
`run_until_cancelled` around it does. Both are possible: before the first poll,
and whenever tokio's budget makes the inner branches pending.

In the streamer the axum task and the RPC server, which it owns, are one task
`server`: it ends on the token, or by itself with an error.

`Intake` and `Feed` are the nodes with no task in sight. `Intake` hears
messages, moves the title forward and pushes packets; `Push` requires that the
title is at least the last one announced before the packet, `SetTitle` (`RoomFor`)
that it passes at most `AudioCap` packets, so an implementation cannot reorder
audio and titles beyond what the channel to the decoder allows. `Feed` makes
packets and tags and takes them: audio without a gap, titles that only move
forward and pass at most `Lead` packets, in the code `SinkCap + 1`, the flume
channel and the packet in the callback. In both refinements a variable stands for
the one of the same name; `playing` is the decoder task being alive.

### Codec and Radio

`Codec` has both error cases of `decode`: an empty message, and a tag that is
neither 0 nor 1 or a title that is not UTF-8. Bytes and the set of texts are
parameters.

`Radio` instantiates `Feed` as `F` and `Intake` as `L`, and puts between them
what `GossipNetwork` leaves of the network for a listener and its own station. A
message comes in its turn (`Publish`), or late because the listener asked for what
it lacked (`Resend`, gossipsub's IHAVE and IWANT), behind whatever was published
since, or not at all; and `PassOn` is anybody else's message on the topic that the
station relays: another program's bytes, or a valid packet or title of another
station. A message that is missed in its turn is so from the moment it is
published; with an air that is a queue a later loss cannot be told from that. A
relay's copy that a listener swallowed counts as missed.

`air` and `got` carry with a message the way it came (`Ways`). The listener cannot
see it, and no action looks at it: it is history, like `missed` and `late`, and lets
the properties say what exactly a re-sent or a relayed message does. `Shown` and
`Pushed` are about the station's own recording.

`StationRestarts` starts the process again under a new peer id
(`with_new_identity`), and `Init` is such a start too; `ListenerStarts` takes the id of the
present or of an earlier station from the command line. `Arrive` is
`process_gossip_sub_event` with its early return for a message that does not
decode. The blacklist has no variable here: a listener that is tuned to its station
never blacklists it (`LossEnds` in `GossipNetwork`), and one that is not hears
nothing of it either way. A listener that stops and starts is a new process with
an empty title.

`TitleLead` counts the packets that are not yet given to the pipeline
(`push_buffer`). It does not bound what a client hears: behind that come the jitter
buffer, the muxer, the broadcast channel and the player, while the title is put
into the next metadata block.

### SourceLinks

Pads of `urisourcebin` and `parsebin` are numbered as they are added. `KeepLink`
is the first callback's early return when parsebin's sink is linked already;
`FindOld`, `UnlinkOld` and `Link` are the three calls the second makes.
`PadRemoved` may come between any two of them, and takes the link along. A pad
whose caps do not fit is `unfit`, and its link fails. `error` is the element
error that only parsebin's callback posts.

### GossipNetwork

mDNS records are per address, as in the library's events. `Publish` and `Receive`
reduce gossipsub to what the program observes: explicit peers get everything,
mesh peers maybe (`SendsTo`), a message is handled once per id (`NewTo`, which is
the code's `message_id`), blacklisted senders and authors are ignored, and
forwarding does not wait for the program. A link keeps order, but what was lost on
it, or never sent along it, may follow later: `Resend` is a node's answer to a peer
that has seen in its IHAVE a message it has not got. How long a message can be asked for (the cache's
history of a few heartbeats) is left open: as long as it is in the duplicate cache. `HandleEvent` is
`process_gossip_sub_event`, on a queue of events, so an event may have been
queued before its sender was blacklisted. What a station publishes always has a
sequence number and decodes, so those two early returns do not occur here; `Radio`
has the one for a message that does not decode.

## 3. What is checked

All runs are exhaustive for their bounds.

| Run | Bounds | What it shows |
|---|---|---|
| `stream_server` | 2 clients, 5 pages, capacity 2 | types, `CacheIsCurrent`, `InOrderOnce`, `HeadersBeforeAudio`, the refinement `KeepsPromise`; live: `CatchesUp`, `MutexReleased` |
| `icy_body` | interval 3, pages of 1, 2, 7, blocks of 3 bytes, at most 2, 6 titles, 9 bytes | types, `PlaysExactly`, `LengthByteExact`, `TitleQuoted`, `LongestPrefix` |
| `listener_node` | channels of 1 and 2, 5 messages | types, `NothingLost`, the refinement `KeepsIntake`, `NoneMeansInterrupted`; live: `SwarmUnblocked`, `InterruptEnds`, `FailureEnds` |
| `streamer_node` | channels of 1 and 1, 2 packets, 2 titles | types, `NothingLost`, the refinement `KeepsFeed`, `NoneMeansInterrupted`; live: `TitleDelivered`, `AlwaysEnds` |
| `radio` | 3 packets, 2 titles, a lead of 1 in each node, 2 messages in the air, 1 fault (loss, late or relayed message, node that stops) | types, `PlaysInOrder`, `TitleLead`, `StaleOnlyIfMissed`; live: `TitleArrives` |
| `source_links` | 3 pads of each bin | types, `NewestOnAir`, `SilentOnlyIfLate`, `ErrorMeansUnusable` |
| `gossip_network` | 1 station, 2 listeners, 2 messages, 1 of them re-sent, 1 expiry, losses | types, `OwnInOrder`, `OnlyRelaysSwallow`, `LossEnds` |
| `gossip_two_stations` | 2 stations, 1 listener, 2 messages, 1 of them re-sent, 1 expiry, losses | `NoDuplicates` |

The remaining four runs end in a violation; they are listed under
[Disagreements](#disagreements-found).

Why the bounds are enough. Five pages hold a stream, a second stream with two
header pages, audio of both, and one page more than a channel of two can keep for
a client; two clients and the callback are every contender for the mutex. Five
messages are what it takes for the listener's swarm to wait behind a bridge that
waits for the decoder: two in the audio channel, one in the bridge's hands, one in
the gossip channel and one that the swarm sends. In the streamer two packets and two titles together fill the flume
channel, the callback, msg_loop's hands and the gossip channel at once; whether
an item there is a packet or a title makes no difference to who blocks. Two packets
cannot keep a title waiting for ever, so `TitleDelivered` shows that neither the
overwritten watch channel nor the full ones lose the newest title; that audio does
not starve it rests on the fairness of `select!` below. In `radio`
three packets are one more than a title may pass in both nodes, so that
`TitleLead` is reached and not merely respected; the two titles are the outdated
one and the newer one; one fault is a loss, a message that comes late, a message of another station or
program, or a restart of either node at any point. It is enough for an old title
that comes after the newer one: a listener that starts late has missed the old one
without a fault, and gets it late with one. The nodes' real leads, 100 + 1 packets in the streamer and
100 in the listener, are seconds of audio, and enter as constants only.
Three pads are one that is linked, one that replaces it and one that comes while
the callback is busy or the old one is going.
In the ICY run pages of 1, 2 and 7 bytes against an interval of 3 end before, at and
beyond one and several block boundaries, and the titles include one that fills the last block exactly, one that exceeds it by a wide
character where a narrow one would still fit (and does follow), a quote and a wide
control character. Two listeners are what it takes for one to relay to the other, two
messages for one to come late behind the other, two stations for
a station to act as a relay. In the network every node has one address: with two
TLC does not finish in the five minutes a run may take, so that an expiry of one
of several addresses is covered by the proofs, which hold for any set of them, and not by a run. The proofs hold for every value of the bounds.

Deadlock is not checked where the system really stops (the nodes end, the radio
falls silent, the ICY input ends). It is checked in `stream_server`, where a
client can always connect.

### Fairness

* The operating system runs a thread that holds the mutex; hyper polls the body of
  a client that reads. (`StreamServer`: weak fairness of the callback's and the
  handler's steps after the lock. Taking the lock has none: a std mutex is not fair.)
* Making a node comes to an end, in success or failure (`MakeNext \/ MakeFails`).
  This is an assumption about sockets and GStreamer: the ten seconds that
  `backend/mod.rs:145` allows for the decoding pipeline are not a limit, since the
  future inside never awaits.
* tokio polls every ready task, so a task's next step is weakly fair.
* `select!` picks among ready branches at random, so a branch that is ready again
  and again is taken with probability one: strong fairness for the swarm's
  cancellation branch in the listener and for audio and titles in `msg_loop`. The
  swarm's branch is ready only while it is not inside a send.
* The streamer's server ends when the token is cancelled; that it ends by itself
  is free, and not fair (`WF_vars(Signalled /\ ServerReturns)`).
* Nothing makes a listener ask for what it lacks or a station answer (`Resend` has no
  fairness).
* In `GossipNetwork` a message on a link is received and a queued event handled:
  QUIC delivers while the connection lasts, and the swarm's task is polled.
* In `Radio` what is in the air arrives and the listener's tasks are polled, as
  in the nodes. Nothing makes a station or a listener start again.
* Nothing makes the source produce, the user interrupt, a client connect, mDNS
  find a peer, or anything fail.

### Disagreements found

Runs that end in a violation, each of one statement the repository makes:

* `listener_node_err` (`ErrorMeansFault`). `None` means cancelled
  (`utils.rs:30`, `main.rs:38`), yet `DecodingBackend::run` turns the decoder's
  clean end on the token into the error "Pipeline finished unexpectedly"
  (`backend/mod.rs:169`). Which one main sees after ctrl-c is a race.
* `streamer_node_blocked` (`SendReturns`). The callback expects its send to fail
  when nobody receives (`icecast_ogg.rs:152-153`). main_loop's own `Stream` keeps a
  receiver, so after `msg_loop` has ended the channel is full and open: the
  callback blocks, and `set_state(Null)` waits for it.
* `gossip_helps` (`HelpsDistribute`). README.md:9 says listeners help to
  distribute messages. A listener blacklists a peer that does, and loses the
  message, whose id is in the duplicate cache by then.
* `gossip_chosen` (`OnlyChosenHeard`). README.md:8 speaks of the public key; the
  code checks the peer that handed the message over, not the one that signed it,
  so a station that relays another's messages is heard with them.

What the code's authors know and have not done is not in the list: `icecast_ogg.rs:215`
has a TODO for `set_state(Null)` on every way out, while main does not wait for
main_loop. `swarm.rs:323` has one for reordering by sequence number: the code does
not do it, and what a station re-sends on request is played behind newer packets, and
shown in place of a newer title. `OwnInOrder`, `PlaysInOrder` and `StaleOnlyIfMissed`
say that this, and a relayed message of another station in `Radio`, is all that
breaks the order or makes a title outdated besides a loss. Packets may be put right again by
the `rtpjitterbuffer` behind `push_buffer` (`ogg_dec.rs:169`); titles are not.

While modelling `Expired` it also became apparent that mDNS expires addresses, and
that one expired address drops a peer that is still announced under another
(`swarm.rs:286-293`). The model does the same and all its properties hold with it.
`SourceLinks` shows a similar gap as a property that holds, `SilentOnlyIfLate`: a
pad of the source that is added while another is linked is not looked at
again when that other one goes, and nothing is posted then. The property excepts such
pads (`late`): it delimits the gap and would not notice it.

## 4. What is proved

`tlapm` checks every proof to its last leaf. The theorems hold for every value of
the constants that satisfies the assumptions in the modules: any number of clients,
peers, pads and messages, any capacity. Every safety property of a passing run, the
three refinements among them, is a theorem; each component's are drawn from one
inductive invariant, `IInv` (the ICY body needs two more), and `Invariance` says
that it holds throughout.

| Module | Theorems about the runs' properties |
|---|---|
| `StreamServerProofs` | `TypeCorrect`, `CacheAlwaysCurrent`, `AlwaysInOrder`, `HeadersAlwaysFirst`, `ImplementsPromise` |
| `IcyBodyProofs` | `TypeCorrect`, `LengthByteAlwaysExact`, `AlwaysPlaysExactly`, `TitleAlwaysQuoted`, `AlwaysLongestPrefix` |
| `ListenerNodeProofs` | `TypeCorrect`, `NothingEverLost`, `NoneAlwaysInterrupted`, `ImplementsIntake` |
| `StreamerNodeProofs` | `TypeCorrect`, `NothingEverLost`, `NoneAlwaysInterrupted`, `ImplementsFeed` |
| `SourceLinksProofs` | `TypeCorrect`, `NewestAlwaysOnAir`, `SilentAlwaysLate`, `ErrorAlwaysMeansUnusable` |
| `GossipNetworkProofs` | `TypeCorrect`, `NothingHeardTwice`, `OwnAlwaysInOrder`, `OnlyRelaysEverSwallow`, `LossComesToAnEnd` |
| `RadioProofs` | `TypeCorrect`, `AlwaysPlaysInOrder`, `TitleAlwaysNear`, `StaleAlwaysMissed` |
| `Codec` | `RoundTrip`, `Canonical` |

**StreamServer** (assumptions: the mutex's owner names are distinct, `Capacity` is
positive). The cache's correctness is not inductive alone: between `SinkCache` and
`SinkBroadcast` the cache is one page ahead of the channel, and between
`HttpCloneHeaders` and `HttpSubscribe` a client holds a snapshot that is right
only because no page can be broadcast meanwhile. `IInv` therefore says, next to
the types: who holds the mutex in each phase (`MutexStep` proves mutual exclusion),
what the cache is in each phase of the callback, and for each client that its
snapshot is the opening of the stream at the moment it subscribed and that what it
got is that snapshot followed by consecutive pages. Three lemmas about the
operator `Opening` (it does not change as pages are appended, nor by an audio page,
and a header page adds to it or starts it anew) carry the steps. The refinement is
`InvInit` plus `StepImplements`: each action maps to `Join`, `Publish`, `Receive`,
`Leave` or a stutter.

**IcyBody** (assumptions: interval, block size and limit positive, the opening and
closing marks fit, `ICY_METAINT > 0` as asserted by `IcyEncoder::new`).
`LengthByteAlwaysExact` rests on `TextFits`, the room `format_title` keeps for the
closing marks, and on `DivCeil`. `AlwaysPlaysExactly` needs a statement about all
bytes that are still on the way, and without a recursive parser: the invariant
`OnTrack` says there *exists* a run of an ideal player over the whole body, byte
by byte, that ends where the encoder is in its interval, and that the real player
is at some point of it. Encoding extends the run (`CopyOnTrack`, `AppendOnTrack`
by `ChainConcat`); reading follows it, since the next byte determines the player's
next state (`ReadOnTrack`). `TitleAlwaysQuoted` needs to know what is behind
*every* length byte of the body, also those the player has not come to:
`ShownInv` says that a quoted title is (`Titled`, kept when audio or a block is
appended by `TitledConcat`), and that the player read what it shows from there.
`AlwaysLongestPrefix` is about a recursive function, the widths of a title's
characters added up. That it exists, and that it only grows, is an induction;
it is done by the least counterexample (`LeastNat`, from the well-foundedness of
the natural numbers), because a theorem whose parameter is a set can be
instantiated where one whose parameter is a predicate cannot.

**ListenerNode** (assumptions: both channels have a positive capacity).
`NothingLost` is not inductive, and neither is the order that `Intake` asks for:
one has to say where each message is. `FlowInv` says that there is a `k`, the
messages the bridge has dealt with, such that those after `k` are in the gossip
channel or in the swarm's hands, in order; the title is the last title up to `k`;
and the packets up to `k` are in the pipeline up to the last one pushed, then in
the audio channel, or in the bridge's hands. `k` is bound by a quantifier because
it is not a function of the state: a bridge that is dropped at its await with a
packet in hand has dealt with one message less than before. `EndInv` ties every
task's result to `cancel` and `fault`; `NoneAlwaysInterrupted` follows from it.
`AudioCap`, the most packets a title may pass in `Intake`, is what the channel to
the decoder can hold, by a count of the numbers in it.

**StreamerNode** (assumptions as above). Here what is read is a function of the
state: the packets made, less those in the flume channel and in the callback
(`SourceInv`). `RelayInv` says that what `msg_loop` holds and the gossip channel
holds, together (`Queue`), follows what the swarm has taken: every packet up to the
last one read, titles up to the one last seen, each kind in order, and no title
further ahead of the packets behind it than flume channel and callback are long.
`BusInv`, that titles on the bus are newer than the watch channel's and in order,
is needed already for the types: without it the watch channel might go back.
`TakenInv` gives `Feed`'s "last taken" its meaning, the greatest number taken.

**GossipNetwork** (assumptions: stations and listeners are disjoint, each listener
has a station). `NoDuplicates` follows from `Known` and `Once`: whatever was
delivered or is queued is in the duplicate cache. `OwnInOrder` rests on `OneWay`:
a station never forwards its own message, so these come to its listener along the
one link and the events from it, each behind older ones or re-sent (`resent`), while a
copy from a relay is an event of another sender and is never delivered. That each is
heard once is not part of this but follows from the duplicate cache (`Once`), since
a link may carry a message and its re-sent copy. `OnlyRelaysSwallow` is inductive next to
these. `LossEnds`, an action property, follows from the invariant and the step.

**Radio** (assumptions: every packet and title of the source has an encoding; what
others publish are strings of bytes, any strings, those of another station among them).
`AirInv` and `GotInv` say of everything on its way or accepted who handed it over
and, if it is the station's own, that the station has published it, and that it is in `missed`
or `late` as the way it came demands. `OrderInv` says of the own messages in
the air and of those accepted that each kind comes once, and those that come in
their turn after all lower numbers, across both; a message that is late or relayed
has no place in that order. With `GotInv` it gives `PlaysInOrder`.

`SeenInv` says that every message published was missed in its turn, is accepted or
is in the air in its turn, which gives `StaleOnlyIfMissed`: what is accepted and not
shown either waits behind the title shown or was replaced by it, and then `OrderInv`
says that the replacement did not come in its turn. `SeenInv` says further that
*before a title* in the air or in the listener all those packets are that the title may
not pass in the streamer; this holds of a title that comes late too, which
only has more packets before it. Together with `PlayInv`, that at most `AudioCap`
accepted packets wait before the title shown, `TitleLead` follows: the packets up to the
title's place that are not given to the pipeline are among those the streamer let
pass (at most `Lead`), those that wait and those that were missed, and the bound is a
count of that union. Decoding what was encoded is `RoundTrip` at every use.

**Codec** (assumptions: 0 and 1 are bytes, text is made of bytes). `RoundTrip`: what
is encoded decodes to the same message. `Canonical`: what decodes is the encoding
of what it decodes to, so no two byte strings carry the same message. Both rest on
two lemmas about putting a tag in front of a string and taking it off.

**Only model-checked.** Liveness (`CatchesUp`, `MutexReleased`, `SwarmUnblocked`,
`InterruptEnds`, `FailureEnds`, `TitleDelivered`, `AlwaysEnds`, `TitleArrives`),
because TLAPS handles neither fairness nor ENABLED; and the disagreements above,
which are counterexamples. No module uses RECURSIVE.

## 5. What is not modelled

* GStreamer's elements (jitter buffer, depayloader, muxer, parsers) beyond what
  reaches the appsink, the bus and the source's pads. The queue inside the
  decoding appsrc, which has no limit in the code, belongs to them.
* The weak references of callbacks: an upgrade fails only when the pipeline is
  disposed of, and then nobody is left to observe what the callback does.
* Panics of tasks and poisoned locks: nothing in the critical sections can panic
  short of running out of memory. A task's panic is its failure in the models.
* The QUIC transport, gossipsub's mesh maintenance and peer exchange, and of its
  recovery of lost messages (IHAVE, IWANT) the heartbeat, the length of the cache's
  history and the choice of whom to offer what: `Resend` may come at any time, for
  any message that a node has and its peer has not. Identify, ping and kademlia, for
  whose events the code has no handler.
* The early return for a message without a sequence number: gossipsub's strict
  validation, which the code selects, lets none through.
* The RPC methods, which return constants of the node; metrics, a registry that
  libp2p fills and the program prints; argument parsing, which ends the program
  before any state exists; the error types.

## 6. Plan

1. Done: the stream server with its abstract specification and proofs; the ICY body
   with proofs; both nodes with start-up, each shown by TLC to implement its
   abstract specification; the network; the codec with proofs; the radio end to
   end; the source's dynamic links.
2. Done: proofs of the safety properties of every module, and of the refinements
   of `LiveJoin`, `Intake` and `Feed`.
3. Next: theorems about the abstract specifications themselves, so that what holds
   for every implementation of `Intake` and `Feed` is stated once; `Radio` proves its
   part of it, `TakenInv` and `PlayInv`, on its own, and so does `StreamerNode`.
4. Next: invariants that the liveness arguments rest on and that are safety
   properties, such as who can be waiting for whom when a node shuts down.
