------------------------------- MODULE Intake -------------------------------
(***************************************************************************)
(* What a listener node makes of the messages its swarm accepts, with no   *)
(* channel or task in sight: audio reaches the decoding pipeline in order  *)
(* and without a gap, and the title beside it is at every moment at least  *)
(* the one announced before the next packet, and at most AudioCap packets  *)
(* ahead of it.                                                            *)
(*                                                                         *)
(* A message is named by its position in what was accepted.                *)
(***************************************************************************)
EXTENDS Naturals, Sequences, FiniteSets

CONSTANTS
  AudioCap,  \* capacity of the channel to the decoder
  MaxMsgs    \* bound: how many messages are accepted

VARIABLES
  heard,    \* kinds of the messages accepted so far
  title,    \* the shared title: a message, 0 is the empty string
  pushed,   \* the packets pushed into the pipeline, oldest first
  playing   \* the decoder has not ended

vars == <<heard, title, pushed, playing>>

Kinds == {"audio", "title"}

LastPushed == IF pushed = <<>> THEN 0 ELSE pushed[Len(pushed)]

(* Message n is the first of its kind after message k. *)
Follows(n, k, kind) ==
  /\ n \in k+1..Len(heard) /\ heard[n] = kind
  /\ \A m \in k+1..n-1 : heard[m] # kind

(* The packets accepted before message n that are still to be pushed. *)
Waiting(n) == {m \in LastPushed+1..n-1 : heard[m] = "audio"}

AlwaysRoom(n) == TRUE                    \* mutant: the channel has no bound

RoomFor(n) == playing => Cardinality(Waiting(n)) <= AudioCap

Init == heard = <<>> /\ title = 0 /\ pushed = <<>> /\ playing = TRUE

Hear(kind) ==
  /\ Len(heard) < MaxMsgs
  /\ heard' = Append(heard, kind)
  /\ UNCHANGED <<title, pushed, playing>>

SetTitle(n) ==
  /\ Follows(n, title, "title")
  /\ RoomFor(n)
  /\ title' = n
  /\ UNCHANGED <<heard, pushed, playing>>

Push(n) ==
  /\ playing
  /\ Follows(n, LastPushed, "audio")
  /\ \A m \in 1..n : heard[m] = "title" => m <= title
  /\ pushed' = Append(pushed, n)
  /\ UNCHANGED <<heard, title, playing>>

Stop ==
  /\ playing
  /\ playing' = FALSE
  /\ UNCHANGED <<heard, title, pushed>>

Next ==
  \/ \E kind \in Kinds : Hear(kind)
  \/ \E n \in 1..Len(heard) : SetTitle(n) \/ Push(n)
  \/ Stop

Spec == Init /\ [][Next]_vars
=============================================================================
