------------------------------- MODULE Radio -------------------------------
(***************************************************************************)
(* A station and one listener, end to end.  The station is a Feed, the     *)
(* listener an Intake; between them the messages travel as bytes (Codec),  *)
(* which is what GossipNetwork leaves of the network for a listener's own  *)
(* station: a message comes in its turn, or late because the listener has  *)
(* asked for what it lacks (IHAVE, IWANT), or not at all, and among them   *)
(* come messages of others that the station relays.                        *)
(*                                                                         *)
(* Both may be started again.  Every process makes itself a new key        *)
(* (SwarmBuilder::with_new_identity), so a station that comes back is      *)
(* another peer, while a listener stays with the peer id it was given on   *)
(* its command line.  Nothing is published twice: a listener that starts   *)
(* late has missed what was published before, unless it gets it late.      *)
(***************************************************************************)
EXTENDS Codec, FiniteSets

CONSTANTS
  Lead,         \* packets a title may pass in the station
  AudioCap,     \* capacity of the listener's channel to its decoder
  MaxPackets, MaxTitles,      \* bounds of the Feed
  Strays,       \* bytes that others on the topic publish
  MaxAir,       \* bound: messages on their way at a time
  MaxFaults     \* bound: losses, late messages, strays, and nodes that stop

VARIABLES
  made, tagAt, taken,       \* the station's process, see Feed
  station,                  \* its peer id: its number among the station's processes
  missed,                   \* its messages the listener did not get in their turn
  late,                     \* those of them it was handed on request
  air,                      \* on their way to the listener: <<peer, bytes, way>>
  tuned,                    \* --streamer-peer-id
  got,                      \* messages it accepted: <<peer, message, way>>
  title, pushed, playing,   \* the listener's process, see Intake
  faults                    \* losses, late messages, strays, and stops, so far

feed == <<made, tagAt, taken>>
intake == <<got, title, pushed, playing>>
vars == <<feed, station, missed, late, air, tuned, intake, faults>>

F == INSTANCE Feed

Kind(n) == got[n][2][1]
Number(n) == got[n][2][2][1]

(* How a message came, which the listener cannot tell and only the         *)
(* properties look at: from the peer that handed it over, in its turn or   *)
(* late, or from somebody else.                                            *)
Ways == {"turn", "late", "relayed"}
Own(entry) == entry[3] # "relayed"

(* Every packet and title of the source has an encoding.  Others publish   *)
(* what they like, messages of another station among it.                   *)
ASSUME BoundAssumption ==
  {Lead, AudioCap, MaxPackets, MaxTitles, MaxFaults} \subseteq Nat
ASSUME SourceAssumption == \A m \in F!Messages : <<m[1], <<m[2]>>>> \in Message
ASSUME StraysAssumption == Strays \subseteq Seq(Byte)

L == INSTANCE Intake WITH
       heard <- [n \in 1..Len(got) |-> Kind(n)],
       MaxMsgs <- MaxPackets + MaxTitles + MaxFaults

Peers == 1..MaxFaults+1

TypeOK ==
  /\ made \in 0..MaxPackets /\ tagAt \in Seq(0..made) /\ taken \in Seq(F!Messages)
  /\ station \in Peers /\ missed \subseteq F!Messages /\ late \subseteq missed
  /\ air \in Seq(Peers \X Seq(Byte) \X Ways)
  /\ tuned \in {0} \cup Peers /\ faults \in 0..MaxFaults
  /\ got \in Seq(Peers \X Message \X Ways)
  /\ title \in 0..Len(got) /\ pushed \in Seq(1..Len(got)) /\ playing \in BOOLEAN

Init ==
  /\ F!Init
  /\ station = 1 /\ missed = {} /\ late = {} /\ air = <<>> /\ tuned = 0 /\ faults = 0
  /\ got = <<>> /\ title = 0 /\ pushed = <<>> /\ playing = FALSE

-----------------------------------------------------------------------------
(* The station. *)

Fault == faults < MaxFaults /\ faults' = faults + 1

SourceGoesOn ==
  /\ F!Make \/ F!Tag
  /\ UNCHANGED <<station, missed, late, air, tuned, intake, faults>>

Bytes(m) == Encode(<<m[1], <<m[2]>>>>)

Reaches(bytes, way) ==
  /\ playing /\ Len(air) < MaxAir
  /\ air' = Append(air, <<station, bytes, way>>)

(* The message reaches the listener in its turn, or not: publish fails     *)
(* without a peer and is only traced, the connection closes.               *)
Publish(m) ==
  /\ F!Take(m)
  /\ \/ Reaches(Bytes(m), "turn") /\ UNCHANGED <<missed, faults>>
     \/ playing /\ Fault /\ missed' = missed \cup {m} /\ UNCHANGED air
     \/ ~playing /\ UNCHANGED <<missed, air, faults>>
  /\ UNCHANGED <<station, late, tuned, intake>>

(* The listener asks for a message it lacks and the station still has, and *)
(* gets it behind whatever was published since.                            *)
Resend(m) ==
  /\ m \in missed \ late
  /\ Fault /\ Reaches(Bytes(m), "late")
  /\ late' = late \cup {m}
  /\ UNCHANGED <<feed, station, missed, tuned, intake>>

(* Somebody else's message on the topic, of another station or of another  *)
(* program, which the station's gossipsub relays.                          *)
PassOn(bytes) ==
  /\ Fault /\ Reaches(bytes, "relayed")
  /\ UNCHANGED <<feed, station, missed, late, tuned, intake>>

SameIdentity == station                  \* mutant: the key is kept

NewIdentity == station + 1

StationRestarts ==
  /\ Fault
  /\ station' = NewIdentity
  /\ made' = 0 /\ tagAt' = <<>> /\ taken' = <<>> /\ missed' = {} /\ late' = {}
  /\ UNCHANGED <<air, tuned, intake>>

-----------------------------------------------------------------------------
(* The listener. *)

Off == air' = <<>> /\ late' = {} /\ got' = <<>> /\ title' = 0 /\ pushed' = <<>>

(* With the id of this station or, by an old note, of an earlier one. *)
ListenerStarts ==
  /\ ~playing /\ playing' = TRUE /\ Off
  /\ tuned' \in 1..station
  /\ missed' = {taken[i] : i \in 1..Len(taken)}
  /\ UNCHANGED <<feed, station, faults>>

ListenerStops ==
  /\ playing /\ Fault
  /\ playing' = FALSE /\ Off
  /\ tuned' = 0 /\ missed' = {}
  /\ UNCHANGED <<feed, station>>

TrustedAll(peer) == TRUE                 \* mutant: no check of the peer

TrustedNone(peer) == peer = 0            \* mutant: compares with its own id

Trusted(peer) == peer = tuned

(* process_gossip_sub_event *)
Arrive ==
  /\ playing /\ air # <<>>
  /\ air' = Tail(air)
  /\ LET peer == Head(air)[1]
         msg == Decode(Head(air)[2])
     IN  IF Trusted(peer) /\ msg # Invalid
         THEN got' = Append(got, <<peer, msg, Head(air)[3]>>) /\ L!Hear(msg[1])
         ELSE UNCHANGED intake
  /\ UNCHANGED <<feed, station, missed, late, tuned, faults>>

ListenerPlays ==
  /\ playing
  /\ UNCHANGED <<feed, station, missed, late, air, tuned, got, faults>>
  /\ \E n \in 1..Len(got) : L!SetTitle(n) \/ L!Push(n)

-----------------------------------------------------------------------------
Next ==
  \/ SourceGoesOn \/ \E m \in F!Messages : Publish(m) \/ Resend(m)
  \/ \E bytes \in Strays : PassOn(bytes)
  \/ StationRestarts \/ ListenerStarts \/ ListenerStops
  \/ Arrive \/ ListenerPlays

Spec == Init /\ [][Next]_vars

(* What is in the air arrives, and the listener's tasks are polled.        *)
FairSpec == Spec /\ WF_vars(Arrive) /\ WF_vars(ListenerPlays)

-----------------------------------------------------------------------------
(* Properties. *)

Shown == IF title = 0 \/ ~Own(got[title]) THEN 0 ELSE Number(title)

Pushed(k) == \E i \in 1..Len(pushed) : Own(got[pushed[i]]) /\ Number(pushed[i]) = k

(* What a listener plays was handed over by the process it was tuned to,   *)
(* whoever was started again meanwhile and whatever of an earlier process  *)
(* is still in the air.  What that process recorded itself is played once  *)
(* and in the order of recording, but for packets that came late: the      *)
(* listener neither reorders them nor leaves them out.  Played means given *)
(* to the pipeline, whose jitter buffer may still reorder what it holds.   *)
PlaysInOrder ==
  /\ \A i \in 1..Len(pushed) : got[pushed[i]][1] = tuned
  /\ \A i, j \in 1..Len(pushed) :
       i < j /\ Own(got[pushed[i]]) /\ Own(got[pushed[j]]) =>
         \/ Number(pushed[i]) < Number(pushed[j])
         \/ Number(pushed[i]) # Number(pushed[j]) /\ got[pushed[j]][3] = "late"

(* A title of the station's overtakes audio in both nodes, but while it is *)
(* shown no more than Lead + AudioCap of the packets before it are still   *)
(* to be given to the pipeline, not counting those that did not come in    *)
(* their turn.  What a client hears is behind that by what the pipeline    *)
(* and the player hold.                                                    *)
TitleLead ==
  tuned = station /\ playing /\ Shown > 0 =>
    Cardinality({k \in 1..tagAt[Shown] : ~Pushed(k) /\ <<"audio", k>> \notin missed})
      <= Lead + AudioCap

(* A listener shows an outdated title, or another station's, only for a    *)
(* reason: the newer one did not come in its turn, is on its way, or was   *)
(* replaced by the title shown, which came late or was relayed.  There is  *)
(* no other, and nothing but a later title cures it.                       *)
StaleOnlyIfMissed ==
  tuned = station /\ playing =>
    \A t \in F!Numbers("title") : t > Shown =>
      \/ <<"title", t>> \in missed
      \/ \E i \in 1..Len(air) : air[i] = <<station, Bytes(<<"title", t>>), "turn">>
      \/ \E n \in 1..Len(got) :
           /\ Own(got[n]) /\ Kind(n) = "title" /\ Number(n) = t
           /\ n > title \/ got[title][3] # "turn"

(* A title that has left its station is shown, if only until the next one, *)
(* as long as both nodes run: neither the audio queued before it nor what  *)
(* the station relays holds it for ever.                                   *)
TitleArrives ==
  \A t \in 1..MaxTitles :
    (tuned = station
      /\ \E i \in 1..Len(air) :
           Own(air[i]) /\ air[i][1] = tuned /\ air[i][2] = Bytes(<<"title", t>>))
      ~> (Shown = t \/ ~playing \/ tuned # station)
=============================================================================
