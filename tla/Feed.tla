-------------------------------- MODULE Feed --------------------------------
(***************************************************************************)
(* What a streamer node hands to the network, with no thread, channel or   *)
(* task in sight: every audio packet of the source in order and without a  *)
(* gap, and between them titles that only move forward.  A title may be    *)
(* skipped for a newer one, and it may pass packets made before it, but no *)
(* more than Lead of them.                                                 *)
(*                                                                         *)
(* A message is a pair: "audio" and the packet's number, or "title" and    *)
(* the title's.                                                            *)
(***************************************************************************)
EXTENDS Naturals, Sequences

CONSTANTS
  Lead,        \* packets a title may pass
  MaxPackets,  \* bound: how many packets the source makes
  MaxTitles    \* bound: how many title tags it posts

VARIABLES
  made,   \* packets the source has made
  tagAt,  \* tagAt[t]: how many packets had been made when title t was posted
  taken   \* what the swarm took to publish, oldest first

vars == <<made, tagAt, taken>>

Messages == ({"audio"} \X (1..MaxPackets)) \cup ({"title"} \X (1..MaxTitles))

Numbers(kind) == {taken[i][2] : i \in {j \in 1..Len(taken) : taken[j][1] = kind}}

(* The last packet and the last title taken; both grow. *)
Last(kind) ==
  LET ns == {0} \cup Numbers(kind)
  IN  CHOOSE n \in ns : \A k \in ns : k <= n

Init == made = 0 /\ tagAt = <<>> /\ taken = <<>>

Make ==
  /\ made < MaxPackets
  /\ made' = made + 1
  /\ UNCHANGED <<tagAt, taken>>

Tag ==
  /\ Len(tagAt) < MaxTitles
  /\ tagAt' = Append(tagAt, made)
  /\ UNCHANGED <<made, taken>>

Take(m) ==
  /\ \/ m[1] = "audio" /\ m[2] = Last("audio") + 1 /\ m[2] <= made
     \/ /\ m[1] = "title" /\ m[2] > Last("title") /\ m[2] <= Len(tagAt)
        /\ tagAt[m[2]] <= Last("audio") + Lead
  /\ taken' = Append(taken, m)
  /\ UNCHANGED <<made, tagAt>>

Next == Make \/ Tag \/ \E m \in Messages : Take(m)

Spec == Init /\ [][Next]_vars
=============================================================================
