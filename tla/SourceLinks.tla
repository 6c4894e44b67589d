---------------------------- MODULE SourceLinks ----------------------------
(***************************************************************************)
(* How the streamer's pipeline joins its parts while it plays              *)
(* (create_icecast_pipeline in backend/icecast_ogg.rs).  urisourcebin and  *)
(* parsebin add and remove source pads as the station's stream comes and   *)
(* changes; two pad-added callbacks link them to the sink of the next      *)
(* element.  The first callback keeps a link that is there, the second     *)
(* replaces it.  Every call on a pad is atomic by the pad's own lock, but  *)
(* a callback makes several, and pads are removed by other threads.        *)
(*                                                                         *)
(* The pads of a bin are numbered in the order they are added.             *)
(***************************************************************************)
EXTENDS Naturals

CONSTANT MaxPads   \* bound: pads that each bin adds

ASSUME MaxPadsAssumption == MaxPads \in Nat

VARIABLES
  newest,   \* newest[b]: the pads bin b has added
  there,    \* there[b]: those it has not removed
  unfit,    \* unfit[b]: those whose caps do not suit the sink
  peer,     \* peer[b]: the pad linked to the sink after b, 0 for none
  at,       \* at[b]: where b's callback is
  old,      \* the peer that parsebin's callback is about to unlink
  late,     \* late[b]: those added while another was linked
  error     \* parsebin's callback posted an element error

vars == <<newest, there, unfit, late, peer, at, old, error>>

Bins == {"urisourcebin", "parsebin"}
Pads == 1..MaxPads

TypeOK ==
  /\ newest \in [Bins -> 0..MaxPads]
  /\ there \in [Bins -> SUBSET Pads] /\ unfit \in [Bins -> SUBSET Pads]
  /\ late \in [Bins -> SUBSET Pads] /\ peer \in [Bins -> {0} \cup Pads]
  /\ \A b \in Bins : there[b] \cup unfit[b] \cup late[b] \subseteq 1..newest[b]
  /\ \A b \in Bins : peer[b] \in {0} \cup there[b]
  /\ at \in [Bins -> {"idle", "check", "unlink", "link"}]
  /\ old \in {0} \cup Pads /\ error \in BOOLEAN

Init ==
  /\ newest = [b \in Bins |-> 0] /\ there = [b \in Bins |-> {}]
  /\ unfit = [b \in Bins |-> {}] /\ late = [b \in Bins |-> {}]
  /\ peer = [b \in Bins |-> 0] /\ at = [b \in Bins |-> "idle"] /\ old = 0
  /\ error = FALSE

-----------------------------------------------------------------------------
(* GStreamer.  A bin adds pads one at a time, and parsebin only while it   *)
(* is given data; it removes them whenever the stream changes, which       *)
(* unlinks them.                                                           *)

PadAdded(b) ==
  /\ at[b] = "idle" /\ newest[b] < MaxPads
  /\ b = "parsebin" => peer["urisourcebin"] # 0
  /\ LET pad == newest[b] + 1 IN
       /\ newest' = [newest EXCEPT ![b] = pad]
       /\ there' = [there EXCEPT ![b] = @ \cup {pad}]
       /\ \E bad \in {{}, {pad}} : unfit' = [unfit EXCEPT ![b] = @ \cup bad]
       /\ late' = [late EXCEPT ![b] = IF peer[b] = 0 THEN @ ELSE @ \cup {pad}]
  /\ at' = [at EXCEPT ![b] = "check"]
  /\ UNCHANGED <<peer, old, error>>

LinkLeft(b, pad) == peer[b]              \* mutant: a removed pad stays linked

LinkCut(b, pad) == IF peer[b] = pad THEN 0 ELSE peer[b]

PadRemoved(b, pad) ==
  /\ there' = [there EXCEPT ![b] = @ \ {pad}]
  /\ peer' = [peer EXCEPT ![b] = LinkCut(b, pad)]
  /\ UNCHANGED <<newest, unfit, late, at, old, error>>

-----------------------------------------------------------------------------
(* The callbacks. *)

Goes(b, place) == at' = [at EXCEPT ![b] = place]

ToLinkInverted == peer["urisourcebin"] # 0    \* mutant: the "not" is lost

ToLink == peer["urisourcebin"] = 0

(* urisourcebin: nothing to do while parsebin's sink is linked. *)
KeepLink ==
  /\ at["urisourcebin"] = "check"
  /\ Goes("urisourcebin", IF ToLink THEN "link" ELSE "idle")
  /\ UNCHANGED <<newest, there, unfit, late, peer, old, error>>

SkipUnlink == "link"                     \* mutant: the old pad is left linked

NextPlace == IF peer["parsebin"] = 0 THEN "link" ELSE "unlink"

(* parsebin: is_linked and then peer, which counts: a pad that was removed *)
(* in between is no peer any more.                                         *)
FindOld ==
  /\ at["parsebin"] = "check"
  /\ old' = peer["parsebin"]
  /\ Goes("parsebin", NextPlace)
  /\ UNCHANGED <<newest, there, unfit, late, peer, error>>

(* An error, because the old pad was removed meanwhile, is only logged. *)
UnlinkOld ==
  /\ at["parsebin"] = "unlink"
  /\ peer' = [peer EXCEPT !["parsebin"] = LinkCut("parsebin", old)]
  /\ Goes("parsebin", "link") /\ old' = 0
  /\ UNCHANGED <<newest, there, unfit, late, error>>

Linkable(b) == peer[b] = 0 /\ newest[b] \in there[b] \ unfit[b]

PostsNothing(b) == FALSE                 \* mutant: this failure is only logged, too

(* urisourcebin's callback logs the failure, parsebin's posts an error.    *)
Posts(b) == b = "parsebin"

Link(b) ==
  /\ at[b] = "link" /\ Goes(b, "idle")
  /\ \/ /\ Linkable(b)
        /\ peer' = [peer EXCEPT ![b] = newest[b]] /\ UNCHANGED error
     \/ ~Linkable(b) /\ error' = (error \/ Posts(b)) /\ UNCHANGED peer
  /\ UNCHANGED <<newest, there, unfit, late, old>>

-----------------------------------------------------------------------------
Next ==
  \/ \E b \in Bins : PadAdded(b) \/ Link(b) \/ \E pad \in there[b] : PadRemoved(b, pad)
  \/ KeepLink \/ FindOld \/ UnlinkOld

Spec == Init /\ [][Next]_vars

-----------------------------------------------------------------------------
(* Properties. *)

(* Whichever pads come and go during the callback, it ends with the newest *)
(* stream on the air, or with an error that ends the node: the payloader   *)
(* is never left with an old stream, or with none, while a newer one is    *)
(* there to be linked.                                                     *)
NewestOnAir ==
  at["parsebin"] = "idle" /\ ~error /\ newest["parsebin"] \in there["parsebin"] =>
    peer["parsebin"] = newest["parsebin"]

(* A stream that follows another does not end the node: an error is posted *)
(* only for a pad that is not Opus, or is removed before it is linked.     *)
ErrorMeansUnusable ==
  [][error' /\ ~error =>
       newest["parsebin"] \notin there["parsebin"] \ unfit["parsebin"]]_vars

(* The pipeline is left without a source only if it has none, or if every  *)
(* pad it has is unfit or came while another was linked: such a pad is not *)
(* looked at again when that other one goes.                               *)
SilentOnlyIfLate ==
  at["urisourcebin"] = "idle" /\ peer["urisourcebin"] = 0 =>
    there["urisourcebin"] \subseteq late["urisourcebin"] \cup unfit["urisourcebin"]
=============================================================================
