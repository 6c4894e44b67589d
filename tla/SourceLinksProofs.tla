------------------------- MODULE SourceLinksProofs -------------------------
(***************************************************************************)
(* SourceLinks for any number of pads: the payloader ends every callback   *)
(* with the newest stream or an error, an error is posted only for a pad   *)
(* that cannot be used, and a silent source has no pad it should play.     *)
(***************************************************************************)
EXTENDS SourceLinks, TLAPS

LEMMA TypeInit == Init => TypeOK
<1> SUFFICES ASSUME Init PROVE TypeOK
  OBVIOUS
<1>1. at \in [Bins -> {"idle", "check", "unlink", "link"}]
  BY DEF Init
<1>2. /\ newest \in [Bins -> 0..MaxPads] /\ peer \in [Bins -> {0} \cup Pads]
      /\ there \in [Bins -> SUBSET Pads] /\ unfit \in [Bins -> SUBSET Pads]
      /\ late \in [Bins -> SUBSET Pads]
  BY MaxPadsAssumption DEF Init, Pads
<1> QED
  BY <1>1, <1>2 DEF Init, TypeOK

LEMMA TypeStep == TypeOK /\ [Next]_vars => TypeOK'
<1> SUFFICES ASSUME TypeOK, [Next]_vars PROVE TypeOK'
  OBVIOUS
<1> USE MaxPadsAssumption DEF TypeOK, Pads
<1>1. ASSUME NEW b \in Bins, PadAdded(b) PROVE TypeOK'
  <2>1. newest[b] + 1 \in Pads /\ newest' = [newest EXCEPT ![b] = newest[b] + 1]
    BY <1>1 DEF PadAdded
  <2>2. /\ there' = [there EXCEPT ![b] = @ \cup {newest[b] + 1}]
        /\ \E bad \in {{}, {newest[b] + 1}} : unfit' = [unfit EXCEPT ![b] = @ \cup bad]
        /\ \E bad \in {{}, {newest[b] + 1}} : late' = [late EXCEPT ![b] = @ \cup bad]
    BY <1>1 DEF PadAdded
  <2>3. /\ at' = [at EXCEPT ![b] = "check"] /\ UNCHANGED <<peer, old, error>>
    BY <1>1 DEF PadAdded
  <2> QED
    BY <2>1, <2>2, <2>3
<1>2. ASSUME NEW b \in Bins, NEW pad \in there[b], PadRemoved(b, pad) PROVE TypeOK'
  BY <1>2 DEF PadRemoved, LinkCut
<1>3. CASE KeepLink
  BY <1>3 DEF KeepLink, Goes, ToLink
<1>4. CASE FindOld
  BY <1>4 DEF FindOld, Goes, NextPlace, Bins
<1>5. CASE UnlinkOld
  BY <1>5 DEF UnlinkOld, Goes, LinkCut, Bins
<1>6. ASSUME NEW b \in Bins, Link(b) PROVE TypeOK'
  BY <1>6 DEF Link, Goes, Linkable, Posts
<1>7. CASE UNCHANGED vars
  BY <1>7 DEF vars
<1> QED
  BY <1>1, <1>2, <1>3, <1>4, <1>5, <1>6, <1>7 DEF Next

(* Every pad that a bin has, that is unfit or that is linked was added.    *)
THEOREM TypeCorrect == Spec => []TypeOK
BY TypeInit, TypeStep, PTL DEF Spec

-----------------------------------------------------------------------------
(* parsebin's callback: a link it has found is the one it unlinks, if the  *)
(* pad is still there, and when it comes to link none is left.  So what it *)
(* posts an error for is the pad itself.                                   *)
ParseInv ==
  /\ at["parsebin"] = "unlink" => peer["parsebin"] \in {0, old}
  /\ at["parsebin"] = "link" => peer["parsebin"] = 0
  /\ NewestOnAir

(* urisourcebin's: a pad that is not linked is late or unfit, except the   *)
(* newest while the callback is busy with it; if that one finds a link, it *)
(* was there when the pad was added.                                       *)
SourceInv ==
  LET b == "urisourcebin"
  IN  /\ at[b] = "link" => peer[b] = 0
      /\ at[b] = "check" /\ peer[b] # 0 => newest[b] \in late[b]
      /\ \A pad \in there[b] :
           \/ pad \in {peer[b]} \cup late[b] \cup unfit[b]
           \/ at[b] # "idle" /\ pad = newest[b]

IInv == TypeOK /\ ParseInv /\ SourceInv

LEMMA InvInit == Init => IInv
BY TypeInit DEF Init, IInv, ParseInv, SourceInv, NewestOnAir, Bins

LEMMA ParseStep == TypeOK /\ ParseInv /\ [Next]_vars => ParseInv'
<1> SUFFICES ASSUME TypeOK, ParseInv, [Next]_vars PROVE ParseInv'
  OBVIOUS
<1> USE DEF TypeOK, ParseInv, NewestOnAir, Bins, Goes
<1>1. ASSUME NEW b \in Bins, PadAdded(b) PROVE ParseInv'
  <2>1. /\ at' = [at EXCEPT ![b] = "check"] /\ UNCHANGED <<peer, old, error>>
        /\ b # "parsebin" => /\ newest'["parsebin"] = newest["parsebin"]
                             /\ there'["parsebin"] = there["parsebin"]
    BY <1>1 DEF PadAdded
  <2> QED
    BY <2>1
<1>2. ASSUME NEW b \in Bins, NEW pad \in there[b], PadRemoved(b, pad) PROVE ParseInv'
  BY <1>2 DEF PadRemoved, LinkCut
<1>3. CASE KeepLink
  BY <1>3 DEF KeepLink
<1>4. CASE FindOld
  BY <1>4 DEF FindOld, NextPlace
<1>5. CASE UnlinkOld
  BY <1>5 DEF UnlinkOld, LinkCut
<1>6. ASSUME NEW b \in Bins, Link(b) PROVE ParseInv'
  BY <1>6 DEF Link, Linkable, Posts
<1>7. CASE UNCHANGED vars
  BY <1>7 DEF vars
<1> QED
  BY <1>1, <1>2, <1>3, <1>4, <1>5, <1>6, <1>7 DEF Next

LEMMA SourceStep == TypeOK /\ SourceInv /\ [Next]_vars => SourceInv'
<1> SUFFICES ASSUME TypeOK, SourceInv, [Next]_vars PROVE SourceInv'
  OBVIOUS
<1> USE DEF TypeOK, SourceInv, Bins, Goes
<1>1. ASSUME NEW b \in Bins, PadAdded(b) PROVE SourceInv'
  <2>1. /\ newest' = [newest EXCEPT ![b] = newest[b] + 1]
        /\ there' = [there EXCEPT ![b] = @ \cup {newest[b] + 1}]
        /\ \E bad \in {{}, {newest[b] + 1}} : unfit' = [unfit EXCEPT ![b] = @ \cup bad]
        /\ late' = [late EXCEPT ![b] = IF peer[b] = 0 THEN @ ELSE @ \cup {newest[b] + 1}]
    BY <1>1 DEF PadAdded
  <2>2. at[b] = "idle" /\ at' = [at EXCEPT ![b] = "check"] /\ peer' = peer
    BY <1>1 DEF PadAdded
  <2>3. CASE b = "urisourcebin"
    BY <2>1, <2>2, <2>3
  <2>4. CASE b = "parsebin"
    BY <2>1, <2>2, <2>4
  <2> QED
    BY <2>3, <2>4
<1>2. ASSUME NEW b \in Bins, NEW pad \in there[b], PadRemoved(b, pad) PROVE SourceInv'
  BY <1>2 DEF PadRemoved, LinkCut
<1>3. CASE KeepLink
  BY <1>3 DEF KeepLink, ToLink
<1>4. CASE FindOld
  BY <1>4 DEF FindOld
<1>5. CASE UnlinkOld
  BY <1>5 DEF UnlinkOld
<1>6. ASSUME NEW b \in Bins, Link(b) PROVE SourceInv'
  BY <1>6 DEF Link, Linkable
<1>7. CASE UNCHANGED vars
  BY <1>7 DEF vars
<1> QED
  BY <1>1, <1>2, <1>3, <1>4, <1>5, <1>6, <1>7 DEF Next

(* The inductive invariant holds in every reachable state. *)
THEOREM Invariance == Spec => []IInv
<1>1. IInv /\ [Next]_vars => IInv'
  BY TypeStep, ParseStep, SourceStep DEF IInv
<1> QED
  BY InvInit, <1>1, PTL DEF Spec

-----------------------------------------------------------------------------
(* However many pads come and go during parsebin's callback, and in        *)
(* whatever order with its calls, the newest is on the air afterwards, or  *)
(* an error was posted.                                                    *)
THEOREM NewestAlwaysOnAir == Spec => []NewestOnAir
<1>1. IInv => NewestOnAir
  BY DEF IInv, ParseInv
<1> QED
  BY Invariance, <1>1, PTL

(* A source that is linked to nothing has no usable pad but late ones.     *)
THEOREM SilentAlwaysLate == Spec => []SilentOnlyIfLate
<1>1. IInv => SilentOnlyIfLate
  BY DEF IInv, SourceInv, SilentOnlyIfLate, TypeOK, Bins
<1> QED
  BY Invariance, <1>1, PTL

(* The callback ends the node only for a pad that is not there any more or *)
(* does not carry what the payloader takes: never because of the link it   *)
(* was to replace.                                                         *)
THEOREM ErrorAlwaysMeansUnusable == Spec => ErrorMeansUnusable
<1>1. ASSUME IInv, [Next]_vars, error', ~error
      PROVE  newest["parsebin"] \notin there["parsebin"] \ unfit["parsebin"]
  <2>1. PICK b \in Bins : Link(b)
    BY <1>1 DEF Next, vars, PadAdded, PadRemoved, KeepLink, FindOld, UnlinkOld
  <2>2. b = "parsebin" /\ ~Linkable(b) /\ at[b] = "link"
    BY <1>1, <2>1 DEF Link, Posts
  <2> QED
    BY <1>1, <2>2 DEF Linkable, IInv, ParseInv
<1>2. IInv /\ [Next]_vars =>
        [error' /\ ~error =>
           newest["parsebin"] \notin there["parsebin"] \ unfit["parsebin"]]_vars
  BY <1>1
<1> QED
  BY Invariance, <1>2, PTL DEF Spec, ErrorMeansUnusable
=============================================================================
