------------------------- MODULE ListenerNodeProofs -------------------------
(***************************************************************************)
(* ListenerNode for channels of any capacity and any number of messages:   *)
(* the type invariant, that nothing is lost while nothing has ended, that  *)
(* the program reports a cancellation only after an interrupt, and that    *)
(* the node implements Intake.                                             *)
(***************************************************************************)
EXTENDS ListenerNode, FiniteSetTheorems, SequenceTheorems, TLAPS

LEMMA TypeInit == Init => TypeOK
<1> SUFFICES ASSUME Init PROVE TypeOK
  OBVIOUS
<1>1. /\ <<>> \in Seq(Kinds) /\ <<>> \in Seq(Msgs) /\ Len(<<>>) = 0
  OBVIOUS
<1>2. result \in [Tasks -> {"run", "none", "err"}]
  BY DEF Init
<1>3. /\ heard \in Seq(Kinds) /\ Len(heard) <= MaxMsgs
      /\ gossip \in Seq(Msgs) /\ Len(gossip) <= GossipCap
      /\ audio \in Seq(Msgs) /\ Len(audio) <= AudioCap /\ pushed \in Seq(Msgs)
  BY <1>1, CapAssumption, MaxMsgsAssumption DEF Init
<1> QED
  BY <1>2, <1>3 DEF Init, TypeOK, Steps

(* A step that is only about the life of the node, and that neither the    *)
(* bridge nor the decoder takes: the messages stay where they are.         *)
LifeStep ==
  \/ MakeNext \/ MakeFails \/ SwarmCancelled \/ AxumCancelled \/ InfoStops
  \/ ServerReturns \/ NodeReturns \/ MainReturns \/ CtrlC \/ UNCHANGED vars

(* The decoder's steps that end it. *)
DecoderEnd ==
  /\ result["decoder"] = "run" /\ result'["decoder"] # "run"
  /\ result'["bridge"] = result["bridge"]
  /\ audio' = <<>> /\ UNCHANGED <<heard, sending, gossip, held, title, pushed>>

DecoderNext ==
  DecoderStart \/ DecoderPush \/ DecoderBus \/ DecoderCancelled \/ DecoderDropped

PushOnly ==
  /\ Runs("decoder") /\ pipeline = "playing" /\ audio # <<>>
  /\ pushed' = Append(pushed, Head(audio)) /\ audio' = Tail(audio)
  /\ UNCHANGED <<heard, sending, gossip, held, title, life>>

Frame ==
  /\ UNCHANGED data
  /\ result'["bridge"] = result["bridge"] /\ result'["decoder"] = result["decoder"]

LEMMA LifeFrame == TypeOK /\ LifeStep => Frame
<1> SUFFICES ASSUME TypeOK, LifeStep PROVE Frame
  OBVIOUS
<1> USE DEF Frame, TypeOK, Tasks, JustEnds, Ends
<1>1. CASE MakeNext \/ MakeFails \/ CtrlC \/ MainReturns
  BY <1>1 DEF MakeNext, MakeFails, CtrlC, MainReturns
<1>2. CASE SwarmCancelled \/ AxumCancelled \/ InfoStops
  BY <1>2 DEF SwarmCancelled, AxumCancelled, InfoStops
<1>3. CASE ServerReturns \/ NodeReturns
  BY <1>3 DEF ServerReturns, NodeReturns, FirstOf
<1>4. CASE UNCHANGED vars
  BY <1>4 DEF vars, life
<1> QED
  BY <1>1, <1>2, <1>3, <1>4 DEF LifeStep

LEMMA DecoderCases ==
  TypeOK /\ DecoderNext => Frame \/ PushOnly \/ DecoderEnd
<1> SUFFICES ASSUME TypeOK, DecoderNext PROVE Frame \/ PushOnly \/ DecoderEnd
  OBVIOUS
<1>1. ASSUME NEW r \in {"none", "err"}, Runs("decoder"), DecoderEnds(r) PROVE DecoderEnd
  BY <1>1 DEF DecoderEnds, Ends, Runs, DecoderEnd, TypeOK, Tasks
<1>2. CASE DecoderStart
  BY <1>1, <1>2 DEF DecoderStart, Frame
<1>3. CASE DecoderPush
  BY <1>1, <1>3 DEF DecoderPush, PushOnly
<1>4. CASE DecoderBus \/ DecoderCancelled \/ DecoderDropped
  BY <1>1, <1>4 DEF DecoderBus, DecoderCancelled, DecoderDropped
<1> QED
  BY <1>2, <1>3, <1>4 DEF DecoderNext

LEMMA TypeStep == TypeOK /\ [Next]_vars => TypeOK'
<1> SUFFICES ASSUME TypeOK, [Next]_vars PROVE TypeOK'
  OBVIOUS
<1> USE CapAssumption, MaxMsgsAssumption
<1>1. \A q \in Seq(Msgs) : q # <<>> => /\ Head(q) \in Msgs /\ Tail(q) \in Seq(Msgs)
                                      /\ Len(Tail(q)) = Len(q) - 1
  BY HeadTailProperties
<1>2. <<>> \in Seq(Msgs) /\ Len(<<>>) = 0
  OBVIOUS
<1>3. CASE MakeNext
  BY <1>3 DEF MakeNext, AfterStep, TypeOK, Steps, data
<1>4. ASSUME NEW t \in Tasks, NEW r \in {"run", "none", "err"}, Ends(t, r),
             UNCHANGED <<data, step, pipeline>>, cancel' \in BOOLEAN, fault' \in BOOLEAN
      PROVE  TypeOK'
  <2>1. result' \in [Tasks -> {"run", "none", "err"}]
    BY <1>4 DEF Ends, TypeOK
  <2> QED
    BY <1>4, <2>1 DEF TypeOK, data
<1>5. CASE MakeFails
  <2>1. result' \in [Tasks -> {"run", "none", "err"}]
    BY <1>5 DEF MakeFails, Ends, TypeOK
  <2> QED
    BY <1>5, <2>1 DEF MakeFails, TypeOK, data
<1>6. CASE SwarmAccept
  <2>1. heard' \in Seq(Kinds) /\ Len(heard') = Len(heard) + 1 /\ sending' \in Msgs
    BY <1>6 DEF SwarmAccept, TypeOK, Msgs
  <2> QED
    BY <1>6, <2>1 DEF SwarmAccept, TypeOK, Msgs, life
<1>7. CASE SwarmSend
  <2>1. gossip' \in Seq(Msgs) /\ Len(gossip') <= GossipCap
    <3>1. sending \in Msgs /\ Append(gossip, sending) \in Seq(Msgs)
                          /\ Len(Append(gossip, sending)) = Len(gossip) + 1
      BY <1>7, AppendProperties DEF SwarmSend, TypeOK
    <3>2. Len(gossip) < GossipCap => Len(gossip) + 1 <= GossipCap
      BY LenProperties DEF TypeOK
    <3> QED
      BY <1>7, <3>1, <3>2, Zenon DEF SwarmSend, TypeOK, HasRoom
  <2> QED
    BY <1>7, <2>1 DEF SwarmSend, TypeOK, life
<1>8. CASE SwarmCancelled \/ AxumCancelled \/ InfoStops
  <2>1. PICK t \in Tasks, r \in {"none", "err"} : JustEnds(t, r) /\ fault' \in BOOLEAN
    BY <1>8 DEF SwarmCancelled, AxumCancelled, InfoStops, Tasks, TypeOK
  <2> QED
    BY <1>4, <2>1 DEF JustEnds, TypeOK
<1>9. CASE BridgeRecv
  BY <1>1, <1>9 DEF BridgeRecv, NewTitle, TypeOK, life
<1>10. CASE BridgeSend
  <2>1. audio' \in Seq(Msgs) /\ Len(audio') <= AudioCap
    <3>1. held \in Msgs /\ Append(audio, held) \in Seq(Msgs)
                       /\ Len(Append(audio, held)) = Len(audio) + 1
      BY <1>10, AppendProperties DEF BridgeSend, TypeOK
    <3>2. Len(audio) < AudioCap => Len(audio) + 1 <= AudioCap
      BY LenProperties DEF TypeOK
    <3> QED
      BY <1>10, <3>1, <3>2, Zenon DEF BridgeSend, TypeOK, HasRoom
  <2> QED
    BY <1>10, <2>1 DEF BridgeSend, TypeOK, life
<1>11. CASE BridgeCancelled
  <2>1. result' \in [Tasks -> {"run", "none", "err"}]
    BY <1>11 DEF BridgeCancelled, Ends, TypeOK
  <2>2. gossip' \in Seq(Msgs) /\ Len(gossip') <= GossipCap
    BY <1>11, <1>2 DEF BridgeCancelled
  <2> QED
    BY <1>11, <2>1, <2>2 DEF BridgeCancelled, TypeOK
<1>12. ASSUME NEW r \in {"none", "err"}, DecoderEnds(r),
              pipeline' \in {"none", "ready", "playing", "null"}, fault' \in BOOLEAN
       PROVE  TypeOK'
  <2>1. result' \in [Tasks -> {"run", "none", "err"}]
    BY <1>12 DEF DecoderEnds, Ends, TypeOK
  <2>2. audio' \in Seq(Msgs) /\ Len(audio') <= AudioCap
    BY <1>12, <1>2 DEF DecoderEnds
  <2> QED
    BY <1>12, <2>1, <2>2 DEF DecoderEnds, TypeOK
<1>13. CASE DecoderStart
  BY <1>12, <1>13 DEF DecoderStart, TypeOK, data
<1>14. CASE PushOnly
  <2>1. audio' \in Seq(Msgs) /\ Len(audio') <= AudioCap /\ pushed' \in Seq(Msgs)
    BY <1>1, <1>14 DEF PushOnly, TypeOK, Msgs
  <2> QED
    BY <1>14, <2>1 DEF PushOnly, TypeOK, life
<1>15. CASE DecoderPush
  BY <1>12, <1>14, <1>15 DEF DecoderPush, PushOnly
<1>16. CASE DecoderBus \/ DecoderCancelled \/ DecoderDropped
  BY <1>12, <1>16 DEF DecoderBus, DecoderCancelled, DecoderDropped, TypeOK
<1>17. CASE ServerReturns \/ NodeReturns
  <2>1. PICK t \in Tasks, u \in Tasks : JustEnds(t, Handled(u)) /\ UNCHANGED fault
    BY <1>17 DEF ServerReturns, NodeReturns, FirstOf, Tasks
  <2>2. Handled(u) \in {"run", "none", "err"}
    BY DEF Handled, TypeOK
  <2> QED
    BY <1>4, <2>1, <2>2 DEF JustEnds, TypeOK
<1>18. CASE MainReturns
  <2>1. Ends("main", Handled("node")) /\ cancel' \in BOOLEAN /\ "main" \in Tasks
    BY <1>18 DEF MainReturns, Tasks
  <2>2. Handled("node") \in {"run", "none", "err"}
    BY DEF Handled, TypeOK, Tasks
  <2> QED
    BY <1>4, <1>18, <2>1, <2>2 DEF MainReturns, TypeOK
<1>19. CASE CtrlC
  BY <1>19 DEF CtrlC, TypeOK, data
<1>20. CASE UNCHANGED vars
  BY <1>20 DEF vars, data, life, TypeOK
<1> QED
  BY <1>3, <1>5, <1>6, <1>7, <1>8, <1>9, <1>10, <1>11, <1>13, <1>15, <1>16, <1>17,
     <1>18, <1>19, <1>20 DEF Next

(* Every variable keeps its type; in particular no channel ever holds more *)
(* than its capacity.                                                      *)
THEOREM TypeCorrect == Spec => []TypeOK
BY TypeInit, TypeStep, PTL DEF Spec

-----------------------------------------------------------------------------
(* What the results of the tasks say: nothing ends before an interrupt or  *)
(* a failure, and None is returned only after an interrupt.                *)
EndInv ==
  /\ ~cancel /\ ~fault => \A t \in Tasks : result[t] = "run"
  /\ \A t \in Tasks : result[t] = "none" => cancel

LEMMA EndStep == TypeOK /\ EndInv /\ [Next]_vars => EndInv'
<1> SUFFICES ASSUME TypeOK, EndInv, [Next]_vars PROVE EndInv'
  OBVIOUS
<1>1. ASSUME NEW t \in Tasks, NEW r, Ends(t, r), cancel => cancel', fault => fault',
             cancel' \/ fault', r = "none" => cancel'
      PROVE  EndInv'
  BY <1>1 DEF EndInv, Ends, TypeOK
<1>2. ASSUME UNCHANGED result, cancel => cancel', fault => fault' PROVE EndInv'
  BY <1>2 DEF EndInv
<1>3. CASE MakeNext \/ CtrlC \/ UNCHANGED vars
  BY <1>2, <1>3 DEF MakeNext, CtrlC, vars, life
<1>4. CASE MakeFails
  BY <1>1, <1>4 DEF MakeFails, Tasks
<1>5. CASE SwarmAccept \/ SwarmSend \/ BridgeRecv \/ BridgeSend \/ PushOnly
  BY <1>2, <1>5 DEF SwarmAccept, SwarmSend, BridgeRecv, BridgeSend, PushOnly, life
<1>6. CASE SwarmCancelled \/ AxumCancelled \/ BridgeCancelled
  BY <1>1, <1>6 DEF SwarmCancelled, AxumCancelled, BridgeCancelled, JustEnds, Signalled,
                    Tasks
<1>7. CASE InfoStops
  BY <1>1, <1>7 DEF InfoStops, JustEnds, Tasks
<1>8. CASE DecoderStart \/ DecoderPush
  BY <1>1, <1>2, <1>5, <1>8 DEF DecoderStart, DecoderPush, PushOnly, DecoderEnds, Tasks
<1>9. CASE DecoderBus \/ DecoderCancelled \/ DecoderDropped
  BY <1>1, <1>9 DEF DecoderBus, DecoderCancelled, DecoderDropped, DecoderEnds, Signalled,
                    Tasks
<1>10. CASE ServerReturns \/ NodeReturns
  <2>1. PICK t \in Tasks, u \in Tasks :
          result[u] # "run" /\ JustEnds(t, Handled(u)) /\ UNCHANGED fault
    BY <1>10 DEF ServerReturns, NodeReturns, FirstOf, Tasks
  <2>2. (cancel \/ fault) /\ (Handled(u) = "none" => cancel)
    BY <2>1 DEF EndInv, Handled, TypeOK
  <2> QED
    BY <1>1, <2>1, <2>2 DEF JustEnds
<1>11. CASE MainReturns
  BY <1>1, <1>11 DEF MainReturns, Tasks
<1> QED
  BY <1>3, <1>4, <1>5, <1>6, <1>7, <1>8, <1>9, <1>10, <1>11 DEF Next

-----------------------------------------------------------------------------
(* Where the messages are.  The bridge has dealt with the first k of what  *)
(* was accepted: everything after them is in the swarm's hands or in the   *)
(* first channel, and the title is the last one among them.  While the     *)
(* decoder lives, the packets among them are in the pipeline up to the     *)
(* last one pushed, then in the second channel, and the k-th message may   *)
(* be in the bridge's hands.                                               *)
(*                                                                         *)
(* When the bridge is cut off with a packet in its hands, the packet is    *)
(* gone and it has dealt with one message less.  Thus k is not a function  *)
(* of the state, and the invariant says that there is one.                 *)

Last == Promise!LastPushed
Pending == IF sending = 0 THEN 0 ELSE 1

SwarmInv == sending # 0 => sending = Len(heard)

GossipFlow(k) ==
  result["bridge"] = "run" =>
    /\ Len(heard) = k + Len(gossip) + Pending
    /\ \A i \in 1..Len(gossip) : gossip[i] = k + i

TitleFlow(k) ==
  /\ title <= k /\ (title # 0 => heard[title] = "title")
  /\ \A m \in title+1..k : heard[m] = "audio"

HeldFlow(k) == held # 0 => held = k /\ heard[held] = "audio"

AudioFlow(k) ==
  result["decoder"] = "run" =>
    /\ Last <= k /\ (held # 0 => Last < held)
    /\ \A i \in 1..Len(audio) :
         audio[i] \in Last+1..k /\ audio[i] # held /\ heard[audio[i]] = "audio"
    /\ \A i, j \in 1..Len(audio) : i < j => audio[i] < audio[j]
    /\ \A m \in 1..k : heard[m] = "audio" /\ m # held =>
         IF m <= Last THEN Holds(pushed, m) ELSE Holds(audio, m)

Flow(k) == GossipFlow(k) /\ TitleFlow(k) /\ HeldFlow(k) /\ AudioFlow(k)

FlowInv == SwarmInv /\ \E k \in 0..Len(heard) : Flow(k)

IInv == TypeOK /\ EndInv /\ FlowInv

LEMMA HoldsAppend ==
  ASSUME NEW S, NEW q \in Seq(S), NEW x \in S, NEW m
  PROVE  Holds(Append(q, x), m) <=> Holds(q, m) \/ m = x
<1>1. /\ Len(q) \in Nat /\ Len(Append(q, x)) = Len(q) + 1
      /\ Append(q, x)[Len(q) + 1] = x
      /\ \A i \in 1..Len(q) : Append(q, x)[i] = q[i]
  BY AppendProperties, LenProperties
<1> QED
  BY <1>1 DEF Holds

LEMMA HoldsTail ==
  ASSUME NEW S, NEW q \in Seq(S), q # <<>>, NEW m
  PROVE  Holds(q, m) <=> m = Head(q) \/ Holds(Tail(q), m)
<1>1. /\ Len(q) \in Nat \ {0} /\ Len(Tail(q)) = Len(q) - 1 /\ Head(q) = q[1]
      /\ \A i \in 1..Len(Tail(q)) : Tail(q)[i] = q[i + 1]
  BY HeadTailProperties, EmptySeq
<1>2. ASSUME NEW i \in 1..Len(q), i # 1 PROVE i - 1 \in 1..Len(Tail(q)) /\ q[i] = Tail(q)[i - 1]
  BY <1>1, <1>2
<1>3. ASSUME NEW i \in 1..Len(Tail(q)) PROVE i + 1 \in 1..Len(q) /\ q[i + 1] = Tail(q)[i]
  BY <1>1, <1>3
<1>4. 1 \in 1..Len(q)
  BY <1>1
<1>5. ASSUME Holds(q, m) PROVE m = Head(q) \/ Holds(Tail(q), m)
  <2>1. PICK i \in 1..Len(q) : q[i] = m
    BY <1>5 DEF Holds
  <2>2. CASE i = 1
    BY <1>1, <2>1, <2>2
  <2>3. CASE i # 1
    BY <1>2, <2>1, <2>3 DEF Holds
  <2> QED
    BY <2>2, <2>3
<1>6. ASSUME m = Head(q) \/ Holds(Tail(q), m) PROVE Holds(q, m)
  <2>1. CASE m = Head(q)
    BY <1>1, <1>4, <2>1 DEF Holds
  <2>2. CASE Holds(Tail(q), m)
    BY <1>3, <2>2 DEF Holds
  <2> QED
    BY <1>6, <2>1, <2>2
<1> QED
  BY <1>5, <1>6

LEMMA HoldsConcat ==
  ASSUME NEW S, NEW q \in Seq(S), NEW r \in Seq(S), NEW m, Holds(q, m) \/ Holds(r, m)
  PROVE  Holds(q \o r, m)
<1>1. /\ Len(q) \in Nat /\ Len(r) \in Nat /\ Len(q \o r) = Len(q) + Len(r)
      /\ \A i \in 1..Len(q) + Len(r) :
           (q \o r)[i] = IF i <= Len(q) THEN q[i] ELSE r[i - Len(q)]
  BY ConcatProperties, LenProperties
<1>2. ASSUME NEW i \in 1..Len(q) PROVE i \in 1..Len(q \o r) /\ (q \o r)[i] = q[i]
  BY <1>1
<1>3. ASSUME NEW i \in 1..Len(r)
      PROVE  Len(q) + i \in 1..Len(q \o r) /\ (q \o r)[Len(q) + i] = r[i]
  BY <1>1
<1> QED
  BY <1>2, <1>3 DEF Holds

(* The last packet pushed is a message, or 0.                              *)
LEMMA LastType == TypeOK => Last \in 0..MaxMsgs
<1> SUFFICES ASSUME TypeOK, pushed # <<>> PROVE pushed[Len(pushed)] \in 1..MaxMsgs
  BY MaxMsgsAssumption DEF Last, Promise!LastPushed
<1>1. Len(pushed) \in 1..Len(pushed)
  BY EmptySeq DEF TypeOK
<1> QED
  BY <1>1, ElementOfSeq DEF TypeOK, Msgs

(* With nothing moved, nothing changes about where the messages are.       *)
LEMMA FlowFrame ==
  ASSUME UNCHANGED data, result'["bridge"] = result["bridge"],
         result'["decoder"] = result["decoder"], NEW k
  PROVE  (Flow(k) <=> Flow(k)') /\ (SwarmInv <=> SwarmInv')
BY DEF data, Flow, GossipFlow, TitleFlow, HeldFlow, AudioFlow, SwarmInv, Pending, Last,
       Promise!LastPushed, Holds

LEMMA FlowInit == Init => FlowInv
<1> SUFFICES ASSUME Init PROVE SwarmInv /\ 0 \in 0..Len(heard) /\ Flow(0)
  BY DEF FlowInv
<1>1. Len(heard) = 0 /\ Len(gossip) = 0 /\ Len(audio) = 0 /\ Last = 0
  BY DEF Init, Last, Promise!LastPushed
<1> QED
  BY <1>1 DEF Init, SwarmInv, Flow, GossipFlow, TitleFlow, HeldFlow, AudioFlow, Pending

LEMMA AcceptFlows ==
  ASSUME TypeOK, SwarmInv, NEW k \in 0..Len(heard), Flow(k), SwarmAccept
  PROVE  SwarmInv' /\ k \in 0..Len(heard') /\ Flow(k)'
<1>1. PICK kind \in Kinds : heard' = Append(heard, kind)
  BY DEF SwarmAccept
<1>2. /\ Len(heard) \in Nat /\ Len(heard') = Len(heard) + 1
      /\ \A m \in 1..Len(heard) : heard'[m] = heard[m]
  BY <1>1, AppendProperties, LenProperties DEF TypeOK
<1>3. /\ sending = 0 /\ sending' = Len(heard) + 1
      /\ UNCHANGED <<gossip, held, title, audio, pushed, result>>
  BY DEF SwarmAccept, life
<1>4. GossipFlow(k)'
  <2>1. Pending = 0 /\ Pending' = 1 /\ Len(gossip) \in Nat
    BY <1>2, <1>3, LenProperties DEF Pending, TypeOK
  <2> QED
    BY <1>2, <1>3, <2>1 DEF Flow, GossipFlow
<1>5. TitleFlow(k)'
  <2>1. title <= k /\ title \in Nat /\ title' = title
    BY <1>3, MaxMsgsAssumption DEF Flow, TitleFlow, TypeOK, Msgs
  <2> QED
    BY <1>2, <2>1 DEF Flow, TitleFlow
<1>6. HeldFlow(k)'
  BY <1>2, <1>3 DEF Flow, HeldFlow, TypeOK, Msgs
<1>7. AudioFlow(k)'
  <2>1. Last' = Last /\ Last \in Nat
    BY <1>3, LastType, MaxMsgsAssumption DEF Last, Promise!LastPushed
  <2>2. ASSUME result["decoder"] = "run", NEW i \in 1..Len(audio)
        PROVE  audio[i] \in 1..Len(heard)
    BY <2>1, <2>2, <1>2 DEF Flow, AudioFlow
  <2> QED
    BY <1>2, <1>3, <2>1, <2>2 DEF Flow, AudioFlow, Holds
<1> QED
  BY <1>2, <1>3, <1>4, <1>5, <1>6, <1>7 DEF SwarmInv, Flow

LEMMA SendFlows ==
  ASSUME TypeOK, SwarmInv, NEW k \in 0..Len(heard), Flow(k), SwarmSend
  PROVE  SwarmInv' /\ Flow(k)'
<1>1. /\ sending # 0 /\ sending' = 0
      /\ UNCHANGED <<heard, held, title, audio, pushed, result>>
  BY DEF SwarmSend, life
<1>2. GossipFlow(k)'
  <2> SUFFICES ASSUME result["bridge"] = "run" PROVE GossipFlow(k)'
    BY <1>1 DEF GossipFlow
  <2>1. gossip' = Append(gossip, sending) /\ sending \in Msgs
    BY <1>1 DEF SwarmSend, TypeOK
  <2>2. /\ Len(gossip) \in Nat /\ Len(gossip') = Len(gossip) + 1
        /\ \A i \in 1..Len(gossip) : gossip'[i] = gossip[i]
        /\ gossip'[Len(gossip) + 1] = sending
    BY <2>1, AppendProperties, LenProperties DEF TypeOK
  <2>3. Len(heard) = k + Len(gossip) + 1 /\ sending = Len(heard)
    BY <1>1 DEF Flow, GossipFlow, Pending, SwarmInv
  <2> QED
    BY <1>1, <2>2, <2>3 DEF Flow, GossipFlow, Pending
<1>3. TitleFlow(k)' /\ HeldFlow(k)' /\ AudioFlow(k)'
  BY <1>1 DEF Flow, TitleFlow, HeldFlow, AudioFlow, Last, Promise!LastPushed, Holds
<1> QED
  BY <1>1, <1>2, <1>3 DEF SwarmInv, Flow

LEMMA RecvFlows ==
  ASSUME TypeOK, SwarmInv, NEW k \in 0..Len(heard), Flow(k), BridgeRecv
  PROVE  /\ SwarmInv' /\ Flow(k + 1)' /\ k + 1 \in 1..Len(heard) /\ Head(gossip) = k + 1
         /\ held = 0
<1>1. /\ result["bridge"] = "run" /\ held = 0 /\ gossip # <<>> /\ gossip' = Tail(gossip)
      /\ UNCHANGED <<heard, sending, audio, pushed, result>>
  BY DEF BridgeRecv, Runs, life
<1>2. /\ Len(gossip) \in Nat \ {0} /\ Len(gossip') = Len(gossip) - 1
      /\ Head(gossip) = gossip[1] /\ \A i \in 1..Len(gossip') : gossip'[i] = gossip[i + 1]
  BY <1>1, HeadTailProperties, EmptySeq DEF TypeOK
<1>3. /\ Len(heard) = k + Len(gossip) + Pending /\ Pending \in {0, 1} /\ Pending' = Pending
      /\ \A i \in 1..Len(gossip) : gossip[i] = k + i
  BY <1>1 DEF Flow, GossipFlow, Pending
<1>4. Head(gossip) = k + 1 /\ k + 1 \in 1..Len(heard) /\ Len(heard) \in Nat
  BY <1>2, <1>3
<1>5. GossipFlow(k + 1)'
  BY <1>1, <1>2, <1>3 DEF GossipFlow
<1>6. Last' = Last /\ Last \in Nat
  BY <1>1, LastType, MaxMsgsAssumption DEF Last, Promise!LastPushed
<1>7. title \in Nat /\ title <= k /\ \A m \in title+1..k : heard[m] = "audio"
  BY MaxMsgsAssumption DEF TypeOK, Msgs, Flow, TitleFlow
<1>8. result["decoder"] = "run" => Last < k + 1
  BY <1>6 DEF Flow, AudioFlow
<1>9. SwarmInv'
  BY <1>1 DEF SwarmInv
<1>10. CASE heard[k + 1] = "audio" /\ held' = k + 1 /\ UNCHANGED title
  <2>1. TitleFlow(k + 1)'
    <3>1. \A m \in title+1..k+1 : heard[m] = "audio"
      BY <1>7, <1>10
    <3> QED
      BY <1>1, <1>7, <1>10, <3>1 DEF Flow, TitleFlow
  <2>2. HeldFlow(k + 1)'
    BY <1>1, <1>10 DEF HeldFlow
  <2>3. AudioFlow(k + 1)'
    BY <1>1, <1>6, <1>8, <1>10 DEF Flow, AudioFlow, Holds
  <2> QED
    BY <1>1, <1>4, <1>5, <1>9, <2>1, <2>2, <2>3 DEF Flow
<1>11. CASE heard[k + 1] = "title" /\ title' = k + 1 /\ UNCHANGED held
  <2>1. TitleFlow(k + 1)'
    BY <1>1, <1>11 DEF TitleFlow
  <2>2. HeldFlow(k + 1)'
    BY <1>1, <1>11 DEF HeldFlow
  <2>3. AudioFlow(k + 1)'
    BY <1>1, <1>6, <1>8, <1>11 DEF Flow, AudioFlow, Holds
  <2> QED
    BY <1>1, <1>4, <1>5, <1>9, <2>1, <2>2, <2>3 DEF Flow
<1> QED
  BY <1>1, <1>4, <1>10, <1>11, <1>9 DEF BridgeRecv, NewTitle

LEMMA ForwardFlows ==
  ASSUME TypeOK, SwarmInv, NEW k \in 0..Len(heard), Flow(k), BridgeSend
  PROVE  SwarmInv' /\ Flow(k)'
<1>1. /\ held # 0 /\ held' = 0 /\ held \in Msgs
      /\ UNCHANGED <<heard, sending, gossip, title, pushed, result>>
  BY DEF BridgeSend, life, TypeOK
<1>2. held = k /\ heard[held] = "audio"
  BY <1>1 DEF Flow, HeldFlow
<1>3. GossipFlow(k)' /\ TitleFlow(k)' /\ HeldFlow(k)' /\ SwarmInv'
  BY <1>1 DEF Flow, GossipFlow, TitleFlow, HeldFlow, SwarmInv, Pending
<1>4. ASSUME result["decoder"] = "run" PROVE AudioFlow(k)'
  <2>1. audio' = Append(audio, held)
    BY <1>4 DEF BridgeSend
  <2>2. /\ Len(audio) \in Nat /\ Len(audio') = Len(audio) + 1
        /\ \A i \in 1..Len(audio) : audio'[i] = audio[i]
        /\ audio'[Len(audio) + 1] = held
    BY <1>1, <2>1, AppendProperties, LenProperties DEF TypeOK
  <2>3. Last' = Last /\ Last \in Nat
    BY <1>1, LastType, MaxMsgsAssumption DEF Last, Promise!LastPushed
  <2>4. Last < held /\ \A i \in 1..Len(audio) : audio[i] \in Last+1..k /\ audio[i] # held
    BY <1>1, <1>4 DEF Flow, AudioFlow
  <2>5. \A i \in 1..Len(audio') : /\ audio'[i] \in Last+1..k
                                 /\ heard[audio'[i]] = "audio" /\ audio'[i] # 0
    BY <1>2, <1>4, <2>2, <2>3, <2>4 DEF Flow, AudioFlow
  <2>6. \A i, j \in 1..Len(audio') : i < j => audio'[i] < audio'[j]
    <3>1. \A i \in 1..Len(audio) : audio[i] \in Nat /\ audio[i] < held
      BY <1>2, <2>3, <2>4
    <3>2. \A i, j \in 1..Len(audio) : i < j => audio[i] < audio[j]
      BY <1>4 DEF Flow, AudioFlow
    <3> QED
      BY <2>2, <3>1, <3>2
  <2>7. \A m \in 1..k : heard[m] = "audio" =>
          IF m <= Last THEN Holds(pushed, m) ELSE Holds(audio', m)
    <3>1. \A m : Holds(audio', m) <=> Holds(audio, m) \/ m = held
      BY <1>1, <2>1, HoldsAppend DEF TypeOK
    <3>2. \A m \in 1..k : m <= Last => m # held
      BY <2>4, <2>3, <1>2
    <3> QED
      BY <1>4, <3>1, <3>2 DEF Flow, AudioFlow
  <2> QED
    BY <1>1, <2>3, <2>4, <2>5, <2>6, <2>7 DEF AudioFlow, Flow, Holds
<1>5. AudioFlow(k)'
  BY <1>1, <1>4 DEF AudioFlow
<1> QED
  BY <1>3, <1>5 DEF Flow

LEMMA CutFlows ==
  ASSUME TypeOK, SwarmInv, NEW k \in 0..Len(heard), Flow(k), BridgeCancelled
  PROVE  SwarmInv' /\ \E j \in 0..Len(heard') : Flow(j)'
<1>1. /\ held' = 0 /\ result'["bridge"] # "run" /\ result'["decoder"] = result["decoder"]
      /\ UNCHANGED <<heard, sending, title, audio, pushed>>
  BY DEF BridgeCancelled, Ends, TypeOK, Tasks
<1>2. SwarmInv' /\ Last' = Last /\ Last \in Nat /\ title \in Nat
  BY <1>1, LastType, MaxMsgsAssumption
     DEF SwarmInv, Last, Promise!LastPushed, TypeOK, Msgs
<1>3. CASE held = 0
  BY <1>1, <1>2, <1>3 DEF Flow, GossipFlow, TitleFlow, HeldFlow, AudioFlow, Holds
<1>4. CASE held # 0
  <2>1. held = k /\ heard[k] = "audio" /\ k - 1 \in 0..Len(heard')
    BY <1>1, <1>4 DEF Flow, HeldFlow
  <2>2. TitleFlow(k - 1)'
    BY <1>1, <1>2, <2>1 DEF Flow, TitleFlow
  <2>3. AudioFlow(k - 1)'
    BY <1>1, <1>2, <1>4, <2>1 DEF Flow, AudioFlow, Holds
  <2>4. GossipFlow(k - 1)' /\ HeldFlow(k - 1)'
    BY <1>1 DEF GossipFlow, HeldFlow
  <2> QED
    BY <1>2, <2>1, <2>2, <2>3, <2>4 DEF Flow
<1> QED
  BY <1>3, <1>4

LEMMA PushFlows ==
  ASSUME TypeOK, SwarmInv, NEW k \in 0..Len(heard), Flow(k), PushOnly
  PROVE  SwarmInv' /\ Flow(k)' /\ Last' = Head(audio)
<1>1. /\ result["decoder"] = "run" /\ audio # <<>> /\ audio' = Tail(audio)
      /\ pushed' = Append(pushed, Head(audio))
      /\ UNCHANGED <<heard, sending, gossip, held, title, result>>
  BY DEF PushOnly, Runs, life
<1>2. /\ Len(audio) \in Nat \ {0} /\ Len(audio') = Len(audio) - 1
      /\ Head(audio) = audio[1] /\ \A i \in 1..Len(audio') : audio'[i] = audio[i + 1]
      /\ Head(audio) \in Msgs
  BY <1>1, HeadTailProperties, EmptySeq DEF TypeOK
<1>3. Last' = Head(audio)
  BY <1>1, <1>2, AppendProperties DEF Last, Promise!LastPushed, TypeOK
<1>4. GossipFlow(k)' /\ TitleFlow(k)' /\ HeldFlow(k)' /\ SwarmInv'
  BY <1>1 DEF Flow, GossipFlow, TitleFlow, HeldFlow, SwarmInv, Pending
<1>5. /\ Last \in Nat /\ Head(audio) \in Last+1..k /\ Head(audio) # held
      /\ heard[Head(audio)] = "audio"
  BY <1>1, <1>2, LastType, MaxMsgsAssumption DEF Flow, AudioFlow
<1>6. \A i \in 1..Len(audio') :
        audio'[i] \in Head(audio)+1..k /\ audio'[i] # held /\ heard[audio'[i]] = "audio"
  <2> SUFFICES ASSUME NEW i \in 1..Len(audio')
               PROVE  /\ audio'[i] \in Head(audio)+1..k
                      /\ audio'[i] # held /\ heard[audio'[i]] = "audio"
    OBVIOUS
  <2>1. i + 1 \in 1..Len(audio) /\ 1 \in 1..Len(audio) /\ 1 < i + 1
    BY <1>2
  <2>2. audio[1] < audio[i + 1]
    BY <1>1, <2>1 DEF Flow, AudioFlow
  <2>3. /\ audio[i + 1] \in Last+1..k /\ audio[i + 1] # held
        /\ heard[audio[i + 1]] = "audio"
    BY <1>1, <2>1 DEF Flow, AudioFlow
  <2> QED
    BY <1>2, <1>5, <2>2, <2>3
<1>7. \A i, j \in 1..Len(audio') : i < j => audio'[i] < audio'[j]
  <2>1. \A i \in 1..Len(audio') : i + 1 \in 1..Len(audio)
    BY <1>2
  <2>2. \A i, j \in 1..Len(audio) : i < j => audio[i] < audio[j]
    BY <1>1 DEF Flow, AudioFlow
  <2> QED
    BY <1>2, <2>1, <2>2
<1>8. ASSUME NEW m \in 1..k, heard[m] = "audio", m # held
      PROVE  IF m <= Head(audio) THEN Holds(pushed', m) ELSE Holds(audio', m)
  <2>1. Holds(pushed', m) <=> Holds(pushed, m) \/ m = Head(audio)
    BY <1>1, <1>2, HoldsAppend DEF TypeOK
  <2>2. Holds(audio, m) <=> m = Head(audio) \/ Holds(audio', m)
    BY <1>1, HoldsTail DEF TypeOK
  <2>3. Holds(audio', m) => m > Head(audio)
    BY <1>5, <1>6 DEF Holds
  <2>4. IF m <= Last THEN Holds(pushed, m) ELSE Holds(audio, m)
    BY <1>1, <1>8 DEF Flow, AudioFlow
  <2>5. m \in Nat /\ Head(audio) \in Nat /\ Last < Head(audio)
    BY <1>5
  <2> QED
    BY <1>5, <2>1, <2>2, <2>3, <2>4, <2>5
<1>9. held # 0 => Head(audio) < held
  BY <1>5 DEF Flow, HeldFlow
<1>10. AudioFlow(k)'
  BY <1>1, <1>3, <1>5, <1>6, <1>7, <1>8, <1>9 DEF AudioFlow
<1> QED
  BY <1>3, <1>4, <1>10 DEF Flow

LEMMA EndFlows ==
  ASSUME SwarmInv, NEW k, Flow(k), DecoderEnd
  PROVE  SwarmInv' /\ Flow(k)'
BY DEF DecoderEnd, Flow, GossipFlow, TitleFlow, HeldFlow, AudioFlow, SwarmInv, Pending

LEMMA StepCases ==
  [Next]_vars => \/ SwarmAccept \/ SwarmSend \/ BridgeRecv \/ BridgeSend
                 \/ BridgeCancelled \/ DecoderNext \/ LifeStep
BY DEF Next, LifeStep, DecoderNext

LEMMA FlowStep == TypeOK /\ FlowInv /\ [Next]_vars => FlowInv'
<1> SUFFICES ASSUME TypeOK, SwarmInv, NEW k \in 0..Len(heard), Flow(k), [Next]_vars
             PROVE  SwarmInv' /\ \E j \in 0..Len(heard') : Flow(j)'
  BY DEF FlowInv
<1>1. CASE SwarmAccept
  BY <1>1, AcceptFlows
<1>2. CASE SwarmSend
  <2>1. heard' = heard
    BY <1>2 DEF SwarmSend
  <2> QED
    BY <1>2, <2>1, SendFlows
<1>3. CASE BridgeRecv
  <2>1. heard' = heard /\ Len(heard) \in Nat
    BY <1>3, LenProperties DEF BridgeRecv, TypeOK
  <2>2. k + 1 \in 0..Len(heard')
    BY <1>3, <2>1, RecvFlows
  <2> QED
    BY <1>3, <2>2, RecvFlows
<1>4. CASE BridgeSend
  <2>1. heard' = heard
    BY <1>4 DEF BridgeSend
  <2> QED
    BY <1>4, <2>1, ForwardFlows
<1>5. CASE BridgeCancelled
  BY <1>5, CutFlows
<1>6. CASE Frame
  <2>1. heard' = heard
    BY <1>6 DEF Frame, data
  <2> QED
    BY <1>6, <2>1, FlowFrame DEF Frame
<1>7. CASE PushOnly
  <2>1. heard' = heard
    BY <1>7 DEF PushOnly
  <2> QED
    BY <1>7, <2>1, PushFlows
<1>8. CASE DecoderEnd
  <2>1. heard' = heard
    BY <1>8 DEF DecoderEnd
  <2> QED
    BY <1>8, <2>1, EndFlows
<1> QED
  BY <1>1, <1>2, <1>3, <1>4, <1>5, <1>6, <1>7, <1>8, StepCases, DecoderCases, LifeFrame

(* The inductive invariant holds in every reachable state. *)
THEOREM Invariance == Spec => []IInv
<1>1. Init => IInv
  BY TypeInit, FlowInit DEF IInv, EndInv, Init
<1>2. IInv /\ [Next]_vars => IInv'
  BY TypeStep, EndStep, FlowStep DEF IInv
<1> QED
  BY <1>1, <1>2, PTL DEF Spec

-----------------------------------------------------------------------------
(* An accepted packet is in a hand, in a channel or in the pipeline, for   *)
(* as long as nothing has been interrupted and nothing has failed.         *)
THEOREM NothingEverLost == Spec => []NothingLost
<1>1. IInv => NothingLost
  <2> SUFFICES ASSUME IInv, ~cancel, ~fault, NEW n \in 1..Len(heard), heard[n] = "audio"
               PROVE  n \in {held, sending} \/ Holds(pushed \o audio \o gossip, n)
    BY DEF NothingLost
  <2>1. result["bridge"] = "run" /\ result["decoder"] = "run"
    BY DEF IInv, EndInv, Tasks
  <2>2. PICK k \in 0..Len(heard) : Flow(k)
    BY DEF IInv, FlowInv
  <2>3. pushed \in Seq(Msgs) /\ audio \in Seq(Msgs) /\ gossip \in Seq(Msgs)
    BY DEF IInv, TypeOK
  <2>4. \A m : Holds(pushed, m) \/ Holds(audio, m) \/ Holds(gossip, m) =>
                 Holds(pushed \o audio \o gossip, m)
    <3>1. pushed \o audio \in Seq(Msgs)
      BY <2>3, ConcatProperties
    <3>2. \A m : Holds(pushed, m) \/ Holds(audio, m) => Holds(pushed \o audio, m)
      BY <2>3, HoldsConcat
    <3>3. \A m : Holds(pushed \o audio, m) \/ Holds(gossip, m) =>
                   Holds((pushed \o audio) \o gossip, m)
      BY <2>3, <3>1, HoldsConcat
    <3> QED
      BY <3>2, <3>3
  <2>5. CASE n <= k
    <3>1. n \in 1..k
      BY <2>5
    <3> QED
      BY <2>1, <2>2, <2>4, <3>1 DEF Flow, AudioFlow
  <2>6. CASE n > k
    <3>1. /\ Len(heard) = k + Len(gossip) + Pending /\ Len(gossip) \in Nat
          /\ \A i \in 1..Len(gossip) : gossip[i] = k + i
      BY <2>1, <2>2, <2>3, LenProperties DEF Flow, GossipFlow
    <3>2. CASE n = Len(heard) /\ sending # 0
      BY <3>2 DEF IInv, FlowInv, SwarmInv
    <3>3. CASE ~(n = Len(heard) /\ sending # 0)
      <4>1. n - k \in 1..Len(gossip) /\ gossip[n - k] = n
        BY <2>6, <3>1, <3>3 DEF Pending
      <4> QED
        BY <2>4, <4>1 DEF Holds
    <3> QED
      BY <3>2, <3>3
  <2> QED
    BY <2>5, <2>6
<1> QED
  BY Invariance, <1>1, PTL

(* No failure is reported as a cancellation: None is handed up from task   *)
(* to task only when one of them has seen the token.                       *)
THEOREM NoneAlwaysInterrupted == Spec => NoneMeansInterrupted
<1>1. ASSUME IInv, [Next]_vars, result'["main"] = "none" PROVE cancel
  <2>1. CASE result["main"] = "none"
    BY <1>1, <2>1 DEF IInv, EndInv, Tasks
  <2>2. CASE result["main"] # "none"
    <3>1. result["node"] = "none"
      BY <1>1, <2>2
         DEF IInv, TypeOK, Tasks, Next, vars, life, MakeNext, MakeFails, SwarmAccept,
             SwarmSend, SwarmCancelled, BridgeRecv, BridgeSend, BridgeCancelled,
             DecoderStart, DecoderPush, DecoderBus, DecoderCancelled, DecoderDropped,
             DecoderEnds, AxumCancelled, InfoStops, ServerReturns, NodeReturns, FirstOf,
             JustEnds, MainReturns, CtrlC, Ends, Handled
    <3> QED
      BY <1>1, <3>1 DEF IInv, EndInv, Tasks
  <2> QED
    BY <2>1, <2>2
<1>2. IInv /\ [Next]_vars => [result'["main"] = "none" => cancel]_vars
  BY <1>1
<1> QED
  BY Invariance, <1>2, PTL DEF Spec, NoneMeansInterrupted

-----------------------------------------------------------------------------
(* The refinement.                                                         *)

LEMMA SameCardinality == \A S : Promise!Cardinality(S) = Cardinality(S)
BY Zenon DEF Promise!Cardinality, Cardinality

(* What the bridge reads from the channel is the next message, so a title  *)
(* it finds is the next title, and the packets that it passes are those in *)
(* the second channel.                                                     *)
LEMMA TitleRefines ==
  ASSUME TypeOK, SwarmInv, NEW k \in 0..Len(heard), Flow(k), BridgeRecv,
         title' = k + 1, heard[k + 1] = "title"
  PROVE  Promise!SetTitle(k + 1)
<1>1. k + 1 \in 1..Len(heard) /\ held = 0 /\ UNCHANGED <<heard, pushed, life>>
  BY RecvFlows DEF BridgeRecv
<1>2. title <= k /\ title \in Nat /\ \A m \in title+1..k : heard[m] = "audio"
  BY MaxMsgsAssumption DEF Flow, TitleFlow, TypeOK, Msgs
<1>3. Promise!Follows(k + 1, title, "title")
  BY <1>1, <1>2 DEF Promise!Follows
<1>4. ASSUME result["decoder"] = "run"
      PROVE  Cardinality(Promise!Waiting(k + 1)) <= AudioCap
  <2> DEFINE W == Promise!Waiting(k + 1)
  <2>1. /\ \A i \in 1..Len(audio) : audio[i] \in Last+1..k /\ heard[audio[i]] = "audio"
        /\ \A m \in Last+1..k : heard[m] = "audio" => Holds(audio, m)
        /\ Last \in Nat
    BY <1>1, <1>4, LastType, MaxMsgsAssumption DEF Flow, AudioFlow
  <2>2. W = {m \in Last+1..k : heard[m] = "audio"}
    BY DEF Promise!Waiting, Last
  <2>3. /\ audio \in [1..Len(audio) -> W] /\ \A m \in W : \E i \in 1..Len(audio) : audio[i] = m
        /\ Len(audio) \in Nat /\ Len(audio) <= AudioCap
    <3>1. audio \in [1..Len(audio) -> Msgs] /\ Len(audio) \in Nat /\ Len(audio) <= AudioCap
      BY LenProperties DEF TypeOK
    <3> QED
      BY <2>1, <2>2, <3>1 DEF Holds
  <2> HIDE DEF W
  <2>4. audio \in Surjection(1..Len(audio), W)
    BY <2>3 DEF Surjection
  <2>5. IsFiniteSet(1..Len(audio)) /\ Cardinality(1..Len(audio)) = Len(audio)
    <3>1. 1 \in Int /\ Len(audio) \in Int /\ Len(audio) \in Nat
      BY <2>3
    <3>2. /\ IsFiniteSet(1..Len(audio))
          /\ Cardinality(1..Len(audio)) = IF 1 > Len(audio) THEN 0 ELSE Len(audio) - 1 + 1
      BY <3>1, FS_Interval
    <3> QED
      BY <3>1, <3>2
  <2>6. IsFiniteSet(W) /\ Cardinality(W) <= Cardinality(1..Len(audio))
    BY <2>4, <2>5, FS_Surjection
  <2>7. Cardinality(W) \in Nat
    BY <2>6, FS_CardinalityType
  <2> QED
    BY <2>3, <2>5, <2>6, <2>7, CapAssumption DEF W
<1>5. UNCHANGED (Up /\ result["decoder"] = "run")
  BY <1>1 DEF life, Up
<1> QED
  BY <1>1, <1>3, <1>4, <1>5, SameCardinality DEF Promise!SetTitle, Promise!RoomFor

LEMMA PushRefines ==
  ASSUME TypeOK, SwarmInv, NEW k \in 0..Len(heard), Flow(k), PushOnly
  PROVE  Promise!Push(Head(audio)) /\ Head(audio) \in 1..Len(heard)
<1>1. /\ result["decoder"] = "run" /\ Up /\ audio # <<>>
      /\ pushed' = Append(pushed, Head(audio)) /\ UNCHANGED <<heard, title, life>>
  BY DEF PushOnly, Runs
<1>2. Len(audio) \in Nat \ {0} /\ Head(audio) = audio[1] /\ Len(heard) \in Nat
  BY <1>1, EmptySeq, HeadTailProperties, LenProperties DEF TypeOK
<1>3. /\ Last \in Nat /\ Head(audio) \in Last+1..k /\ heard[Head(audio)] = "audio"
      /\ Head(audio) # held
  BY <1>1, <1>2, LastType, MaxMsgsAssumption DEF Flow, AudioFlow
<1>4. ASSUME NEW m \in Last+1..Head(audio)-1 PROVE heard[m] # "audio"
  <2>1. \A i \in 1..Len(audio) : Head(audio) <= audio[i]
    <3>1. ASSUME NEW i \in 1..Len(audio) PROVE i = 1 \/ audio[1] < audio[i]
      BY <1>1, <1>2 DEF Flow, AudioFlow
    <3>2. \A i \in 1..Len(audio) : audio[i] \in Nat
      BY <1>1, <1>3 DEF Flow, AudioFlow
    <3> QED
      BY <1>2, <1>3, <3>1, <3>2
  <2>2. m \in 1..k /\ ~(m <= Last) /\ m < Head(audio)
    BY <1>3
  <2>3. held # 0 => held = k
    BY DEF Flow, HeldFlow
  <2>4. m # held
    BY <1>3, <2>2, <2>3
  <2> QED
    <3> SUFFICES ASSUME heard[m] = "audio" PROVE FALSE
      OBVIOUS
    <3>1. PICK i \in 1..Len(audio) : audio[i] = m
      BY <1>1, <2>2, <2>4 DEF Flow, AudioFlow, Holds
    <3> QED
      BY <1>3, <2>1, <3>1
<1>5. Promise!Follows(Head(audio), Last, "audio")
  BY <1>2, <1>3, <1>4 DEF Promise!Follows
<1>6. \A m \in 1..Head(audio) : heard[m] = "title" => m <= title
  <2>1. title \in Nat /\ \A m \in title+1..k : heard[m] = "audio"
    BY MaxMsgsAssumption DEF Flow, TitleFlow, TypeOK, Msgs
  <2> QED
    BY <1>3, <2>1
<1>7. UNCHANGED (Up /\ result["decoder"] = "run")
  BY <1>1 DEF life, Up
<1> QED
  BY <1>1, <1>2, <1>3, <1>5, <1>6, <1>7 DEF Promise!Push, Last

LEMMA StepRefines == IInv /\ [Next]_vars => [Promise!Next]_(Promise!vars)
<1> SUFFICES ASSUME IInv, [Next]_vars PROVE [Promise!Next]_(Promise!vars)
  OBVIOUS
<1> DEFINE Playing == Up /\ result["decoder"] = "run"
<1>1. TypeOK /\ SwarmInv
  BY DEF IInv, FlowInv
<1>2. PICK k \in 0..Len(heard) : Flow(k)
  BY DEF IInv, FlowInv
<1>3. ASSUME UNCHANGED <<heard, title, pushed>>, Playing' = Playing
      PROVE  UNCHANGED Promise!vars
  BY <1>3 DEF Promise!vars
<1>4. ASSUME UNCHANGED <<heard, title, pushed>>, Playing, ~Playing'
      PROVE  Promise!Stop
  BY <1>4 DEF Promise!Stop
<1>5. CASE SwarmAccept
  <2>1. PICK kind \in Kinds : heard' = Append(heard, kind)
    BY <1>5 DEF SwarmAccept
  <2>2. UNCHANGED <<title, pushed, Playing>> /\ Len(heard) < MaxMsgs
    BY <1>5 DEF SwarmAccept, life, Up
  <2>3. Promise!Hear(kind)
    BY <2>1, <2>2 DEF Promise!Hear
  <2> QED
    BY <2>3 DEF Promise!Next, Promise!Kinds, Kinds
<1>6. CASE SwarmSend \/ BridgeSend
  BY <1>3, <1>6 DEF SwarmSend, BridgeSend, life, Up
<1>7. CASE BridgeRecv
  <2>1. Head(gossip) = k + 1 /\ k + 1 \in 1..Len(heard)
    BY <1>1, <1>2, <1>7, RecvFlows
  <2>2. CASE heard[k + 1] = "title" /\ title' = k + 1
    BY <1>1, <1>2, <1>7, <2>1, <2>2, TitleRefines DEF Promise!Next
  <2>3. CASE UNCHANGED title
    BY <1>3, <1>7, <2>3 DEF BridgeRecv, life, Up
  <2> QED
    BY <1>7, <2>1, <2>2, <2>3 DEF BridgeRecv, NewTitle
<1>8. CASE BridgeCancelled
  <2>1. result'["decoder"] = result["decoder"] /\ result'["main"] = result["main"]
    BY <1>1, <1>8 DEF BridgeCancelled, Ends, TypeOK, Tasks
  <2> QED
    BY <1>3, <1>8, <2>1 DEF BridgeCancelled, Up
<1>9. CASE PushOnly
  BY <1>1, <1>2, <1>9, PushRefines DEF Promise!Next
<1>10. CASE DecoderEnd
  BY <1>3, <1>4, <1>10 DEF DecoderEnd, Promise!Next
<1>11. CASE Frame
  <2>1. UNCHANGED <<heard, title, pushed>> /\ result'["decoder"] = result["decoder"]
    BY <1>11 DEF Frame, data
  <2>2. CASE Playing' = Playing
    BY <1>3, <2>1, <2>2
  <2>3. CASE Playing /\ ~Playing'
    BY <1>4, <2>1, <2>3 DEF Promise!Next
  <2>4. ~Up => ~Up'
    BY DEF Next, vars, life, Up, MakeNext, MakeFails, SwarmAccept, SwarmSend, SwarmCancelled, BridgeRecv, BridgeSend, BridgeCancelled,
             DecoderStart, DecoderPush, DecoderBus, DecoderCancelled, DecoderDropped,
             AxumCancelled, InfoStops, ServerReturns, NodeReturns, FirstOf,
             JustEnds, MainReturns, CtrlC, Runs
  <2> QED
    BY <2>1, <2>2, <2>3, <2>4
<1> QED
  BY <1>1, <1>5, <1>6, <1>7, <1>8, <1>9, <1>10, <1>11, StepCases, DecoderCases, LifeFrame

(* Tasks, channels, start-up and every way of ending amount to hearing     *)
(* messages, moving the title forward and pushing packets, in that order   *)
(* and at that distance.                                                   *)
THEOREM ImplementsIntake == Spec => KeepsIntake
<1>1. Init => Promise!Init
  BY DEF Init, Promise!Init, Up, Tasks
<1> QED
  BY Invariance, <1>1, StepRefines, PTL DEF Spec, KeepsIntake, Promise!Spec
=============================================================================
