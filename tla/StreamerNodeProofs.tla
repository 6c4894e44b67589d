------------------------- MODULE StreamerNodeProofs -------------------------
(***************************************************************************)
(* StreamerNode for channels of any capacity and any number of packets and *)
(* titles: the type invariant, that no audio is lost before an interrupt,  *)
(* that the program reports a cancellation only after one, and that the    *)
(* node implements Feed.                                                   *)
(***************************************************************************)
EXTENDS StreamerNode, SequenceTheorems, TLAPS

(* The source: the packet in the callback is the last one made, and the    *)
(* flume channel holds those made before it, without a gap.                *)
Busy == IF callback = 0 THEN 0 ELSE 1
Read == made - Len(sink) - Busy          \* packets that msg_loop has read

SourceInv ==
  /\ callback \in {0, made} /\ Read >= 0
  /\ \A i \in 1..Len(sink) : sink[i] = Read + i

(* The bus: titles that were posted and are newer than the cell's.         *)
BusInv ==
  /\ Len(tagAt) <= MaxTitles
  /\ \A i \in 1..Len(bus) : bus[i] # 0 => bus[i] \in cell+1..Len(tagAt)
  /\ \A i, j \in 1..Len(bus) : i < j /\ bus[i] # 0 /\ bus[j] # 0 => bus[i] < bus[j]

(* What msg_loop has read and the swarm has not taken.                     *)
Queue == IF held = <<>> THEN gossip ELSE Append(gossip, held)

(* The numbers of a kind in a sequence of messages, and the last of them,  *)
(* as Feed has them of what was taken.                                     *)
NumbersIn(q, kind) == {q[i][2] : i \in {j \in 1..Len(q) : q[j][1] = kind}}

IsLast(q, kind, n) ==
  n \in {0} \cup NumbersIn(q, kind) /\ \A m \in NumbersIn(q, kind) : m <= n

LastIn(q, kind) ==
  CHOOSE n \in {0} \cup NumbersIn(q, kind) : \A k \in {0} \cup NumbersIn(q, kind) : k <= n

LastTaken(kind) == LastIn(taken, kind)

TakenInv ==
  /\ \A kind \in {"audio", "title"} : IsLast(taken, kind, LastTaken(kind))
  /\ 1..LastTaken("audio") \subseteq NumbersIn(taken, "audio")

(* Queue q follows what was taken up to packet a and title t: it holds     *)
(* every packet from there to r, titles up to s, each in order, and no     *)
(* title is further ahead than a title may be of the packets behind it.    *)
Fits(q, tag, a, r, t, s) ==
  /\ a <= r /\ t <= s
  /\ \A n \in a+1..r : Holds(q, <<"audio", n>>)
  /\ \A i \in 1..Len(q) : q[i][2] \in (IF q[i][1] = "audio" THEN a+1..r ELSE t+1..s)
  /\ \A i, j \in 1..Len(q) : i < j /\ q[i][1] = q[j][1] => q[i][2] < q[j][2]
  /\ \A i \in 1..Len(q) : q[i][1] = "title" =>
       /\ tag[q[i][2]] <= r + SinkCap + 1
       /\ \A j \in i..Len(q) : q[j][1] = "audio" => tag[q[i][2]] <= q[j][2] + SinkCap

RelayInv ==
  result["swarm"] = "run" =>
    Fits(Queue, tagAt, LastTaken("audio"), Read, LastTaken("title"), seen)

(* Nothing but msg_loop returns None without the token, and the swarm      *)
(* returns nothing else.                                                   *)
EndInv ==
  /\ ~cancel => result["swarm"] = "run"
  /\ \A t \in Tasks \ {"msgLoop"} : result[t] = "none" => cancel

IInv == TypeOK /\ SourceInv /\ BusInv /\ TakenInv /\ RelayInv /\ EndInv

-----------------------------------------------------------------------------
LEMMA TypeInit == Init => TypeOK
<1> SUFFICES ASSUME Init PROVE TypeOK
  OBVIOUS
<1>1. /\ <<>> \in Seq(Packets) /\ <<>> \in Seq(0..made) /\ <<>> \in Seq(Titles \cup {0})
      /\ <<>> \in Seq(Messages) /\ Len(<<>>) = 0
  OBVIOUS
<1>2. result \in [Tasks -> {"run", "none", "err"}]
  BY DEF Init
<1>3. /\ sink \in Seq(Packets) /\ Len(sink) <= SinkCap
      /\ tagAt \in Seq(0..made) /\ bus \in Seq(Titles \cup {0})
      /\ gossip \in Seq(Messages) /\ Len(gossip) <= GossipCap /\ taken \in Seq(Messages)
  BY <1>1, CapAssumption DEF Init
<1>4. made \in 0..MaxPackets /\ cell \in 0..Len(tagAt) /\ seen \in 0..cell
  BY <1>1, BoundAssumption DEF Init
<1> QED
  BY <1>2, <1>3, <1>4 DEF Init, TypeOK, Steps

(* Steps that are only about the life of the node: packets and titles stay *)
(* where they are.                                                         *)
LifeStep ==
  \/ MakeNext \/ MakeFails \/ MainLoopStarts \/ MainLoopCancelled \/ MsgLoopElse
  \/ ServerReturns \/ BackendReturns \/ NodeReturns \/ MainReturns \/ CtrlC
  \/ UNCHANGED vars

Frame ==
  /\ UNCHANGED data /\ result'["swarm"] = result["swarm"]
  /\ pipeline' \in {"none", "null", "playing"} /\ step' \in Steps
  /\ mainLoop' \in {"start", "loop", "stopping", "done"}
  /\ result' \in [Tasks -> {"run", "none", "err"}]
  /\ fault' \in BOOLEAN /\ cancel' \in BOOLEAN

LEMMA LifeFrame == TypeOK /\ LifeStep => Frame
<1> SUFFICES ASSUME TypeOK, LifeStep PROVE Frame
  OBVIOUS
<1>1. ASSUME NEW t \in Tasks \ {"swarm"}, NEW r \in {"run", "none", "err"}, Ends(t, r)
      PROVE  /\ result'["swarm"] = result["swarm"]
             /\ result' \in [Tasks -> {"run", "none", "err"}]
  BY <1>1 DEF Ends, TypeOK, Tasks
<1>2. CASE MakeNext
  BY <1>2 DEF MakeNext, AfterStep, Frame, TypeOK, Steps
<1>3. CASE MakeFails
  BY <1>1, <1>3 DEF MakeFails, Frame, TypeOK, Tasks
<1>4. CASE MainLoopStarts \/ MainLoopCancelled \/ CtrlC
  BY <1>4 DEF MainLoopStarts, MainLoopCancelled, CtrlC, life, Frame, TypeOK
<1>5. ASSUME NEW t \in Tasks \ {"swarm"}, NEW r \in {"run", "none", "err"}, JustEnds(t, r),
             fault' \in BOOLEAN, cancel' \in BOOLEAN
      PROVE  Frame
  BY <1>1, <1>5 DEF JustEnds, Frame, TypeOK
<1>6. CASE MsgLoopElse \/ ServerReturns \/ BackendReturns
  BY <1>5, <1>6 DEF MsgLoopElse, ServerReturns, BackendReturns, Tasks, TypeOK
<1>7. CASE NodeReturns
  <2>1. PICK u \in Tasks : JustEnds("node", Handled(u)) /\ UNCHANGED <<fault, cancel>>
    BY <1>7 DEF NodeReturns, FirstOf, Tasks
  <2>2. Handled(u) \in {"run", "none", "err"}
    BY DEF Handled, TypeOK
  <2> QED
    BY <1>5, <2>1, <2>2 DEF Tasks, TypeOK
<1>8. CASE MainReturns
  <2>1. Handled("node") \in {"run", "none", "err"}
    BY DEF Handled, TypeOK, Tasks
  <2> QED
    BY <1>1, <1>8, <2>1 DEF MainReturns, Frame, TypeOK, Tasks
<1>9. CASE UNCHANGED vars
  BY <1>9 DEF vars, life, Frame, TypeOK
<1> QED
  BY <1>2, <1>3, <1>4, <1>6, <1>7, <1>8, <1>9 DEF LifeStep

LEMMA StepCases ==
  [Next]_vars => \/ CallbackCalled \/ CallbackSends \/ TagPosted \/ EndPosted
                 \/ MainLoopBus \/ MainLoopNull \/ MsgLoopAudio \/ MsgLoopTitle
                 \/ MsgLoopSend \/ SwarmPublish \/ SwarmCancelled \/ LifeStep
BY DEF Next, LifeStep

LEMMA TypeStep == TypeOK /\ BusInv /\ [Next]_vars => TypeOK'
<1> SUFFICES ASSUME TypeOK, BusInv, [Next]_vars PROVE TypeOK'
  OBVIOUS
<1> USE CapAssumption, BoundAssumption
<1>1. ASSUME NEW S, NEW q \in Seq(S), q # <<>>
      PROVE  /\ Head(q) \in S /\ Tail(q) \in Seq(S) /\ Len(q) \in Nat
             /\ Len(Tail(q)) = Len(q) - 1
  BY <1>1, HeadTailProperties, LenProperties
<1>2. ASSUME NEW S, NEW q \in Seq(S), NEW x \in S, NEW cap \in Nat, Len(q) < cap
      PROVE  Append(q, x) \in Seq(S) /\ Len(Append(q, x)) <= cap
  BY <1>2, AppendProperties, LenProperties
<1>3. Frame => TypeOK'
  BY DEF Frame, TypeOK, data, source, relay
<1>4. CASE CallbackCalled
  <2>1. made' = made + 1 /\ made' \in 0..MaxPackets /\ callback' \in Packets \cup {0}
    BY <1>4 DEF CallbackCalled, TypeOK, Packets
  <2>2. tagAt' \in Seq(0..made')
    <3>1. 0..made \subseteq 0..made' /\ tagAt' = tagAt
      BY <1>4, <2>1 DEF CallbackCalled, TypeOK
    <3> QED
      BY <3>1, SeqMonotonic DEF TypeOK
  <2> QED
    BY <1>4, <2>1, <2>2 DEF CallbackCalled, TypeOK, relay, life
<1>5. CASE CallbackSends
  <2>1. callback \in Packets /\ sink' = Append(sink, callback) /\ Len(sink) < SinkCap
    BY <1>5 DEF CallbackSends, BlockingSend, TypeOK
  <2>2. sink' \in Seq(Packets) /\ Len(sink') <= SinkCap
    BY <1>2, <2>1 DEF TypeOK
  <2> QED
    BY <1>5, <2>2 DEF CallbackSends, TypeOK, relay, life
<1>6. CASE TagPosted
  <2>1. /\ Len(tagAt) \in Nat /\ Len(tagAt) + 1 \in Titles /\ made \in 0..made
        /\ tagAt' = Append(tagAt, made) /\ bus' = Append(bus, Len(tagAt) + 1)
    BY <1>6, LenProperties DEF TagPosted, TypeOK, Titles
  <2>2. /\ tagAt' \in Seq(0..made) /\ Len(tagAt') = Len(tagAt) + 1
        /\ bus' \in Seq(Titles \cup {0})
    BY <2>1, AppendProperties DEF TypeOK
  <2> QED
    BY <1>6, <2>1, <2>2 DEF TagPosted, TypeOK, relay, life
<1>7. CASE EndPosted
  <2>1. bus' \in Seq(Titles \cup {0})
    BY <1>7, AppendProperties DEF EndPosted, TypeOK
  <2> QED
    BY <1>7, <2>1 DEF EndPosted, TypeOK, relay, life
<1>8. CASE MainLoopBus
  <2>1. bus' = Tail(bus) /\ bus # <<>> /\ bus' \in Seq(Titles \cup {0})
    BY <1>1, <1>8 DEF MainLoopBus, TypeOK
  <2>2. mainLoop' \in {"start", "loop", "stopping", "done"}
    BY <1>8 DEF MainLoopBus, TypeOK
  <2>3. cell' \in 0..Len(tagAt) /\ seen \in 0..cell'
    <3>1. CASE UNCHANGED cell
      BY <3>1 DEF TypeOK
    <3>2. CASE Head(bus) # 0 /\ cell' = Head(bus)
      <4>1. 1 \in 1..Len(bus) /\ Head(bus) = bus[1]
        BY <2>1, EmptySeq DEF TypeOK
      <4>2. Head(bus) \in cell+1..Len(tagAt)
        BY <3>2, <4>1 DEF BusInv
      <4>3. Len(tagAt) \in Nat /\ cell \in 0..Len(tagAt) /\ seen \in 0..cell
        BY LenProperties DEF TypeOK
      <4> QED
        BY <3>2, <4>2, <4>3
    <3>3. UNCHANGED cell \/ (Head(bus) # 0 /\ cell' = Head(bus))
      BY <1>8 DEF MainLoopBus, NewCell
    <3> QED
      BY <3>1, <3>2, <3>3
  <2> QED
    BY <1>8, <2>1, <2>2, <2>3 DEF MainLoopBus, TypeOK, source, relay, life
<1>9. CASE MainLoopNull
  <2>1. bus' \in Seq(Titles \cup {0})
    BY <1>9 DEF MainLoopNull
  <2> QED
    BY <1>9, <2>1 DEF MainLoopNull, TypeOK, source, relay, life
<1>10. CASE MsgLoopAudio
  <2>1. Head(sink) \in Packets /\ sink' \in Seq(Packets) /\ Len(sink') <= SinkCap
    BY <1>1, <1>10 DEF MsgLoopAudio, TypeOK
  <2>2. held' \in Messages
    BY <1>10, <2>1 DEF MsgLoopAudio, Messages
  <2> QED
    BY <1>10, <2>1, <2>2 DEF MsgLoopAudio, TypeOK, life
<1>11. CASE MsgLoopTitle
  <2>1. cell \in Titles /\ seen' = cell /\ seen' \in 0..cell
    BY <1>11, LenProperties DEF MsgLoopTitle, BorrowAndUpdate, TypeOK, BusInv, Titles
  <2>2. held' \in Messages
    BY <1>11, <2>1 DEF MsgLoopTitle, Messages
  <2> QED
    BY <1>11, <2>1, <2>2 DEF MsgLoopTitle, TypeOK, source, life
<1>12. CASE MsgLoopSend
  <2>1. result' \in [Tasks -> {"run", "none", "err"}]
    BY <1>12 DEF MsgLoopSend, Ends, TypeOK, Tasks
  <2>2. gossip' \in Seq(Messages) /\ Len(gossip') <= GossipCap /\ held' \in Messages \cup {<<>>}
    <3>1. CASE Len(gossip) < GossipCap /\ gossip' = Append(gossip, held) /\ held' = <<>>
      <4>1. held \in Messages
        BY <1>12 DEF MsgLoopSend, TypeOK
      <4> QED
        BY <1>2, <3>1, <4>1 DEF TypeOK
    <3>2. CASE UNCHANGED <<gossip, held>>
      BY <3>2 DEF TypeOK
    <3> QED
      BY <1>12, <3>1, <3>2 DEF MsgLoopSend
  <2> QED
    BY <1>12, <2>1, <2>2 DEF MsgLoopSend, TypeOK, source
<1>13. CASE SwarmPublish
  <2>1. Head(gossip) \in Messages /\ gossip' \in Seq(Messages) /\ Len(gossip') <= GossipCap
    BY <1>1, <1>13 DEF SwarmPublish, TypeOK
  <2>2. taken' \in Seq(Messages)
    BY <1>13, <2>1, AppendProperties DEF SwarmPublish, TypeOK
  <2> QED
    BY <1>13, <2>1, <2>2 DEF SwarmPublish, TypeOK, source, life
<1>14. CASE SwarmCancelled
  <2>1. result' \in [Tasks -> {"run", "none", "err"}]
    BY <1>14 DEF SwarmCancelled, Ends, TypeOK
  <2>2. gossip' = <<>> /\ <<>> \in Seq(Messages) /\ Len(<<>>) = 0
    BY <1>14 DEF SwarmCancelled
  <2> QED
    BY <1>14, <2>1, <2>2 DEF SwarmCancelled, TypeOK, source
<1> QED
  BY <1>3, <1>4, <1>5, <1>6, <1>7, <1>8, <1>9, <1>10, <1>11, <1>12, <1>13, <1>14,
     StepCases, LifeFrame

-----------------------------------------------------------------------------
(* The streaming thread neither makes nor takes what msg_loop has read: a  *)
(* packet only moves on, from the callback to the channel.                 *)
LEMMA SourceFrame ==
  ASSUME TypeOK, SourceInv,
         CallbackCalled \/ CallbackSends \/ UNCHANGED <<made, callback, sink>>
  PROVE  SourceInv' /\ Read' = Read /\ Read \in Nat
<1>1. Len(sink) \in Nat /\ made \in Nat /\ Busy \in {0, 1} /\ Read \in Nat
  BY LenProperties, BoundAssumption DEF TypeOK, Busy, SourceInv, Read
<1>2. CASE CallbackCalled
  <2>1. /\ callback = 0 /\ made' = made + 1 /\ callback' = made + 1 /\ sink' = sink
        /\ Busy = 0 /\ Busy' = 1
    BY <1>1, <1>2 DEF CallbackCalled, Busy
  <2>2. Read' = Read
    BY <1>1, <2>1 DEF Read
  <2> QED
    BY <1>1, <2>1, <2>2 DEF SourceInv
<1>3. CASE CallbackSends
  <2>1. /\ callback # 0 /\ callback = made /\ callback' = 0 /\ made' = made
        /\ sink' = Append(sink, made) /\ Busy = 1 /\ Busy' = 0
    BY <1>3 DEF CallbackSends, BlockingSend, SourceInv, Busy
  <2>2. /\ Len(sink') = Len(sink) + 1 /\ sink'[Len(sink) + 1] = made
        /\ \A i \in 1..Len(sink) : sink'[i] = sink[i]
    BY <2>1, AppendProperties DEF TypeOK
  <2>3. Read' = Read /\ made = Read + (Len(sink) + 1)
    BY <1>1, <2>1, <2>2 DEF Read
  <2>4. ASSUME NEW i \in 1..Len(sink') PROVE sink'[i] = Read + i
    <3>1. i \in 1..Len(sink) \/ i = Len(sink) + 1
      BY <1>1, <2>2
    <3> QED
      BY <2>2, <2>3, <3>1 DEF SourceInv
  <2> QED
    BY <1>1, <2>1, <2>3, <2>4 DEF SourceInv
<1>4. CASE UNCHANGED <<made, callback, sink>>
  BY <1>1, <1>4 DEF SourceInv, Read, Busy
<1> QED
  BY <1>2, <1>3, <1>4

(* msg_loop reads the packet after the last one it has read.               *)
LEMMA AudioRead ==
  ASSUME TypeOK, SourceInv, MsgLoopAudio
  PROVE  SourceInv' /\ Read \in Nat /\ Read' = Read + 1 /\ held' = <<"audio", Read + 1>>
<1>1. /\ sink # <<>> /\ sink' = Tail(sink) /\ held' = <<"audio", Head(sink)>>
      /\ UNCHANGED <<made, callback>>
  BY DEF MsgLoopAudio
<1>2. /\ Len(sink) \in Nat \ {0} /\ Len(sink') = Len(sink) - 1 /\ Head(sink) = sink[1]
      /\ \A i \in 1..Len(sink') : sink'[i] = sink[i + 1] /\ i + 1 \in 1..Len(sink)
  BY <1>1, HeadTailProperties, EmptySeq DEF TypeOK
<1>3. made \in Nat /\ Busy \in {0, 1} /\ Busy' = Busy /\ Read \in Nat
  BY <1>1, <1>2, BoundAssumption DEF TypeOK, Busy, SourceInv, Read
<1>4. Read' = Read + 1 /\ Head(sink) = Read + 1
  BY <1>1, <1>2, <1>3 DEF Read, SourceInv
<1>5. \A i \in 1..Len(sink') : sink'[i] = Read' + i
  BY <1>2, <1>3, <1>4 DEF SourceInv
<1> QED
  BY <1>1, <1>3, <1>4, <1>5 DEF SourceInv

(* The bus hands its titles on in the order in which they were posted.     *)
LEMMA BusStep ==
  ASSUME TypeOK, BusInv, NEW x, bus' = Append(bus, x), cell' = cell,
         \/ x = 0 /\ tagAt' = tagAt
         \/ x = Len(tagAt) + 1 /\ Len(tagAt') = Len(tagAt) + 1 /\ Len(tagAt) < MaxTitles
  PROVE  BusInv'
<1>1. Len(tagAt) \in Nat /\ Len(bus) \in Nat /\ cell \in 0..Len(tagAt) /\ MaxTitles \in Nat
  BY LenProperties, BoundAssumption DEF TypeOK
<1>2. /\ Len(bus') = Len(bus) + 1 /\ bus'[Len(bus) + 1] = x
      /\ \A i \in 1..Len(bus) : bus'[i] = bus[i]
  <2>1. x \in Nat /\ bus \in Seq(Nat)
    <3>1. Titles \cup {0} \subseteq Nat
      BY DEF Titles
    <3>2. bus \in Seq(Nat)
      BY <3>1, SeqMonotonic DEF TypeOK
    <3> QED
      BY <1>1, <3>2
  <2> QED
    BY <2>1, AppendProperties
<1>3. Len(tagAt') \in Nat /\ Len(tagAt') <= MaxTitles /\ Len(tagAt) <= Len(tagAt')
  BY <1>1 DEF BusInv
<1>4. \A i \in 1..Len(bus') : i \in 1..Len(bus) \/ i = Len(bus) + 1
  BY <1>1, <1>2
<1>5. ASSUME NEW i \in 1..Len(bus'), bus'[i] # 0 PROVE bus'[i] \in cell+1..Len(tagAt')
  <2>1. CASE i \in 1..Len(bus)
    <3>1. bus[i] \in cell+1..Len(tagAt)
      BY <1>2, <1>5, <2>1 DEF BusInv
    <3> QED
      BY <1>1, <1>2, <1>3, <2>1, <3>1
  <2>2. CASE i = Len(bus) + 1
    BY <1>1, <1>2, <1>5, <2>2
  <2> QED
    BY <1>4, <2>1, <2>2
<1>6. ASSUME NEW i \in 1..Len(bus'), NEW j \in 1..Len(bus'), i < j, bus'[i] # 0, bus'[j] # 0
      PROVE  bus'[i] < bus'[j]
  <2>1. i \in 1..Len(bus)
    BY <1>1, <1>2, <1>6
  <2>2. CASE j \in 1..Len(bus)
    BY <1>2, <1>6, <2>1, <2>2 DEF BusInv
  <2>3. CASE j = Len(bus) + 1
    <3>1. bus[i] \in cell+1..Len(tagAt) /\ bus'[j] = Len(tagAt) + 1
      BY <1>2, <1>6, <2>1, <2>3 DEF BusInv
    <3> QED
      BY <1>1, <1>2, <2>1, <3>1
  <2> QED
    BY <1>4, <2>2, <2>3
<1> QED
  BY <1>3, <1>5, <1>6 DEF BusInv

LEMMA BusTaken ==
  ASSUME TypeOK, BusInv, MainLoopBus
  PROVE  BusInv'
<1>1. bus # <<>> /\ bus' = Tail(bus) /\ tagAt' = tagAt
  BY DEF MainLoopBus, source
<1>2. /\ Len(bus) \in Nat \ {0} /\ Len(bus') = Len(bus) - 1 /\ Head(bus) = bus[1]
      /\ \A i \in 1..Len(bus') : bus'[i] = bus[i + 1]
      /\ Len(tagAt) \in Nat /\ cell \in 0..Len(tagAt)
  BY <1>1, HeadTailProperties, EmptySeq, LenProperties DEF TypeOK
<1>3. \A i \in 1..Len(bus') : i + 1 \in 1..Len(bus) /\ 1 < i + 1
  BY <1>2
<1>4. 1 \in 1..Len(bus)
  BY <1>2
<1>5. cell' = cell \/ (Head(bus) # 0 /\ cell' = Head(bus))
  BY DEF MainLoopBus, NewCell
<1>6. ASSUME NEW i \in 1..Len(bus'), bus'[i] # 0 PROVE bus'[i] \in cell'+1..Len(tagAt)
  <2>1. bus[i + 1] \in cell+1..Len(tagAt) /\ bus'[i] = bus[i + 1]
    BY <1>2, <1>3, <1>6 DEF BusInv
  <2>2. CASE cell' = cell
    BY <2>1, <2>2
  <2>3. CASE Head(bus) # 0 /\ cell' = Head(bus)
    <3>1. bus[1] < bus[i + 1] /\ bus[1] \in cell+1..Len(tagAt)
      BY <1>2, <1>3, <1>4, <1>6, <2>1, <2>3 DEF BusInv
    <3> QED
      BY <1>2, <2>1, <2>3, <3>1
  <2> QED
    BY <1>5, <2>2, <2>3
<1>7. ASSUME NEW i \in 1..Len(bus'), NEW j \in 1..Len(bus'), i < j, bus'[i] # 0, bus'[j] # 0
      PROVE  bus'[i] < bus'[j]
  <2>1. i + 1 < j + 1
    BY <1>2, <1>7
  <2> QED
    BY <1>2, <1>3, <1>7, <2>1 DEF BusInv
<1> QED
  BY <1>1, <1>6, <1>7 DEF BusInv

LEMMA BusKept == TypeOK /\ BusInv /\ [Next]_vars => BusInv'
<1> SUFFICES ASSUME TypeOK, BusInv, [Next]_vars PROVE BusInv'
  OBVIOUS
<1>1. CASE TagPosted
  <2>1. Len(tagAt') = Len(tagAt) + 1
    <3>1. made \in 0..made
      BY BoundAssumption DEF TypeOK
    <3> QED
      BY <1>1, <3>1, AppendProperties DEF TagPosted, TypeOK
  <2> QED
    BY <1>1, <2>1, BusStep DEF TagPosted
<1>2. CASE EndPosted
  BY <1>2, BusStep DEF EndPosted
<1>3. CASE MainLoopBus
  BY <1>3, BusTaken
<1>4. CASE MainLoopNull
  <2>1. bus' = <<>> /\ Len(<<>>) = 0 /\ tagAt' = tagAt
    BY <1>4 DEF MainLoopNull, source
  <2> QED
    BY <2>1 DEF BusInv
<1>5. CASE UNCHANGED <<tagAt, bus, cell>>
  BY <1>5 DEF BusInv
<1>6. CASE \/ CallbackCalled \/ CallbackSends \/ MsgLoopAudio \/ MsgLoopTitle
           \/ MsgLoopSend \/ SwarmPublish \/ SwarmCancelled \/ Frame
  BY <1>5, <1>6
     DEF CallbackCalled, CallbackSends, MsgLoopAudio, MsgLoopTitle, MsgLoopSend,
         SwarmPublish, SwarmCancelled, Frame, data, source
<1> QED
  BY <1>1, <1>2, <1>3, <1>4, <1>6, StepCases, LifeFrame

(* None comes from the token: only msg_loop returns it without, and what   *)
(* msg_loop returns the backend makes an error of.                         *)
LEMMA EndStep == TypeOK /\ EndInv /\ [Next]_vars => EndInv'
<1> SUFFICES ASSUME TypeOK, EndInv, [Next]_vars PROVE EndInv'
  OBVIOUS
<1>1. ASSUME NEW t \in Tasks, NEW r, Ends(t, r), r = "none" /\ t # "msgLoop" => cancel',
             cancel => cancel', t = "swarm" => cancel'
      PROVE  EndInv'
  BY <1>1 DEF Ends, EndInv, TypeOK, Tasks
<1>2. CASE UNCHANGED <<result, cancel>>
  BY <1>2 DEF EndInv
<1>3. CASE \/ MakeNext \/ CallbackCalled \/ CallbackSends \/ TagPosted \/ EndPosted
           \/ MainLoopStarts \/ MainLoopBus \/ MainLoopCancelled \/ MainLoopNull
           \/ MsgLoopAudio \/ MsgLoopTitle \/ SwarmPublish \/ UNCHANGED vars
  BY <1>2, <1>3
     DEF MakeNext, CallbackCalled, CallbackSends, TagPosted, EndPosted, MainLoopStarts,
         MainLoopBus, MainLoopCancelled, MainLoopNull, MsgLoopAudio, MsgLoopTitle,
         SwarmPublish, vars, life
<1>4. CASE MakeFails
  BY <1>1, <1>4 DEF MakeFails, Tasks
<1>5. CASE MsgLoopSend
  <2>1. cancel' = cancel
    BY <1>5 DEF MsgLoopSend
  <2> QED
    BY <1>1, <1>2, <1>5, <2>1 DEF MsgLoopSend, Tasks
<1>6. CASE MsgLoopElse
  BY <1>1, <1>6 DEF MsgLoopElse, JustEnds, Tasks
<1>7. CASE SwarmCancelled
  BY <1>1, <1>7 DEF SwarmCancelled, Signalled, Tasks
<1>8. CASE ServerReturns
  BY <1>1, <1>8 DEF ServerReturns, JustEnds, Signalled, Tasks
<1>9. CASE BackendReturns
  BY <1>1, <1>9 DEF BackendReturns, JustEnds, Tasks
<1>10. CASE NodeReturns
  <2>1. PICK u \in {"swarm", "server", "backend"} :
          JustEnds("node", Handled(u)) /\ UNCHANGED <<fault, cancel>>
    BY <1>10 DEF NodeReturns, FirstOf
  <2>2. Handled(u) = "none" => cancel
    BY DEF Handled, EndInv, Tasks
  <2> QED
    BY <1>1, <2>1, <2>2 DEF JustEnds, Tasks
<1>11. CASE MainReturns
  BY <1>1, <1>11 DEF MainReturns, Tasks
<1>12. CASE CtrlC
  BY <1>12 DEF CtrlC, EndInv
<1> QED
  BY <1>3, <1>4, <1>5, <1>6, <1>7, <1>8, <1>9, <1>10, <1>11, <1>12 DEF Next

-----------------------------------------------------------------------------
(* Sequences of messages.                                                  *)

LEMMA MessageParts ==
  ASSUME NEW m \in Messages
  PROVE  /\ m = <<m[1], m[2]>> /\ m[2] \in Nat \ {0}
         /\ (m[1] = "audio" /\ m[2] \in Packets) \/ (m[1] = "title" /\ m[2] \in Titles)
<1>1. CASE m \in {"audio"} \X Packets
  BY <1>1, BoundAssumption DEF Packets
<1>2. CASE m \in {"title"} \X Titles
  BY <1>2, BoundAssumption DEF Titles
<1> QED
  BY <1>1, <1>2 DEF Messages

LEMMA AppendParts ==
  ASSUME NEW S, NEW q \in Seq(S), NEW m \in S
  PROVE  /\ Len(q) \in Nat /\ Len(Append(q, m)) = Len(q) + 1 /\ Append(q, m) \in Seq(S)
         /\ Append(q, m)[Len(q) + 1] = m
         /\ \A i \in 1..Len(Append(q, m)) :
              i = Len(q) + 1 \/ (i \in 1..Len(q) /\ Append(q, m)[i] = q[i])
<1>1. /\ Len(q) \in Nat /\ Len(Append(q, m)) = Len(q) + 1 /\ Append(q, m) \in Seq(S)
      /\ Append(q, m)[Len(q) + 1] = m
      /\ \A i \in 1..Len(q) : Append(q, m)[i] = q[i]
  BY AppendProperties, LenProperties
<1>2. \A i \in 1..Len(Append(q, m)) : i = Len(q) + 1 \/ i \in 1..Len(q)
  BY <1>1
<1> QED
  BY <1>1, <1>2

LEMMA TailParts ==
  ASSUME NEW S, NEW q \in Seq(S), q # <<>>
  PROVE  /\ Len(q) \in Nat \ {0} /\ Len(Tail(q)) = Len(q) - 1 /\ Tail(q) \in Seq(S)
         /\ Head(q) = q[1] /\ Head(q) \in S /\ 1 \in 1..Len(q)
         /\ \A i \in 1..Len(Tail(q)) :
              Tail(q)[i] = q[i + 1] /\ i + 1 \in 1..Len(q) /\ 1 < i + 1
         /\ \A i \in 1..Len(q) : i = 1 \/ (i - 1 \in 1..Len(Tail(q)) /\ Tail(q)[i - 1] = q[i])
<1>1. /\ Len(q) \in Nat \ {0} /\ Len(Tail(q)) = Len(q) - 1 /\ Tail(q) \in Seq(S)
      /\ Head(q) = q[1] /\ Head(q) \in S
      /\ \A i \in 1..Len(Tail(q)) : Tail(q)[i] = q[i + 1]
  BY HeadTailProperties, EmptySeq
<1>2. /\ 1 \in 1..Len(q)
      /\ \A i \in 1..Len(Tail(q)) : i + 1 \in 1..Len(q) /\ 1 < i + 1
      /\ \A i \in 1..Len(q) : i = 1 \/ (i - 1 \in 1..Len(Tail(q)) /\ (i - 1) + 1 = i)
  BY <1>1
<1>3. \A i \in 1..Len(q) : i = 1 \/ (i - 1 \in 1..Len(Tail(q)) /\ Tail(q)[i - 1] = q[i])
  BY <1>1, <1>2
<1> QED
  BY <1>1, <1>2, <1>3

LEMMA HoldsAppend ==
  ASSUME NEW S, NEW q \in Seq(S), NEW m \in S, NEW x
  PROVE  Holds(Append(q, m), x) <=> Holds(q, x) \/ x = m
<1>1. Len(q) + 1 \in 1..Len(Append(q, m))
  BY AppendParts
<1>2. ASSUME NEW i \in 1..Len(q) PROVE i \in 1..Len(Append(q, m)) /\ Append(q, m)[i] = q[i]
  BY AppendParts, AppendProperties
<1> QED
  BY <1>1, <1>2, AppendParts DEF Holds

LEMMA HoldsTail ==
  ASSUME NEW S, NEW q \in Seq(S), q # <<>>, NEW x
  PROVE  Holds(q, x) <=> x = Head(q) \/ Holds(Tail(q), x)
<1>1. ASSUME NEW i \in 1..Len(q) PROVE q[i] = Head(q) \/ Holds(Tail(q), q[i])
  BY TailParts DEF Holds
<1>2. ASSUME NEW i \in 1..Len(Tail(q)) PROVE Holds(q, Tail(q)[i])
  BY TailParts DEF Holds
<1>3. Holds(q, Head(q))
  BY TailParts DEF Holds
<1> QED
  BY <1>1, <1>2, <1>3 DEF Holds

LEMMA HoldsConcat ==
  ASSUME NEW S, NEW q \in Seq(S), NEW r \in Seq(S), NEW x, Holds(q, x) \/ Holds(r, x)
  PROVE  Holds(q \o r, x)
<1>1. /\ Len(q) \in Nat /\ Len(r) \in Nat /\ Len(q \o r) = Len(q) + Len(r)
      /\ \A i \in 1..Len(q) + Len(r) :
           (q \o r)[i] = IF i <= Len(q) THEN q[i] ELSE r[i - Len(q)]
  BY ConcatProperties, LenProperties
<1>2. ASSUME NEW i \in 1..Len(q) PROVE i \in 1..Len(q \o r) /\ (q \o r)[i] = q[i]
  BY <1>1
<1>3. ASSUME NEW i \in 1..Len(r)
      PROVE  Len(q) + i \in 1..Len(q \o r) /\ (q \o r)[Len(q) + i] = r[i]
  BY <1>1
<1> QED
  BY <1>2, <1>3 DEF Holds

(* The last number of a kind is the one that IsLast says it is.            *)
LEMMA LastIs ==
  ASSUME NEW q \in Seq(Messages), NEW kind, NEW n, IsLast(q, kind, n)
  PROVE  LastIn(q, kind) = n /\ n \in Nat
<1>1. NumbersIn(q, kind) \subseteq Nat
  BY MessageParts, ElementOfSeq DEF NumbersIn
<1>2. n \in Nat /\ n \in {0} \cup NumbersIn(q, kind)
      /\ \A k \in {0} \cup NumbersIn(q, kind) : k <= n
  BY <1>1 DEF IsLast
<1>3. /\ LastIn(q, kind) \in {0} \cup NumbersIn(q, kind)
      /\ \A k \in {0} \cup NumbersIn(q, kind) : k <= LastIn(q, kind)
  BY <1>2 DEF LastIn
<1>4. LastIn(q, kind) \in Nat /\ n <= LastIn(q, kind) /\ LastIn(q, kind) <= n
  BY <1>1, <1>2, <1>3
<1> QED
  BY <1>2, <1>4

LEMMA NumbersAppend ==
  ASSUME NEW q \in Seq(Messages), NEW m \in Messages, NEW kind
  PROVE  NumbersIn(Append(q, m), kind) =
           NumbersIn(q, kind) \cup (IF m[1] = kind THEN {m[2]} ELSE {})
<1>1. Len(q) + 1 \in 1..Len(Append(q, m)) /\ Append(q, m)[Len(q) + 1] = m
  BY AppendParts
<1>2. \A i \in 1..Len(q) : i \in 1..Len(Append(q, m)) /\ Append(q, m)[i] = q[i]
  BY AppendParts, AppendProperties
<1>3. \A i \in 1..Len(Append(q, m)) : Append(q, m)[i] = m \/ (i \in 1..Len(q) /\ Append(q, m)[i] = q[i])
  BY AppendParts
<1> QED
  BY <1>1, <1>2, <1>3 DEF NumbersIn

(* What one more message does to the last number of its kind.              *)
LEMMA LastAppend ==
  ASSUME NEW q \in Seq(Messages), NEW m \in Messages, NEW kind, NEW n, IsLast(q, kind, n),
         m[1] = kind => n <= m[2]
  PROVE  IsLast(Append(q, m), kind, IF m[1] = kind THEN m[2] ELSE n)
<1>1. m[2] \in Nat /\ NumbersIn(q, kind) \subseteq Nat /\ n \in Nat
  BY MessageParts, ElementOfSeq, LastIs DEF NumbersIn
<1>2. CASE m[1] = kind
  <2>1. \A k \in NumbersIn(q, kind) : k <= m[2]
    BY <1>1, <1>2 DEF IsLast
  <2> QED
    BY <1>1, <1>2, <2>1, NumbersAppend DEF IsLast
<1>3. CASE m[1] # kind
  BY <1>3, NumbersAppend DEF IsLast
<1> QED
  BY <1>2, <1>3

(* msg_loop reads another packet.                                          *)
LEMMA FitsAudio ==
  ASSUME NEW q \in Seq(Messages), NEW tag \in Seq(Nat), NEW a \in Nat, NEW r \in Nat,
         NEW t \in Nat, NEW s \in 0..Len(tag), Fits(q, tag, a, r, t, s),
         <<"audio", r + 1>> \in Messages
  PROVE  Fits(Append(q, <<"audio", r + 1>>), tag, a, r + 1, t, s)
<1> DEFINE m == <<"audio", r + 1>>
           p == Append(q, m)
<1>1. /\ Len(q) \in Nat /\ Len(p) = Len(q) + 1 /\ p[Len(q) + 1] = m
      /\ \A i \in 1..Len(p) : i = Len(q) + 1 \/ (i \in 1..Len(q) /\ p[i] = q[i])
  BY AppendParts
<1>2. \A x : Holds(p, x) <=> Holds(q, x) \/ x = m
  BY HoldsAppend
<1>3. m[1] = "audio" /\ m[2] = r + 1
  OBVIOUS
<1>4. SinkCap \in Nat /\ Len(tag) \in Nat
  BY CapAssumption, LenProperties
<1>5. \A i \in 1..Len(q) : q[i] = <<q[i][1], q[i][2]>> /\ q[i][2] \in Nat
  BY MessageParts, ElementOfSeq
<1>6. \A n \in a+1..r+1 : Holds(p, <<"audio", n>>)
  <2>1. \A n \in a+1..r+1 : n \in a+1..r \/ n = r + 1
    OBVIOUS
  <2> QED
    BY <1>2, <2>1 DEF Fits
<1> HIDE DEF p
<1>7. ASSUME NEW i \in 1..Len(p)
      PROVE  p[i][2] \in (IF p[i][1] = "audio" THEN a+1..r+1 ELSE t+1..s)
  <2>1. CASE i = Len(q) + 1
    <3>1. r + 1 \in a+1..r+1
      BY DEF Fits
    <3> QED
      BY <1>1, <1>3, <2>1, <3>1
  <2>2. CASE i \in 1..Len(q) /\ p[i] = q[i]
    <3>1. q[i][2] \in (IF q[i][1] = "audio" THEN a+1..r ELSE t+1..s)
      BY <2>2 DEF Fits
    <3> QED
      BY <2>2, <3>1
  <2> QED
    BY <1>1, <2>1, <2>2
<1>8. \A i \in 1..Len(q) : q[i][1] = "audio" => q[i][2] <= r
  BY DEF Fits
<1>9. ASSUME NEW i \in 1..Len(p), NEW j \in 1..Len(p), i < j, p[i][1] = p[j][1]
      PROVE  p[i][2] < p[j][2]
  <2>1. i \in 1..Len(q) /\ p[i] = q[i]
    BY <1>1, <1>9
  <2>2. CASE j = Len(q) + 1
    BY <1>1, <1>3, <1>5, <1>8, <1>9, <2>1, <2>2
  <2>3. CASE j \in 1..Len(q) /\ p[j] = q[j]
    BY <1>9, <2>1, <2>3 DEF Fits
  <2> QED
    BY <1>1, <2>2, <2>3
<1>10. ASSUME NEW i \in 1..Len(p), p[i][1] = "title"
      PROVE  /\ tag[p[i][2]] <= r + 1 + SinkCap + 1
             /\ \A j \in i..Len(p) : p[j][1] = "audio" => tag[p[i][2]] <= p[j][2] + SinkCap
  <2>1. i \in 1..Len(q) /\ p[i] = q[i] /\ m # p[i]
    BY <1>1, <1>3, <1>10
  <2>2. /\ tag[q[i][2]] <= r + SinkCap + 1
        /\ \A j \in i..Len(q) : q[j][1] = "audio" => tag[q[i][2]] <= q[j][2] + SinkCap
    BY <1>10, <2>1 DEF Fits
  <2>3. tag[q[i][2]] \in Nat
    <3>1. q[i][2] \in t+1..s
      BY <1>10, <2>1 DEF Fits
    <3>2. \A x \in t+1..s : x \in 1..Len(tag)
      BY <1>4
    <3>3. q[i][2] \in 1..Len(tag)
      BY <3>1, <3>2
    <3> QED
      BY <3>3, ElementOfSeq
  <2>4. ASSUME NEW j \in i..Len(p), p[j][1] = "audio" PROVE tag[q[i][2]] <= p[j][2] + SinkCap
    <3>1. j \in 1..Len(p)
      BY <1>1
    <3>2. CASE j = Len(q) + 1
      <4>1. p[j][2] = r + 1
        BY <1>1, <1>3, <3>2
      <4> QED
        BY <1>4, <2>2, <2>3, <4>1
    <3>3. CASE j \in 1..Len(q) /\ p[j] = q[j]
      BY <2>2, <2>4, <3>3
    <3> QED
      BY <1>1, <3>1, <3>2, <3>3
  <2>5. tag[q[i][2]] <= r + 1 + SinkCap + 1
    <3>1. SinkCap \in Nat
      BY CapAssumption
    <3>2. \A v \in Nat : v <= r + SinkCap + 1 => v <= r + 1 + SinkCap + 1
      BY <3>1
    <3> QED
      BY <1>4, <2>2, <2>3, <3>2
  <2> QED
    BY <2>1, <2>4, <2>5
<1>11. a <= r + 1 /\ t <= s
  BY DEF Fits
<1> QED
  BY <1>6, <1>7, <1>9, <1>10, <1>11 DEF Fits, p

(* msg_loop borrows a title newer than the last: it may skip some.         *)
LEMMA FitsTitle ==
  ASSUME NEW q \in Seq(Messages), NEW tag \in Seq(Nat), NEW a \in Nat, NEW r \in Nat,
         NEW t \in Nat, NEW s \in 0..Len(tag), Fits(q, tag, a, r, t, s),
         NEW u \in s+1..Len(tag), tag[u] <= r + SinkCap + 1,
         NEW m \in Messages, m[1] = "title", m[2] = u
  PROVE  Fits(Append(q, m), tag, a, r, t, u)
<1> DEFINE p == Append(q, m)
<1>1. /\ Len(q) \in Nat /\ Len(p) = Len(q) + 1 /\ p[Len(q) + 1] = m
      /\ \A i \in 1..Len(p) : i = Len(q) + 1 \/ (i \in 1..Len(q) /\ p[i] = q[i])
  BY AppendParts
<1>2. \A x : Holds(p, x) <=> Holds(q, x) \/ x = m
  BY HoldsAppend
<1>3. SinkCap \in Nat /\ Len(tag) \in Nat /\ a <= r /\ t <= s /\ t <= u /\ s < u
  BY CapAssumption, LenProperties DEF Fits
<1>4. /\ \A i \in 1..Len(q) : q[i][2] \in (IF q[i][1] = "audio" THEN a+1..r ELSE t+1..s)
      /\ \A i, j \in 1..Len(q) : i < j /\ q[i][1] = q[j][1] => q[i][2] < q[j][2]
      /\ \A i \in 1..Len(q) : q[i][1] = "title" =>
           /\ tag[q[i][2]] <= r + SinkCap + 1
           /\ \A j \in i..Len(q) : q[j][1] = "audio" => tag[q[i][2]] <= q[j][2] + SinkCap
  BY DEF Fits
<1>5. \A n \in a+1..r : Holds(p, <<"audio", n>>)
  BY <1>2 DEF Fits
<1> HIDE DEF p
<1>6. ASSUME NEW i \in 1..Len(p)
      PROVE  p[i][2] \in (IF p[i][1] = "audio" THEN a+1..r ELSE t+1..u)
  <2>1. CASE i = Len(q) + 1
    <3>1. u \in t+1..u
      BY <1>3
    <3> QED
      BY <1>1, <2>1, <3>1
  <2>2. CASE i \in 1..Len(q) /\ p[i] = q[i]
    <3>1. q[i][2] \in (IF q[i][1] = "audio" THEN a+1..r ELSE t+1..s)
      BY <1>4, <2>2
    <3> QED
      BY <1>3, <2>2, <3>1
  <2> QED
    BY <1>1, <2>1, <2>2
<1>7. ASSUME NEW i \in 1..Len(p), NEW j \in 1..Len(p), i < j, p[i][1] = p[j][1]
      PROVE  p[i][2] < p[j][2]
  <2>1. i \in 1..Len(q) /\ p[i] = q[i]
    BY <1>1, <1>7
  <2>2. CASE j = Len(q) + 1
    <3>1. p[j] = m /\ q[i][1] = "title"
      BY <1>1, <1>7, <2>1, <2>2
    <3>2. q[i][2] \in t+1..s
      BY <1>4, <2>1, <3>1
    <3>3. q[i][2] < u
      <4>1. q[i][2] \in Int /\ q[i][2] <= s /\ s \in Int /\ u \in Int
        BY <1>3, <3>2
      <4>2. \A x, y, z \in Int : x <= y /\ y < z => x < z
        OBVIOUS
      <4> QED
        BY <1>3, <4>1, <4>2, Zenon
    <3> QED
      BY <2>1, <3>1, <3>3
  <2>3. CASE j \in 1..Len(q) /\ p[j] = q[j]
    BY <1>4, <1>7, <2>1, <2>3
  <2> QED
    BY <1>1, <2>2, <2>3
<1>8. ASSUME NEW i \in 1..Len(p), p[i][1] = "title"
      PROVE  /\ tag[p[i][2]] <= r + SinkCap + 1
             /\ \A j \in i..Len(p) : p[j][1] = "audio" => tag[p[i][2]] <= p[j][2] + SinkCap
  <2>1. \A j \in i..Len(p) : j \in 1..Len(p)
    BY <1>1
  <2>2. CASE i = Len(q) + 1
    <3>1. \A j \in i..Len(p) : p[j] = m
      BY <1>1, <2>2
    <3>2. p[i] = m
      BY <1>1, <2>2
    <3> QED
      BY <3>1, <3>2
  <2>3. CASE i \in 1..Len(q) /\ p[i] = q[i]
    <3>1. /\ tag[q[i][2]] <= r + SinkCap + 1
          /\ \A j \in i..Len(q) : q[j][1] = "audio" => tag[q[i][2]] <= q[j][2] + SinkCap
      BY <1>4, <1>8, <2>3
    <3>2. ASSUME NEW j \in i..Len(p) PROVE p[j] = m \/ (j \in i..Len(q) /\ p[j] = q[j])
      <4>1. j \in 1..Len(p)
        BY <2>1
      <4>2. j = Len(q) + 1 \/ (j \in 1..Len(q) /\ p[j] = q[j])
        BY <1>1, <4>1
      <4>3. j \in 1..Len(q) => j \in i..Len(q)
        BY <1>1
      <4> QED
        BY <1>1, <4>2, <4>3
    <3> QED
      BY <2>3, <3>1, <3>2
  <2> QED
    BY <1>1, <2>2, <2>3
<1> QED
  BY <1>3, <1>5, <1>6, <1>7, <1>8 DEF Fits, p

(* The swarm takes the head of the queue: the packet after the last one it *)
(* took, or a newer title that is not too far ahead of that packet.        *)
LEMMA FitsHead ==
  ASSUME NEW q \in Seq(Messages), q # <<>>, NEW tag \in Seq(Nat), NEW a \in Nat,
         NEW r \in Nat, NEW t \in Nat, NEW s \in 0..Len(tag), Fits(q, tag, a, r, t, s)
  PROVE  \/ Head(q) = <<"audio", a + 1>> /\ a + 1 <= r /\ Fits(Tail(q), tag, a + 1, r, t, s)
         \/ \E n \in t+1..s : /\ Head(q) = <<"title", n>> /\ tag[n] <= a + SinkCap + 1
                              /\ Fits(Tail(q), tag, a, r, n, s)
<1> DEFINE p == Tail(q)
           h == Head(q)
<1>1. /\ Len(q) \in Nat \ {0} /\ Len(p) = Len(q) - 1 /\ h = q[1] /\ 1 \in 1..Len(q)
      /\ \A i \in 1..Len(p) : p[i] = q[i + 1] /\ i + 1 \in 1..Len(q) /\ 1 < i + 1
      /\ \A i \in 1..Len(q) : i = 1 \/ (i - 1 \in 1..Len(p) /\ p[i - 1] = q[i])
  BY TailParts
<1>2. \A x : Holds(q, x) <=> x = h \/ Holds(p, x)
  BY HoldsTail
<1>3. /\ h = <<h[1], h[2]>> /\ h[1] \in {"audio", "title"}
      /\ \A i \in 1..Len(p) : p[i][1] \in {"audio", "title"}
  <2>1. \A i \in 1..Len(q) : q[i] \in Messages
    BY ElementOfSeq
  <2> HIDE DEF p, h
  <2>2. h \in Messages /\ \A i \in 1..Len(p) : p[i] \in Messages
    BY <1>1, <2>1
  <2> QED
    BY <2>2, MessageParts
<1> HIDE DEF p, h
<1>4. /\ a <= r /\ t <= s /\ SinkCap \in Nat
      /\ \A n \in a+1..r : Holds(q, <<"audio", n>>)
      /\ \A i \in 1..Len(q) : q[i][2] \in (IF q[i][1] = "audio" THEN a+1..r ELSE t+1..s)
      /\ \A i, j \in 1..Len(q) : i < j /\ q[i][1] = q[j][1] => q[i][2] < q[j][2]
      /\ \A i \in 1..Len(q) : q[i][1] = "title" =>
           /\ tag[q[i][2]] <= r + SinkCap + 1
           /\ \A j \in i..Len(q) : q[j][1] = "audio" => tag[q[i][2]] <= q[j][2] + SinkCap
  BY CapAssumption DEF Fits
<1>5. ASSUME NEW i \in 1..Len(p), p[i][1] = h[1] PROVE h[2] < p[i][2]
  <2>1. i + 1 \in 1..Len(q) /\ 1 < i + 1 /\ p[i] = q[i + 1] /\ 1 \in 1..Len(q) /\ h = q[1]
    BY <1>1
  <2> QED
    BY <1>4, <1>5, <2>1
<1>6. ASSUME NEW i \in 1..Len(p)
      PROVE  p[i][2] \in (IF p[i][1] = "audio" THEN a+1..r ELSE t+1..s)
  <2>1. i + 1 \in 1..Len(q) /\ p[i] = q[i + 1]
    BY <1>1
  <2> QED
    BY <1>4, <2>1
<1>7. ASSUME NEW i \in 1..Len(p), NEW j \in 1..Len(p), i < j, p[i][1] = p[j][1]
      PROVE  p[i][2] < p[j][2]
  <2>1. /\ i + 1 \in 1..Len(q) /\ j + 1 \in 1..Len(q)
        /\ p[i] = q[i + 1] /\ p[j] = q[j + 1]
    BY <1>1
  <2>2. i + 1 < j + 1
    BY <1>1, <1>7
  <2> QED
    BY <1>4, <1>7, <2>1, <2>2
<1>8. ASSUME NEW i \in 1..Len(p), p[i][1] = "title"
      PROVE  /\ tag[p[i][2]] <= r + SinkCap + 1
             /\ \A j \in i..Len(p) : p[j][1] = "audio" => tag[p[i][2]] <= p[j][2] + SinkCap
  <2>1. i + 1 \in 1..Len(q) /\ p[i] = q[i + 1]
    BY <1>1
  <2>2. ASSUME NEW j \in i..Len(p) PROVE p[j] = q[j + 1] /\ j + 1 \in (i + 1)..Len(q)
    <3>1. j \in 1..Len(p)
      BY <1>1
    <3> QED
      BY <1>1, <3>1
  <2>3. /\ tag[q[i + 1][2]] <= r + SinkCap + 1
        /\ \A j \in (i + 1)..Len(q) : q[j][1] = "audio" => tag[q[i + 1][2]] <= q[j][2] + SinkCap
    BY <1>4, <1>8, <2>1
  <2> QED
    BY <2>1, <2>2, <2>3
<1>9. CASE h[1] = "audio"
  <2>1. h[2] \in a+1..r /\ a + 1 \in a+1..r
    BY <1>1, <1>4, <1>9
  <2>2. h[2] = a + 1
    <3>1. <<"audio", a + 1>> = h \/ Holds(p, <<"audio", a + 1>>)
      BY <1>2, <1>4, <2>1
    <3>2. ~Holds(p, <<"audio", a + 1>>)
      <4> SUFFICES ASSUME NEW i \in 1..Len(p), p[i] = <<"audio", a + 1>> PROVE FALSE
        BY DEF Holds
      <4>1. p[i][1] = h[1] /\ p[i][2] = a + 1
        BY <1>9
      <4>2. h[2] < p[i][2]
        BY <1>5, <4>1, Zenon
      <4> QED
        BY <2>1, <4>1, <4>2
    <3> QED
      BY <3>1, <3>2
  <2>3. ASSUME NEW n \in a+1+1..r PROVE Holds(p, <<"audio", n>>)
    <3>1. n \in a+1..r /\ n # a + 1
      OBVIOUS
    <3> QED
      BY <1>2, <1>4, <2>2, <3>1
  <2>4. ASSUME NEW i \in 1..Len(p)
        PROVE  p[i][2] \in (IF p[i][1] = "audio" THEN a+1+1..r ELSE t+1..s)
    <3>1. CASE p[i][1] = "audio"
      <4>1. p[i][2] \in a+1..r /\ a + 1 < p[i][2]
        BY <1>5, <1>6, <1>9, <2>2, <3>1
      <4>2. p[i][2] \in a+1+1..r
        BY <4>1
      <4> QED
        BY <3>1, <4>2
    <3>2. CASE p[i][1] # "audio"
      BY <1>6, <3>2
    <3> QED
      BY <3>1, <3>2
  <2>5. Fits(p, tag, a + 1, r, t, s)
    BY <1>4, <1>7, <1>8, <2>1, <2>3, <2>4 DEF Fits
  <2>6. h = <<"audio", a + 1>> /\ a + 1 <= r
    BY <1>3, <1>9, <2>1, <2>2
  <2> QED
    BY <2>5, <2>6 DEF p, h
<1>10. CASE h[1] = "title"
  <2>1. h[2] \in t+1..s
    BY <1>1, <1>4, <1>10
  <2>2. tag[h[2]] <= a + SinkCap + 1
    <3>1. /\ tag[h[2]] <= r + SinkCap + 1
          /\ \A j \in 1..Len(q) : q[j][1] = "audio" => tag[h[2]] <= q[j][2] + SinkCap
      BY <1>1, <1>4, <1>10
    <3>2. CASE a < r
      <4>1. a + 1 \in a+1..r
        BY <3>2
      <4>2. PICK j \in 1..Len(q) : q[j] = <<"audio", a + 1>>
        BY <1>4, <4>1 DEF Holds
      <4>3. tag[h[2]] <= a + 1 + SinkCap
        BY <3>1, <4>2
      <4>4. a + 1 + SinkCap = a + SinkCap + 1
        BY <1>4
      <4> QED
        BY <4>3, <4>4
    <3>3. CASE a = r
      BY <3>1, <3>3
    <3> QED
      BY <1>4, <3>2, <3>3
  <2>3. ASSUME NEW n \in a+1..r PROVE Holds(p, <<"audio", n>>)
    <3>1. <<"audio", n>> # h
      BY <1>10
    <3> QED
      BY <1>2, <1>4, <3>1
  <2>4. ASSUME NEW i \in 1..Len(p)
        PROVE  p[i][2] \in (IF p[i][1] = "audio" THEN a+1..r ELSE h[2]+1..s)
    <3>1. CASE p[i][1] = "title"
      <4>1. p[i][2] \in t+1..s /\ h[2] < p[i][2]
        BY <1>5, <1>6, <1>10, <3>1
      <4>2. \A x, y \in t+1..s : y < x => x \in y+1..s
        OBVIOUS
      <4>3. p[i][2] \in h[2]+1..s
        BY <2>1, <4>1, <4>2
      <4> QED
        BY <3>1, <4>3
    <3>2. CASE p[i][1] = "audio"
      BY <1>6, <3>2
    <3> QED
      BY <1>3, <3>1, <3>2
  <2>5. h[2] <= s
    BY <2>1
  <2>6. Fits(p, tag, a, r, h[2], s)
    BY <1>4, <1>7, <1>8, <2>3, <2>4, <2>5 DEF Fits
  <2>7. h = <<"title", h[2]>>
    BY <1>3, <1>10
  <2> QED
    BY <2>1, <2>2, <2>6, <2>7 DEF p, h
<1> QED
  BY <1>3, <1>9, <1>10

(* A title tag that has just been posted is not in the queue.              *)
LEMMA FitsTag ==
  ASSUME NEW q, NEW tag \in Seq(Nat), NEW a \in Nat, NEW r \in Nat, NEW t \in Nat,
         NEW s \in 0..Len(tag), Fits(q, tag, a, r, t, s), NEW x \in Nat
  PROVE  Fits(q, Append(tag, x), a, r, t, s)
<1>1. \A n \in 1..Len(tag) : Append(tag, x)[n] = tag[n]
  BY AppendProperties
<1>2. \A i \in 1..Len(q) : q[i][1] = "title" => Append(tag, x)[q[i][2]] = tag[q[i][2]]
  <2> SUFFICES ASSUME NEW i \in 1..Len(q), q[i][1] = "title" PROVE q[i][2] \in 1..Len(tag)
    BY <1>1
  <2>1. q[i][2] \in t+1..s
    BY DEF Fits
  <2>2. \A y \in t+1..s : y \in 1..Len(tag)
    <3>1. Len(tag) \in Nat
      BY LenProperties
    <3> QED
      BY <3>1
  <2> QED
    BY <2>1, <2>2, Zenon
<1> QED
  BY <1>2 DEF Fits

-----------------------------------------------------------------------------
(* The relay.                                                              *)

LEMMA RelayTypes ==
  ASSUME TypeOK, SourceInv, TakenInv
  PROVE  /\ Queue \in Seq(Messages) /\ gossip \in Seq(Messages) /\ taken \in Seq(Messages)
         /\ tagAt \in Seq(Nat) /\ Len(tagAt) \in Nat /\ seen \in 0..Len(tagAt)
         /\ LastTaken("audio") \in Nat /\ LastTaken("title") \in Nat /\ Read \in Nat
         /\ made <= Read + SinkCap + 1
<1>1. gossip \in Seq(Messages) /\ taken \in Seq(Messages) /\ held \in Messages \cup {<<>>}
  BY DEF TypeOK
<1>2. Queue \in Seq(Messages)
  BY <1>1, AppendProperties DEF Queue
<1>3. made \in Nat /\ 0..made \subseteq Nat
  BY DEF TypeOK
<1>4. tagAt \in Seq(Nat)
  BY <1>3, SeqMonotonic DEF TypeOK
<1>5. Len(tagAt) \in Nat /\ seen \in 0..Len(tagAt)
  BY <1>4, LenProperties DEF TypeOK
<1>6. LastTaken("audio") \in Nat /\ LastTaken("title") \in Nat
  BY <1>1, LastIs DEF TakenInv
<1>7. Read \in Nat /\ made <= Read + SinkCap + 1
  <2>1. Len(sink) \in Nat /\ Len(sink) <= SinkCap /\ Busy \in {0, 1}
    BY LenProperties DEF TypeOK, Busy
  <2> QED
    BY <1>3, <2>1, CapAssumption DEF SourceInv, Read
<1> QED
  BY <1>1, <1>2, <1>4, <1>5, <1>6, <1>7

(* Steps that move nothing between the source and the swarm.               *)
LEMMA RelaySame ==
  ASSUME RelayInv, UNCHANGED <<held, gossip, taken, seen, tagAt>>, Read' = Read,
         result'["swarm"] = result["swarm"]
  PROVE  RelayInv'
<1>1. UNCHANGED <<Queue, LastTaken("audio"), LastTaken("title")>>
  BY DEF Queue, LastTaken
<1> QED
  BY <1>1 DEF RelayInv

LEMMA RelayAudio ==
  ASSUME TypeOK, TypeOK', SourceInv, TakenInv, RelayInv, MsgLoopAudio
  PROVE  RelayInv'
<1> SUFFICES ASSUME result["swarm"] = "run"
             PROVE  Fits(Queue', tagAt', LastTaken("audio")', Read', LastTaken("title")', seen')
  BY DEF MsgLoopAudio, RelayInv, life
<1>1. /\ held = <<>> /\ UNCHANGED <<tagAt, seen, gossip, taken>>
      /\ Read' = Read + 1 /\ held' = <<"audio", Read + 1>>
  BY AudioRead DEF MsgLoopAudio
<1>2. held' # <<>> /\ held' \in Messages
  BY <1>1 DEF TypeOK
<1>3. Queue = gossip /\ Queue' = Append(gossip, <<"audio", Read + 1>>)
  BY <1>1, <1>2 DEF Queue
<1>4. UNCHANGED <<LastTaken("audio"), LastTaken("title")>>
  BY <1>1 DEF LastTaken, LastIn, NumbersIn
<1>5. Fits(gossip, tagAt, LastTaken("audio"), Read, LastTaken("title"), seen)
  BY <1>3 DEF RelayInv
<1> QED
  BY <1>1, <1>2, <1>3, <1>4, <1>5, FitsAudio, RelayTypes

(* The watch channel holds a title posted at most SinkCap + 1 packets      *)
(* after the last one read: the others are still with the source.          *)
LEMMA RelayTitle ==
  ASSUME TypeOK, TypeOK', SourceInv, TakenInv, RelayInv, MsgLoopTitle
  PROVE  RelayInv'
<1> SUFFICES ASSUME result["swarm"] = "run"
             PROVE  Fits(Queue', tagAt', LastTaken("audio")', Read', LastTaken("title")', seen')
  BY DEF MsgLoopTitle, RelayInv, life
<1>1. /\ held = <<>> /\ cell # seen /\ held' = <<"title", cell>> /\ seen' = cell
      /\ UNCHANGED <<made, callback, sink, tagAt, gossip, taken>>
  BY DEF MsgLoopTitle, BorrowAndUpdate, source
<1>2. held' # <<>> /\ held' \in Messages
  BY <1>1 DEF TypeOK
<1>3. Queue = gossip /\ Queue' = Append(gossip, held')
  BY <1>1, <1>2 DEF Queue
<1>4. UNCHANGED <<LastTaken("audio"), LastTaken("title"), Read>>
  BY <1>1 DEF LastTaken, LastIn, NumbersIn, Read, Busy
<1>5. Fits(gossip, tagAt, LastTaken("audio"), Read, LastTaken("title"), seen)
  BY <1>3 DEF RelayInv
<1>6. cell \in seen+1..Len(tagAt) /\ tagAt[cell] <= Read + SinkCap + 1
  <2>1. cell \in 0..Len(tagAt) /\ seen \in 0..cell
    BY DEF TypeOK
  <2>2. cell \in seen+1..Len(tagAt) /\ cell \in 1..Len(tagAt)
    BY <1>1, <2>1, RelayTypes
  <2>3. tagAt[cell] \in 0..made
    BY <2>2, ElementOfSeq DEF TypeOK
  <2>4. made \in Nat /\ made <= Read + SinkCap + 1 /\ Read \in Nat /\ SinkCap \in Nat
    <3>1. made \in Nat
      BY DEF TypeOK
    <3>2. SinkCap \in Nat
      BY CapAssumption
    <3> QED
      BY <3>1, <3>2, RelayTypes, Zenon
  <2> QED
    BY <2>2, <2>3, <2>4
<1>7. held'[1] = "title" /\ held'[2] = cell
  BY <1>1
<1> QED
  BY <1>1, <1>2, <1>3, <1>4, <1>5, <1>6, <1>7, FitsTitle, RelayTypes

(* What the swarm takes comes next in the order that Feed promises.        *)
LEMMA RelayTakes ==
  ASSUME TypeOK, SourceInv, TakenInv, RelayInv, SwarmPublish
  PROVE  LET a == LastTaken("audio")
             t == LastTaken("title")
             m == Head(gossip)
         IN  /\ m \in Messages /\ taken' = Append(taken, m)
             /\ \/ /\ m = <<"audio", a + 1>> /\ a + 1 <= Read
                   /\ Fits(Queue', tagAt, a + 1, Read, t, seen)
                \/ \E n \in t+1..seen : /\ m = <<"title", n>> /\ tagAt[n] <= a + SinkCap + 1
                                        /\ Fits(Queue', tagAt, a, Read, n, seen)
<1>1. /\ result["swarm"] = "run" /\ gossip # <<>> /\ held' = held
      /\ taken' = Append(taken, Head(gossip)) /\ gossip' = Tail(gossip)
  BY DEF SwarmPublish, Runs
<1>2. Head(gossip) \in Messages
  BY <1>1, RelayTypes, HeadTailProperties
<1>3. Queue # <<>> /\ Head(Queue) = Head(gossip) /\ Queue' = Tail(Queue)
  <2>1. CASE held = <<>>
    BY <1>1, <2>1 DEF Queue
  <2>2. CASE held # <<>>
    <3>1. held \in Messages
      BY <2>2 DEF TypeOK
    <3>2. Queue = Append(gossip, held) /\ Queue' = Append(Tail(gossip), held)
      BY <1>1, <2>2 DEF Queue
    <3>3. gossip \in Seq(Messages)
      BY RelayTypes
    <3>4. Head(Queue) = Head(gossip) /\ Queue' = Tail(Queue) /\ Queue # <<>>
      BY <1>1, <3>1, <3>2, <3>3, HeadTailAppend, AppendProperties
    <3> QED
      BY <3>4
  <2> QED
    BY <2>1, <2>2
<1>4. Fits(Queue, tagAt, LastTaken("audio"), Read, LastTaken("title"), seen)
  BY <1>1 DEF RelayInv
<1>5. \/ /\ Head(Queue) = <<"audio", LastTaken("audio") + 1>> /\ LastTaken("audio") + 1 <= Read
         /\ Fits(Tail(Queue), tagAt, LastTaken("audio") + 1, Read, LastTaken("title"), seen)
      \/ \E n \in LastTaken("title")+1..seen :
           /\ Head(Queue) = <<"title", n>> /\ tagAt[n] <= LastTaken("audio") + SinkCap + 1
           /\ Fits(Tail(Queue), tagAt, LastTaken("audio"), Read, n, seen)
  BY <1>3, <1>4, RelayTypes, FitsHead
<1> QED
  BY <1>1, <1>2, <1>3, <1>5

LEMMA RelayPublish ==
  ASSUME TypeOK, SourceInv, TakenInv, RelayInv, SwarmPublish
  PROVE  RelayInv' /\ TakenInv'
<1> DEFINE a == LastTaken("audio")
           t == LastTaken("title")
           m == Head(gossip)
<1>1. /\ m \in Messages /\ taken' = Append(taken, m)
      /\ \/ m = <<"audio", a + 1>> /\ Fits(Queue', tagAt, a + 1, Read, t, seen)
         \/ \E n \in t+1..seen : m = <<"title", n>> /\ Fits(Queue', tagAt, a, Read, n, seen)
  BY RelayTakes
<1>2. UNCHANGED <<result, tagAt, seen, Read>>
  BY DEF SwarmPublish, life, source, Read, Busy
<1>3. /\ taken \in Seq(Messages) /\ taken' \in Seq(Messages) /\ a \in Nat /\ t \in Nat
      /\ IsLast(taken, "audio", a) /\ IsLast(taken, "title", t)
  BY <1>1, RelayTypes, AppendProperties DEF TakenInv
<1>4. ASSUME NEW b, NEW u, IsLast(taken', "audio", b), IsLast(taken', "title", u),
             Fits(Queue', tagAt, b, Read, u, seen), 1..b \subseteq NumbersIn(taken', "audio")
      PROVE  RelayInv' /\ TakenInv'
  <2>1. LastTaken("audio")' = b /\ LastTaken("title")' = u
    BY <1>3, <1>4, LastIs DEF LastTaken
  <2> QED
    BY <1>2, <1>4, <2>1 DEF RelayInv, TakenInv
<1>5. CASE m = <<"audio", a + 1>> /\ Fits(Queue', tagAt, a + 1, Read, t, seen)
  <2>1. m[1] = "audio" /\ m[2] = a + 1 /\ a <= a + 1
    BY <1>3, <1>5
  <2>2. IsLast(taken', "audio", a + 1) /\ IsLast(taken', "title", t)
    BY <1>1, <1>3, <2>1, LastAppend
  <2>3. NumbersIn(taken', "audio") = NumbersIn(taken, "audio") \cup {a + 1}
    BY <1>1, <1>3, <2>1, NumbersAppend
  <2>4. 1..(a + 1) = 1..a \cup {a + 1}
    BY <1>3
  <2>5. 1..(a + 1) \subseteq NumbersIn(taken', "audio")
    BY <2>3, <2>4 DEF TakenInv
  <2> QED
    BY <1>4, <1>5, <2>2, <2>5
<1>6. ASSUME NEW n \in t+1..seen, m = <<"title", n>>, Fits(Queue', tagAt, a, Read, n, seen)
      PROVE  RelayInv' /\ TakenInv'
  <2>1. m[1] = "title" /\ m[2] = n /\ t <= n
    BY <1>3, <1>6
  <2>2. IsLast(taken', "title", n) /\ IsLast(taken', "audio", a)
    BY <1>1, <1>3, <2>1, LastAppend
  <2>3. 1..a \subseteq NumbersIn(taken', "audio")
    BY <1>1, <1>3, <2>1, NumbersAppend DEF TakenInv
  <2> QED
    BY <1>4, <1>6, <2>2, <2>3
<1> QED
  BY <1>1, <1>5, <1>6

LEMMA RelayStep ==
  TypeOK /\ BusInv /\ SourceInv /\ TakenInv /\ RelayInv /\ [Next]_vars
    => SourceInv' /\ TakenInv' /\ RelayInv'
<1> SUFFICES ASSUME TypeOK, BusInv, SourceInv, TakenInv, RelayInv, [Next]_vars
             PROVE  SourceInv' /\ TakenInv' /\ RelayInv'
  OBVIOUS
<1>1. TypeOK'
  BY TypeStep
<1>2. taken' = taken => TakenInv'
  BY DEF TakenInv, LastTaken
<1>3. CASE CallbackCalled \/ CallbackSends \/ EndPosted \/ MainLoopBus \/ MainLoopNull \/ Frame
  <2>1. /\ CallbackCalled \/ CallbackSends \/ UNCHANGED <<made, callback, sink>>
        /\ UNCHANGED <<held, gossip, taken, seen, tagAt>>
        /\ result'["swarm"] = result["swarm"]
    BY <1>3 DEF CallbackCalled, CallbackSends, EndPosted, MainLoopBus, MainLoopNull, Frame,
                data, source, relay, life
  <2> QED
    BY <1>2, <2>1, SourceFrame, RelaySame
<1>4. CASE TagPosted
  <2>1. /\ UNCHANGED <<made, callback, sink, held, gossip, taken, seen, result>>
        /\ tagAt' = Append(tagAt, made) /\ made \in Nat
    BY <1>4 DEF TagPosted, relay, life, TypeOK
  <2>2. SourceInv' /\ Read' = Read
    BY <2>1, SourceFrame
  <2>3. UNCHANGED <<Queue, LastTaken("audio"), LastTaken("title")>>
    BY <2>1 DEF Queue, LastTaken
  <2>4. RelayInv'
    BY <2>1, <2>2, <2>3, FitsTag, RelayTypes DEF RelayInv
  <2> QED
    BY <1>2, <2>1, <2>2, <2>4
<1>5. CASE MsgLoopAudio
  <2>1. taken' = taken
    BY <1>5 DEF MsgLoopAudio
  <2> QED
    BY <1>1, <1>2, <1>5, <2>1, AudioRead, RelayAudio
<1>6. CASE MsgLoopTitle
  <2>1. UNCHANGED <<made, callback, sink, taken>>
    BY <1>6 DEF MsgLoopTitle, source
  <2> QED
    BY <1>1, <1>2, <1>6, <2>1, SourceFrame, RelayTitle
<1>7. CASE MsgLoopSend
  <2>1. UNCHANGED <<made, callback, sink, taken, seen, tagAt>> /\ held # <<>>
    BY <1>7 DEF MsgLoopSend, source
  <2>2. CASE gossip' = Append(gossip, held) /\ held' = <<>> /\ UNCHANGED result
    <3>1. Queue' = Queue
      BY <2>1, <2>2 DEF Queue
    <3>2. UNCHANGED <<LastTaken("audio"), LastTaken("title"), Read>>
      BY <2>1 DEF LastTaken, Read, Busy
    <3>3. RelayInv'
      BY <2>1, <2>2, <3>1, <3>2 DEF RelayInv
    <3> QED
      BY <1>2, <2>1, <3>3, SourceFrame
  <2>3. CASE result["swarm"] # "run" /\ Ends("msgLoop", "err")
    <3>1. result'["swarm"] # "run"
      BY <2>3 DEF Ends, TypeOK, Tasks
    <3> QED
      BY <1>2, <2>1, <3>1, SourceFrame DEF RelayInv
  <2> QED
    BY <1>7, <2>2, <2>3 DEF MsgLoopSend
<1>8. CASE SwarmPublish
  <2>1. UNCHANGED <<made, callback, sink>>
    BY <1>8 DEF SwarmPublish, source
  <2> QED
    BY <1>8, <2>1, SourceFrame, RelayPublish
<1>9. CASE SwarmCancelled
  <2>1. UNCHANGED <<made, callback, sink, taken>> /\ result'["swarm"] # "run"
    BY <1>9 DEF SwarmCancelled, source, Ends, TypeOK, Tasks
  <2> QED
    BY <1>2, <2>1, SourceFrame DEF RelayInv
<1> QED
  BY <1>3, <1>4, <1>5, <1>6, <1>7, <1>8, <1>9, StepCases, LifeFrame

LEMMA InitInv == Init => IInv
<1> SUFFICES ASSUME Init PROVE IInv
  OBVIOUS
<1>1. /\ Len(<<>>) = 0 /\ <<>> \in Seq(Messages)
  OBVIOUS
<1>2. ASSUME NEW kind PROVE IsLast(taken, kind, 0) /\ LastTaken(kind) = 0
  <2>1. IsLast(taken, kind, 0)
    BY <1>1 DEF IsLast, NumbersIn, Init
  <2> QED
    BY <1>1, <2>1, LastIs DEF LastTaken, Init
<1>3. SourceInv /\ BusInv /\ Read = 0
  <2>1. Len(sink) = 0 /\ Len(tagAt) = 0 /\ Len(bus) = 0 /\ made = 0 /\ callback = 0
    BY <1>1 DEF Init
  <2>2. Read = 0 /\ 1..0 = {}
    BY <2>1 DEF Read, Busy
  <2> QED
    BY <2>1, <2>2, BoundAssumption DEF SourceInv, BusInv
<1>4. TakenInv
  BY <1>2 DEF TakenInv
<1>5. RelayInv
  <2>1. Queue = <<>> /\ seen = 0
    BY DEF Init, Queue
  <2>2. Fits(<<>>, tagAt, 0, 0, 0, 0)
    BY <1>1 DEF Fits
  <2> QED
    BY <1>2, <1>3, <2>1, <2>2 DEF RelayInv
<1>6. EndInv
  BY DEF Init, EndInv, Tasks
<1> QED
  BY <1>3, <1>4, <1>5, <1>6, TypeInit DEF IInv

(* The inductive invariant holds in every reachable state. *)
THEOREM Invariance == Spec => []IInv
<1>1. IInv /\ [Next]_vars => IInv'
  BY TypeStep, BusKept, RelayStep, EndStep DEF IInv
<1> QED
  BY InitInv, <1>1, PTL DEF Spec

(* Every variable keeps its type: the channels never hold more than they   *)
(* can, and main_loop and msg_loop only see titles that were posted.       *)
THEOREM TypeCorrect == Spec => []TypeOK
BY Invariance, PTL DEF IInv

-----------------------------------------------------------------------------
(* Until an interrupt, a packet GStreamer made is in the callback, in a    *)
(* channel, in the hands of msg_loop or with the swarm, however long each  *)
(* of them has to wait and whatever ends.                                  *)
THEOREM NothingEverLost == Spec => []NothingLost
<1>1. IInv => NothingLost
  <2> SUFFICES ASSUME IInv, ~cancel, NEW n \in 1..made
               PROVE  \/ n = callback \/ held = <<"audio", n>>
                      \/ Holds(sink, n) \/ Holds(gossip \o taken, <<"audio", n>>)
    BY DEF NothingLost
  <2> DEFINE a == LastTaken("audio")
  <2>1. /\ Queue \in Seq(Messages) /\ gossip \in Seq(Messages) /\ taken \in Seq(Messages)
        /\ a \in Nat /\ Read \in Nat
    BY RelayTypes DEF IInv
  <2>2. Fits(Queue, tagAt, a, Read, LastTaken("title"), seen)
    BY DEF IInv, EndInv, RelayInv
  <2>3. CASE n <= a
    <3>1. n \in NumbersIn(taken, "audio")
      BY <2>1, <2>3 DEF IInv, TakenInv
    <3>2. PICK i \in 1..Len(taken) : taken[i][1] = "audio" /\ taken[i][2] = n
      BY <3>1 DEF NumbersIn
    <3>3. taken[i] = <<"audio", n>>
      BY <2>1, <3>2, ElementOfSeq, MessageParts
    <3>4. Holds(taken, <<"audio", n>>)
      BY <3>3 DEF Holds
    <3> QED
      BY <2>1, <3>4, HoldsConcat
  <2>4. CASE n > a /\ n <= Read
    <3>1. n \in a+1..Read
      BY <2>1, <2>4
    <3>2. Holds(Queue, <<"audio", n>>)
      BY <2>2, <3>1 DEF Fits
    <3>3. Holds(gossip, <<"audio", n>>) \/ held = <<"audio", n>>
      <4>1. CASE held = <<>>
        BY <3>2, <4>1 DEF Queue
      <4>2. CASE held # <<>>
        <5>1. held \in Messages /\ Queue = Append(gossip, held)
          BY <4>2 DEF IInv, TypeOK, Queue
        <5> QED
          BY <2>1, <3>2, <5>1, HoldsAppend
      <4> QED
        BY <4>1, <4>2
    <3> QED
      BY <2>1, <3>3, HoldsConcat
  <2>5. CASE n > Read
    <3>1. /\ made = Read + Len(sink) + Busy /\ Len(sink) \in Nat /\ made \in Nat
          /\ \A i \in 1..Len(sink) : sink[i] = Read + i
          /\ callback \in {0, made}
      BY <2>1, LenProperties DEF IInv, TypeOK, SourceInv, Read, Busy
    <3>2. CASE n - Read \in 1..Len(sink)
      <4>1. sink[n - Read] = n
        BY <2>1, <3>1, <3>2
      <4> QED
        BY <3>2, <4>1 DEF Holds
    <3>3. CASE n - Read \notin 1..Len(sink)
      <4>1. Busy = 1 /\ n = made
        BY <2>1, <2>5, <3>1, <3>3 DEF Busy
      <4> QED
        BY <3>1, <4>1 DEF Busy
    <3> QED
      BY <3>2, <3>3
  <2>6. n <= a \/ (n > a /\ n <= Read) \/ n > Read
    BY <2>1
  <2> QED
    BY <2>3, <2>4, <2>5, <2>6
<1> QED
  BY Invariance, <1>1, PTL

(* The end of the stream, a failure and a stopped task are never reported  *)
(* as a cancellation: None is handed up to main only after the token.      *)
THEOREM NoneAlwaysInterrupted == Spec => NoneMeansInterrupted
<1>1. ASSUME IInv, [Next]_vars, result'["main"] = "none" PROVE cancel
  <2>1. CASE result["main"] = "none"
    BY <1>1, <2>1 DEF IInv, EndInv, Tasks
  <2>2. CASE result["main"] # "none"
    <3>1. result["node"] = "none"
      BY <1>1, <2>2
         DEF IInv, TypeOK, Tasks, Next, vars, life, MakeNext, MakeFails, CallbackCalled,
             CallbackSends, TagPosted, EndPosted, MainLoopStarts, MainLoopBus,
             MainLoopCancelled, MainLoopNull, MsgLoopAudio, MsgLoopTitle, MsgLoopSend,
             MsgLoopElse, SwarmPublish, SwarmCancelled, ServerReturns, BackendReturns,
             NodeReturns, FirstOf, JustEnds, MainReturns, CtrlC, Ends, Handled
    <3> QED
      BY <1>1, <3>1 DEF IInv, EndInv, Tasks
  <2> QED
    BY <2>1, <2>2
<1>2. IInv /\ [Next]_vars => [result'["main"] = "none" => cancel]_vars
  BY <1>1
<1> QED
  BY Invariance, <1>2, PTL DEF Spec, NoneMeansInterrupted

-----------------------------------------------------------------------------
(* The refinement.                                                         *)

LEMMA SameLast == \A kind : Promise!Last(kind) = LastTaken(kind)
BY DEF Promise!Last, Promise!Numbers, LastTaken, LastIn, NumbersIn

LEMMA TakeRefines ==
  ASSUME TypeOK, SourceInv, TakenInv, RelayInv, SwarmPublish
  PROVE  \E m \in Messages : Promise!Take(m)
<1> DEFINE a == LastTaken("audio")
           t == LastTaken("title")
           m == Head(gossip)
<1>1. /\ m \in Messages /\ taken' = Append(taken, m)
      /\ \/ m = <<"audio", a + 1>> /\ a + 1 <= Read
         \/ \E n \in t+1..seen : m = <<"title", n>> /\ tagAt[n] <= a + SinkCap + 1
  BY RelayTakes
<1>2. UNCHANGED <<made, tagAt>>
  BY DEF SwarmPublish, source
<1>3. a \in Nat /\ t \in Nat /\ Read <= made /\ seen \in 0..Len(tagAt) /\ Len(tagAt) \in Nat
      /\ Read \in Nat /\ made \in Nat
  <2>1. made \in Nat /\ Len(sink) \in Nat /\ Busy \in {0, 1}
    BY LenProperties DEF TypeOK, Busy
  <2>2. Read <= made
    BY <2>1 DEF Read
  <2> QED
    BY <2>1, <2>2, RelayTypes
<1>4. CASE m = <<"audio", a + 1>> /\ a + 1 <= Read
  <2>1. m[1] = "audio" /\ m[2] = a + 1 /\ m[2] <= made
    BY <1>3, <1>4
  <2> QED
    BY <1>1, <1>2, <2>1, SameLast DEF Promise!Take
<1>5. ASSUME NEW n \in t+1..seen, m = <<"title", n>>, tagAt[n] <= a + SinkCap + 1
      PROVE  \E k \in Messages : Promise!Take(k)
  <2>1. m[1] = "title" /\ m[2] = n /\ n > t /\ n <= Len(tagAt)
    BY <1>3, <1>5
  <2>2. tagAt[n] <= a + (SinkCap + 1)
    <3>1. a + (SinkCap + 1) = a + SinkCap + 1
      BY <1>3, CapAssumption
    <3> QED
      BY <1>5, <3>1
  <2> QED
    BY <1>1, <1>2, <2>1, <2>2, SameLast DEF Promise!Take
<1> QED
  BY <1>1, <1>4, <1>5

LEMMA StepRefines == IInv /\ [Next]_vars => [Promise!Next]_(Promise!vars)
<1> SUFFICES ASSUME IInv, [Next]_vars PROVE [Promise!Next]_(Promise!vars)
  OBVIOUS
<1>1. CASE CallbackCalled
  BY <1>1 DEF CallbackCalled, relay, Promise!Next, Promise!Make
<1>2. CASE TagPosted
  BY <1>2 DEF TagPosted, relay, Promise!Next, Promise!Tag
<1>3. CASE SwarmPublish
  <2>1. Promise!Messages = Messages
    BY DEF Promise!Messages, Messages, Packets, Titles
  <2> QED
    BY <1>3, <2>1, TakeRefines DEF IInv, Promise!Next
<1>4. CASE \/ CallbackSends \/ EndPosted \/ MainLoopBus \/ MainLoopNull \/ MsgLoopAudio
           \/ MsgLoopTitle \/ MsgLoopSend \/ SwarmCancelled \/ Frame
  <2>1. UNCHANGED <<made, tagAt, taken>>
    BY <1>4
       DEF CallbackSends, EndPosted, MainLoopBus, MainLoopNull, MsgLoopAudio, MsgLoopTitle,
           MsgLoopSend, SwarmCancelled, Frame, data, source, relay
  <2> QED
    BY <2>1 DEF Promise!vars
<1> QED
  BY <1>1, <1>2, <1>3, <1>4, StepCases, LifeFrame DEF IInv

(* The threads, the channels, the watch channel and every way of ending    *)
(* amount to a source that makes packets and titles and a network that     *)
(* takes them: audio without a gap, and titles that only move forward and  *)
(* pass no more packets than wait in the callback and its channel.         *)
THEOREM ImplementsFeed == Spec => KeepsFeed
<1>1. Init => Promise!Init
  BY DEF Init, Promise!Init
<1> QED
  BY Invariance, <1>1, StepRefines, PTL DEF Spec, KeepsFeed, Promise!Spec
=============================================================================
