----------------------------- MODULE RadioProofs -----------------------------
(***************************************************************************)
(* Radio for any lead, channel and source, however often the nodes are     *)
(* started again, whatever is lost, comes late or is relayed: the type     *)
(* invariant, that a listener plays what its station hands over, each      *)
(* message once and those that come in their turn in order, that a title   *)
(* is outdated only for a reason, and that it is early by no more than the *)
(* two nodes' channels.                                                    *)
(***************************************************************************)
EXTENDS Radio, SequenceTheorems, FiniteSetTheorems

(* What is in the air and what was accepted, the messages the station can  *)
(* say, and what the listener makes of something in the air.               *)
Entries == Peers \X Seq(Byte) \X Ways

Accepted == Peers \X Message \X Ways

Text(m) == <<m[1], <<m[2]>>>>

Plain == {Text(m) : m \in F!Messages}

Said(c) == Decode(c[2])

Valid(c) == Said(c) # Invalid

(* What the source has published is numbered upwards, and its packets      *)
(* without a gap; a title has not passed more than Lead packets.           *)
Taken == {taken[i] : i \in 1..Len(taken)}

NumbersIn(q, kind) == {q[i][2] : i \in {j \in 1..Len(q) : q[j][1] = kind}}

IsLast(q, kind, n) ==
  n \in {0} \cup NumbersIn(q, kind) /\ \A m \in NumbersIn(q, kind) : m <= n

LastIn(q, kind) ==
  CHOOSE n \in {0} \cup NumbersIn(q, kind) : \A k \in {0} \cup NumbersIn(q, kind) : k <= n

LastTaken(kind) == LastIn(taken, kind)

Published(p, q) == p[2][1] <= LastIn(q, p[1])

TakenInv ==
  /\ \A kind \in {"audio", "title"} : IsLast(taken, kind, LastTaken(kind))
  /\ 1..LastTaken("audio") \subseteq NumbersIn(taken, "audio")
  /\ LastTaken("title") <= Len(tagAt)
  /\ \A t \in NumbersIn(taken, "title") : tagAt[t] <= LastTaken("audio") + Lead
  /\ missed \subseteq Taken

(* A node that is off has nothing, and none is tuned to a process to come. *)
NodeInv ==
  /\ station <= faults + 1 /\ tuned <= station
  /\ ~playing => air = <<>> /\ got = <<>> /\ title = 0 /\ pushed = <<>>

(* What a station says itself it has published, and it is in the books as  *)
(* said in its turn or as said late.                                       *)
Sent(p, way, q, lost, again) ==
  /\ Published(p, q)
  /\ way = "turn" => <<p[1], p[2][1]>> \notin lost
  /\ way = "late" => <<p[1], p[2][1]>> \in again

InAir(c) ==
  /\ c[1] <= station
  /\ Own(c) =>
       /\ Said(c) \in Plain
       /\ c[1] = station => Sent(Said(c), c[3], taken, missed, late)

AirInv == \A j \in 1..Len(air) : InAir(air[j])

(* The listener has only what came from the process it is tuned to.        *)
HasGot(x) ==
  /\ x[1] = tuned
  /\ Own(x) =>
       /\ x[2] \in Plain
       /\ tuned = station => Sent(x[2], x[3], taken, missed, late)

GotInv == \A n \in 1..Len(got) : HasGot(got[n])

(* Messages of a kind arrive once, and in the order of their numbers where *)
(* they arrive in their turn.                                              *)
After(m, n, way) == m[1] = n[1] => m[2][1] # n[2][1] /\ (way = "turn" => m[2][1] < n[2][1])

OrderOf(a, g, p) ==
  /\ \A i, j \in 1..Len(a) :
       i < j /\ a[i][1] = a[j][1] /\ Own(a[i]) /\ Own(a[j])
         => After(Said(a[i]), Said(a[j]), a[j][3])
  /\ \A i, j \in 1..Len(g) :
       i < j /\ Own(g[i]) /\ Own(g[j]) => After(g[i][2], g[j][2], g[j][3])
  /\ \A i \in 1..Len(g), j \in 1..Len(a) :
       a[j][1] = p /\ Own(g[i]) /\ Own(a[j]) => After(g[i][2], Said(a[j]), a[j][3])

OrderInv == OrderOf(air, got, tuned)

(* The packets before message n that are still to be pushed.               *)
Waits(n) == {m \in L!LastPushed+1..n-1 : Kind(m) = "audio"}

PlayInv ==
  /\ \A i \in 1..Len(pushed) : Kind(pushed[i]) = "audio"
  /\ \A i, j \in 1..Len(pushed) : i < j => pushed[i] < pushed[j]
  /\ \A n \in 1..L!LastPushed :
       Kind(n) = "audio" => \E i \in 1..Len(pushed) : pushed[i] = n
  /\ title # 0 => Kind(title) = "title" /\ Cardinality(Waits(title)) <= AudioCap

(* Message m did not come in its turn, is among the first n messages       *)
(* accepted, or is in its turn among the first j in the air.               *)
Seen(lost, g, n, a, j, s, m) ==
  \/ m \in lost
  \/ \E i \in 1..n : Own(g[i]) /\ g[i][2] = Text(m)
  \/ \E i \in 1..j : a[i] = <<s, Bytes(m), "turn">>

(* Title t passes only the packets after these.                            *)
Ahead(tags, t) == {k \in 1..tags[t] : k + Lead <= tags[t]}

(* Every message published is seen, and before a title all packets that it *)
(* may not pass.                                                           *)
SeenOf(lost, g, a, s, all, tags) ==
  /\ \A m \in all : Seen(lost, g, Len(g), a, Len(a), s, m)
  /\ \A n \in 1..Len(g) : Own(g[n]) /\ g[n][2][1] = "title" =>
       \A k \in Ahead(tags, g[n][2][2][1]) : Seen(lost, g, n - 1, a, 0, s, <<"audio", k>>)
  /\ \A j \in 1..Len(a) : a[j][1] = s /\ Own(a[j]) /\ Said(a[j])[1] = "title" =>
       \A k \in Ahead(tags, Said(a[j])[2][1]) : Seen(lost, g, Len(g), a, j - 1, s, <<"audio", k>>)

SeenInv ==
  tuned = station /\ playing => SeenOf(missed, got, air, station, Taken, tagAt)

IInv ==
  /\ TypeOK /\ TakenInv /\ NodeInv /\ AirInv /\ GotInv /\ OrderInv /\ PlayInv
  /\ SeenInv
-----------------------------------------------------------------------------
(* The data the nodes handle.                                              *)

LEMMA Bounds ==
  /\ Lead \in Nat /\ AudioCap \in Nat /\ MaxPackets \in Nat /\ MaxTitles \in Nat
  /\ MaxFaults \in Nat
BY BoundAssumption

LEMMA MessageParts ==
  ASSUME NEW m \in F!Messages
  PROVE  /\ m[1] \in {"audio", "title"} /\ m[2] \in Nat \ {0} /\ m = <<m[1], m[2]>>
         /\ Bytes(m) \in Seq(Byte) /\ Decode(Bytes(m)) = Text(m)
         /\ Text(m) \in Plain
<1>1. m[1] \in {"audio", "title"} /\ m[2] \in Nat \ {0} /\ m = <<m[1], m[2]>>
  BY Bounds DEF F!Messages
<1>2. Text(m) \in Message
  BY SourceAssumption DEF Text
<1> DEFINE p == <<m[1], <<m[2]>>>>
<1>3. p[2] \in Seq(Byte) /\ p = Text(m)
  BY <1>2, Utf8Assumption DEF Message, Text
<1>4. Bytes(m) \in Seq(Byte)
  BY <1>3, ByteAssumption DEF Bytes, Encode, Prefixed
<1>5. Decode(Bytes(m)) = p
  BY <1>2, <1>3, RoundTrip DEF Bytes
<1> QED
  BY <1>1, <1>3, <1>4, <1>5 DEF Plain

LEMMA TextParts ==
  ASSUME NEW m \in F!Messages
  PROVE  /\ Text(m)[1] = m[1] /\ Text(m)[2][1] = m[2]
         /\ <<Text(m)[1], Text(m)[2][1]>> = m
BY MessageParts DEF Text

LEMMA PlainParts ==
  ASSUME NEW p \in Plain
  PROVE  /\ p \in Message /\ p # Invalid
         /\ p[1] \in {"audio", "title"} /\ p[2][1] \in Nat \ {0}
         /\ <<p[1], p[2][1]>> \in F!Messages /\ p = Text(<<p[1], p[2][1]>>)
<1>1. PICK m \in F!Messages : p = Text(m)
  BY DEF Plain
<1>2. m[1] \in {"audio", "title"} /\ m[2] \in Nat \ {0} /\ m = <<m[1], m[2]>>
  BY MessageParts
<1>3. p[1] = m[1] /\ p[2][1] = m[2]
  BY <1>1 DEF Text
<1>4. p \in Message
  BY <1>1, SourceAssumption DEF Text
<1>5. p # Invalid
  BY <1>2, <1>3 DEF Invalid
<1> QED
  BY <1>1, <1>2, <1>3, <1>4, <1>5

(* A station's own messages are understood.                                *)
LEMMA OwnParts ==
  ASSUME TypeOK, NEW m \in F!Messages, NEW way \in Ways, NEW c, c = <<station, Bytes(m), way>>
  PROVE  /\ c \in Entries /\ c[1] = station /\ c[3] = way
         /\ Said(c) = Text(m) /\ Valid(c) /\ Said(c) \in Plain
         /\ Said(c)[1] = m[1] /\ Said(c)[2][1] = m[2]
<1>1. c[1] = station /\ c[2] = Bytes(m) /\ c[3] = way
  OBVIOUS
<1>2. c \in Entries
  BY MessageParts DEF Entries, TypeOK
<1>3. Said(c) = Text(m) /\ Said(c) \in Plain
  BY <1>1, MessageParts DEF Said
<1>4. Valid(c)
  BY <1>3, PlainParts DEF Valid
<1> QED
  BY <1>1, <1>2, <1>3, <1>4, TextParts

(* What somebody else says is in the air all the same.                     *)
LEMMA StrayParts ==
  ASSUME TypeOK, NEW bytes \in Strays, NEW c, c = <<station, bytes, "relayed">>
  PROVE  c \in Entries /\ c[1] = station /\ ~Own(c)
<1>1. bytes \in Seq(Byte)
  BY StraysAssumption
<1> QED
  BY <1>1 DEF Entries, TypeOK, Own, Ways

(* What is accepted.                                                       *)
LEMMA AcceptedParts ==
  ASSUME NEW c \in Entries, Valid(c), NEW x, x = <<c[1], Said(c), c[3]>>
  PROVE  x \in Accepted /\ x[1] = c[1] /\ x[2] = Said(c) /\ x[3] = c[3]
<1>1. c[1] \in Peers /\ c[2] \in Seq(Byte) /\ c[3] \in Ways
  BY DEF Entries
<1>2. Said(c) \in Message
  BY <1>1, Canonical DEF Valid, Said
<1> QED
  BY <1>1, <1>2 DEF Accepted

(* Who says a message of the station's own, and how it comes.              *)
LEMMA WayParts ==
  /\ \A c \in Entries : Own(c) => c[3] \in {"turn", "late"}
  /\ \A x \in Accepted : Own(x) => x[3] \in {"turn", "late"}
BY DEF Entries, Accepted, Ways, Own

LEMMA EntryTypes ==
  ASSUME TypeOK
  PROVE  /\ air \in Seq(Entries) /\ got \in Seq(Accepted)
         /\ \A j \in 1..Len(air) : air[j] \in Entries
         /\ \A n \in 1..Len(got) : got[n] \in Accepted
<1>1. air \in Seq(Entries) /\ got \in Seq(Accepted)
  BY DEF TypeOK, Entries, Accepted
<1> QED
  BY <1>1, ElementOfSeq

LEMMA AppendParts ==
  ASSUME NEW S, NEW q \in Seq(S), NEW x \in S
  PROVE  /\ Append(q, x) \in Seq(S) /\ Len(q) \in Nat /\ Len(Append(q, x)) = Len(q) + 1
         /\ Append(q, x)[Len(q) + 1] = x
         /\ \A i \in 1..Len(q) : Append(q, x)[i] = q[i]
         /\ \A i \in 1..Len(Append(q, x)) : i = Len(q) + 1 \/ i \in 1..Len(q)
<1>1. /\ Append(q, x) \in Seq(S) /\ Len(q) \in Nat /\ Len(Append(q, x)) = Len(q) + 1
      /\ Append(q, x)[Len(q) + 1] = x
      /\ \A i \in 1..Len(q) : Append(q, x)[i] = q[i]
  BY AppendProperties, LenProperties
<1>2. \A i \in 1..Len(Append(q, x)) : i = Len(q) + 1 \/ i \in 1..Len(q)
  BY <1>1
<1> QED
  BY <1>1, <1>2

LEMMA AppendElement ==
  ASSUME NEW S, NEW q \in Seq(S), NEW x \in S, NEW j \in 1..Len(Append(q, x))
  PROVE  Append(q, x)[j] = x \/ (j \in 1..Len(q) /\ Append(q, x)[j] = q[j])
BY AppendParts

LEMMA TailParts ==
  ASSUME NEW S, NEW q \in Seq(S), q # <<>>
  PROVE  /\ Tail(q) \in Seq(S) /\ Head(q) \in S /\ Len(q) \in Nat \ {0}
         /\ Len(Tail(q)) = Len(q) - 1
         /\ Head(q) = q[1] /\ 1 \in 1..Len(q)
         /\ \A i \in 1..Len(Tail(q)) :
              Tail(q)[i] = q[i + 1] /\ i + 1 \in 1..Len(q) /\ 1 < i + 1
         /\ \A i \in 1..Len(q) :
              i = 1 \/ (i - 1 \in 1..Len(Tail(q)) /\ Tail(q)[i - 1] = q[i])
<1>1. /\ Tail(q) \in Seq(S) /\ Head(q) \in S /\ Len(q) \in Nat \ {0}
      /\ Len(Tail(q)) = Len(q) - 1 /\ Head(q) = q[1]
      /\ \A i \in 1..Len(Tail(q)) : Tail(q)[i] = q[i + 1]
  BY HeadTailProperties, EmptySeq
<1>2. 1 \in 1..Len(q) /\ \A i \in 1..Len(Tail(q)) : i + 1 \in 1..Len(q) /\ 1 < i + 1
  BY <1>1
<1>3. \A i \in 1..Len(q) :
        i = 1 \/ (i - 1 \in 1..Len(Tail(q)) /\ (i - 1) + 1 = i)
  BY <1>1
<1>4. \A i \in 1..Len(q) :
        i = 1 \/ (i - 1 \in 1..Len(Tail(q)) /\ Tail(q)[i - 1] = q[i])
  BY <1>1, <1>3
<1> QED
  BY <1>1, <1>2, <1>4

(* Intake is told the kinds of what was accepted.                          *)
LEMMA HeardParts ==
  ASSUME TypeOK, NEW h, h = [n \in 1..Len(got) |-> Kind(n)]
  PROVE  Len(h) = Len(got) /\ \A n \in 1..Len(got) : h[n] = Kind(n)
<1>1. Len(got) \in Nat
  BY DEF TypeOK
<1>2. h \in [1..Len(got) -> {Kind(n) : n \in 1..Len(got)}]
  OBVIOUS
<1>3. h \in Seq({Kind(n) : n \in 1..Len(got)})
  BY <1>1, <1>2, SeqDef
<1> QED
  BY <1>1, <1>3, LenProperties

-----------------------------------------------------------------------------
(* What each step does, as far as the proofs need it.                      *)

LEMMA LastNames == \A kind : F!Last(kind) = LastTaken(kind) /\ F!Numbers(kind) = NumbersIn(taken, kind)
BY DEF F!Last, F!Numbers, LastTaken, LastIn, NumbersIn

LEMMA NumberTypes ==
  ASSUME TypeOK
  PROVE  /\ station \in Nat \ {0} /\ tuned \in Nat /\ faults \in Nat /\ title \in Nat
         /\ Len(air) \in Nat /\ Len(got) \in Nat /\ Len(taken) \in Nat /\ Len(tagAt) \in Nat
         /\ Len(pushed) \in Nat
<1>1. station \in Nat \ {0} /\ tuned \in Nat /\ faults \in Nat
  BY Bounds DEF TypeOK, Peers
<1>2. /\ Len(air) \in Nat /\ Len(got) \in Nat /\ Len(taken) \in Nat /\ Len(tagAt) \in Nat
      /\ Len(pushed) \in Nat
  BY LenProperties DEF TypeOK
<1>3. title \in Nat
  BY <1>2 DEF TypeOK
<1> QED
  BY <1>1, <1>2, <1>3

(* Nothing is of every type.                                               *)
LEMMA OffTypes ==
  /\ Len(<<>>) = 0 /\ 1..0 = {} /\ 0 \in 0..Len(<<>>) /\ \A S : <<>> \in Seq(S)
OBVIOUS

LEMMA SourceMoves ==
  ASSUME TypeOK, SourceGoesOn
  PROVE  /\ UNCHANGED <<taken, station, missed, late, air, tuned, intake, faults>>
         /\ made' \in 0..MaxPackets /\ tagAt' \in Seq(0..made')
         /\ Len(tagAt) \in Nat /\ Len(tagAt) <= Len(tagAt')
         /\ \A t \in 1..Len(tagAt) : tagAt'[t] = tagAt[t]
<1>1. CASE F!Make
  <2>1. made' = made + 1 /\ made' \in 0..MaxPackets /\ 0..made \subseteq 0..made'
    BY <1>1, Bounds DEF F!Make, TypeOK
  <2>2. tagAt' = tagAt /\ tagAt' \in Seq(0..made')
    BY <1>1, <2>1, SeqMonotonic DEF F!Make, TypeOK
  <2> QED
    BY <1>1, <2>1, <2>2, LenProperties DEF F!Make, SourceGoesOn, TypeOK
<1>2. CASE F!Tag
  <2>1. tagAt' = Append(tagAt, made) /\ made \in 0..made /\ tagAt \in Seq(0..made)
    BY <1>2 DEF F!Tag, TypeOK
  <2>2. made' = made /\ made \in 0..MaxPackets /\ taken' = taken
    BY <1>2 DEF F!Tag, TypeOK
  <2>3. /\ tagAt' \in Seq(0..made) /\ Len(tagAt) \in Nat /\ Len(tagAt') = Len(tagAt) + 1
        /\ \A t \in 1..Len(tagAt) : tagAt'[t] = tagAt[t]
    BY <2>1, AppendParts
  <2> QED
    BY <2>2, <2>3 DEF SourceGoesOn
<1> QED
  BY <1>1, <1>2 DEF SourceGoesOn

(* A message is taken, and is appended to the air, or is missed, or no one *)
(* is there to hear it.                                                    *)
LEMMA PublishMoves ==
  ASSUME TypeOK, NEW m \in F!Messages, Publish(m)
  PROVE  /\ UNCHANGED <<made, tagAt, station, late, tuned, intake>>
         /\ taken' = Append(taken, m) /\ taken' \in Seq(F!Messages)
         /\ \/ m[1] = "audio" /\ m[2] = LastTaken("audio") + 1
            \/ /\ m[1] = "title" /\ m[2] > LastTaken("title") /\ m[2] <= Len(tagAt)
               /\ tagAt[m[2]] <= LastTaken("audio") + Lead
         /\ faults' \in 0..MaxFaults /\ faults <= faults'
         /\ \/ playing /\ air' = Append(air, <<station, Bytes(m), "turn">>) /\ missed' = missed
            \/ playing /\ air' = air /\ missed' = missed \cup {m}
            \/ ~playing /\ air' = air /\ missed' = missed
<1>1. F!Take(m) /\ UNCHANGED <<made, tagAt, station, late, tuned, intake>>
  BY DEF Publish, F!Take
<1>2. taken' = Append(taken, m) /\ taken' \in Seq(F!Messages)
  BY <1>1, AppendParts DEF F!Take, TypeOK
<1>3. \/ m[1] = "audio" /\ m[2] = LastTaken("audio") + 1
      \/ /\ m[1] = "title" /\ m[2] > LastTaken("title") /\ m[2] <= Len(tagAt)
         /\ tagAt[m[2]] <= LastTaken("audio") + Lead
  BY <1>1, LastNames DEF F!Take
<1>4. faults' \in 0..MaxFaults /\ faults <= faults'
  BY Bounds DEF Publish, Fault, TypeOK
<1>5. \/ playing /\ air' = Append(air, <<station, Bytes(m), "turn">>) /\ missed' = missed
      \/ playing /\ air' = air /\ missed' = missed \cup {m}
      \/ ~playing /\ air' = air /\ missed' = missed
  BY DEF Publish, Reaches
<1> QED
  BY <1>1, <1>2, <1>3, <1>4, <1>5

(* The listener gets what it lacks.                                        *)
LEMMA ResendMoves ==
  ASSUME TypeOK, NEW m \in F!Messages, Resend(m)
  PROVE  /\ UNCHANGED <<made, tagAt, taken, station, missed, tuned, intake>>
         /\ m \in missed \ late /\ late' = late \cup {m}
         /\ playing /\ air' = Append(air, <<station, Bytes(m), "late">>)
         /\ faults' \in 0..MaxFaults /\ faults <= faults'
<1>1. faults' \in 0..MaxFaults /\ faults <= faults'
  BY Bounds DEF Resend, Fault, TypeOK
<1> QED
  BY <1>1 DEF Resend, Reaches, feed

LEMMA PassOnMoves ==
  ASSUME TypeOK, NEW bytes \in Strays, PassOn(bytes)
  PROVE  /\ UNCHANGED <<made, tagAt, taken, station, missed, late, tuned, intake>>
         /\ playing /\ air' = Append(air, <<station, bytes, "relayed">>)
         /\ faults' \in 0..MaxFaults /\ faults <= faults'
<1>1. faults' \in 0..MaxFaults /\ faults <= faults'
  BY Bounds DEF PassOn, Fault, TypeOK
<1> QED
  BY <1>1 DEF PassOn, Reaches, feed

LEMMA ArriveMoves ==
  ASSUME TypeOK, Arrive
  PROVE  /\ UNCHANGED <<made, tagAt, taken, station, missed, late, tuned, faults>>
         /\ UNCHANGED <<title, pushed, playing>>
         /\ playing /\ air # <<>> /\ air' = Tail(air)
         /\ \/ /\ Head(air)[1] = tuned /\ Valid(Head(air))
               /\ got' = Append(got, <<tuned, Said(Head(air)), Head(air)[3]>>)
            \/ got' = got /\ (Head(air)[1] # tuned \/ ~Valid(Head(air)))
BY DEF Arrive, Trusted, L!Hear, Valid, Said, intake, feed

LEMMA SameCardinality == \A S : L!Cardinality(S) = Cardinality(S)
BY Zenon DEF L!Cardinality, Cardinality

(* The positions a step of the listener's tasks is about.                  *)
LEMMA PlaysMoves ==
  ASSUME TypeOK, ListenerPlays
  PROVE  /\ UNCHANGED <<feed, station, missed, late, air, tuned, got, faults, playing>> /\ playing
         /\ \E n \in 1..Len(got) :
              \/ /\ title' = n /\ UNCHANGED pushed
                 /\ n \in title+1..Len(got) /\ Kind(n) = "title"
                 /\ \A m \in title+1..n-1 : Kind(m) # "title"
                 /\ Cardinality(Waits(n)) <= AudioCap
              \/ /\ pushed' = Append(pushed, n) /\ UNCHANGED title
                 /\ n \in L!LastPushed+1..Len(got) /\ Kind(n) = "audio"
                 /\ \A m \in L!LastPushed+1..n-1 : Kind(m) # "audio"
                 /\ \A m \in 1..n : Kind(m) = "title" => m <= title
<1> DEFINE h == [n \in 1..Len(got) |-> Kind(n)]
<1>1. Len(h) = Len(got) /\ \A n \in 1..Len(got) : h[n] = Kind(n)
  BY HeardParts
<1>2. PICK n \in 1..Len(got) : L!SetTitle(n) \/ L!Push(n)
  BY DEF ListenerPlays
<1>3. /\ UNCHANGED <<feed, station, missed, late, air, tuned, got, faults>> /\ playing
      /\ Len(got) \in Nat /\ title \in 0..Len(got) /\ n \in 1..Len(got)
  BY DEF ListenerPlays, TypeOK
<1>4. CASE L!SetTitle(n)
  <2>1. /\ n \in title+1..Len(h) /\ h[n] = "title" /\ \A m \in title+1..n-1 : h[m] # "title"
        /\ title' = n /\ UNCHANGED <<pushed, playing>>
    BY <1>4 DEF L!SetTitle, L!Follows
  <2>2. Cardinality(Waits(n)) <= AudioCap
    <3>1. L!LastPushed \in Nat
      BY LenProperties, EmptySeq DEF L!LastPushed, TypeOK
    <3>2. L!Waiting(n) = Waits(n)
      BY <1>3, <3>1 DEF L!Waiting, Waits
    <3> QED
      BY <1>3, <1>4, <3>2, SameCardinality DEF L!SetTitle, L!RoomFor
  <2>3. \A m \in title+1..n-1 : m \in 1..Len(got)
    BY <1>3
  <2> HIDE DEF h
  <2>4. Kind(n) = "title" /\ \A m \in title+1..n-1 : Kind(m) # "title"
    BY <1>1, <1>3, <2>1, <2>3
  <2> QED
    BY <1>1, <1>3, <2>2, <2>1, <2>4
<1>5. CASE L!Push(n)
  <2>1. /\ n \in L!LastPushed+1..Len(h) /\ h[n] = "audio"
        /\ \A m \in L!LastPushed+1..n-1 : h[m] # "audio"
        /\ \A m \in 1..n : h[m] = "title" => m <= title
        /\ pushed' = Append(pushed, n) /\ UNCHANGED <<title, playing>>
    BY <1>3, <1>5 DEF L!Push, L!Follows
  <2>2. L!LastPushed \in 0..Len(got)
    BY LenProperties, EmptySeq DEF L!LastPushed, TypeOK
  <2>3. /\ \A m \in 1..n : m \in 1..Len(got)
        /\ \A m \in L!LastPushed+1..n-1 : m \in 1..Len(got)
    BY <1>3, <2>2
  <2> HIDE DEF h
  <2>4. /\ Kind(n) = "audio" /\ \A m \in L!LastPushed+1..n-1 : Kind(m) # "audio"
        /\ \A m \in 1..n : Kind(m) = "title" => m <= title
    BY <1>1, <1>3, <2>1, <2>3
  <2> QED
    BY <1>1, <1>3, <2>1, <2>4
<1> QED
  BY <1>2, <1>4, <1>5

LEMMA StepCases ==
  [Next]_vars => \/ SourceGoesOn \/ Arrive \/ ListenerPlays
                 \/ \E m \in F!Messages : Publish(m)
                 \/ \E m \in F!Messages : Resend(m)
                 \/ \E bytes \in Strays : PassOn(bytes)
                 \/ StationRestarts \/ ListenerStarts \/ ListenerStops \/ UNCHANGED vars
BY DEF Next

(* What is known of the messages on their way stays true.                  *)
Keeps ==
  \/ UNCHANGED <<taken, missed>> /\ late \subseteq late'
  \/ \E m \in F!Messages : Publish(m)

-----------------------------------------------------------------------------
(* Types, and who is there.                                                *)

LEMMA TypeStep == TypeOK /\ NodeInv /\ [Next]_vars => TypeOK' /\ NodeInv'
<1> SUFFICES ASSUME TypeOK, NodeInv, [Next]_vars PROVE TypeOK' /\ NodeInv'
  OBVIOUS
<1>0. /\ TypeOK' <=>
           /\ made' \in 0..MaxPackets /\ tagAt' \in Seq(0..made') /\ taken' \in Seq(F!Messages)
           /\ station' \in Peers /\ missed' \subseteq F!Messages /\ late' \subseteq missed'
           /\ air' \in Seq(Entries) /\ tuned' \in {0} \cup Peers /\ faults' \in 0..MaxFaults
           /\ got' \in Seq(Accepted) /\ title' \in 0..Len(got')
           /\ pushed' \in Seq(1..Len(got')) /\ playing' \in BOOLEAN
      /\ air \in Seq(Entries) /\ got \in Seq(Accepted)
  BY EntryTypes DEF TypeOK, Entries, Accepted
<1>1. CASE SourceGoesOn
  BY <1>1, SourceMoves DEF TypeOK, NodeInv, intake
<1>2. ASSUME UNCHANGED <<made, tagAt, station, tuned, intake>>, taken' \in Seq(F!Messages),
             missed' \subseteq F!Messages, late' \subseteq missed',
             faults' \in 0..MaxFaults, faults <= faults', air' = air \/ playing,
             NEW c \in Entries, air' = Append(air, c) \/ air' = air
      PROVE  TypeOK' /\ NodeInv'
  <2>1. air' \in Seq(Entries)
    BY <1>0, <1>2, AppendParts
  <2>2. station' <= faults' + 1 /\ tuned' <= station'
    <3>1. faults' \in Nat
      BY <1>2, Bounds
    <3> QED
      BY <1>2, <3>1, NumberTypes DEF NodeInv
  <2>3. TypeOK'
    BY <1>0, <1>2, <2>1 DEF TypeOK, intake
  <2> QED
    BY <1>2, <2>2, <2>3 DEF NodeInv, intake
<1>3. ASSUME NEW m \in F!Messages, Publish(m) PROVE TypeOK' /\ NodeInv'
  <2>1. <<station, Bytes(m), "turn">> \in Entries
    BY OwnParts DEF Ways
  <2>2. missed' \subseteq F!Messages /\ late' \subseteq missed'
    BY <1>3, PublishMoves DEF TypeOK
  <2> QED
    BY <1>2, <1>3, <2>1, <2>2, PublishMoves
<1>4. ASSUME NEW m \in F!Messages, Resend(m) PROVE TypeOK' /\ NodeInv'
  <2>1. <<station, Bytes(m), "late">> \in Entries
    BY OwnParts DEF Ways
  <2>2. missed' \subseteq F!Messages /\ late' \subseteq missed' /\ taken' \in Seq(F!Messages)
    BY <1>4, ResendMoves DEF TypeOK
  <2> QED
    BY <1>2, <1>4, <2>1, <2>2, ResendMoves
<1>5. ASSUME NEW bytes \in Strays, PassOn(bytes) PROVE TypeOK' /\ NodeInv'
  <2>1. <<station, bytes, "relayed">> \in Entries
    BY StrayParts
  <2>2. missed' \subseteq F!Messages /\ late' \subseteq missed' /\ taken' \in Seq(F!Messages)
    BY <1>5, PassOnMoves DEF TypeOK
  <2> QED
    BY <1>2, <1>5, <2>1, <2>2, PassOnMoves
<1>6. CASE StationRestarts
  <2>1. /\ station' = station + 1 /\ faults' = faults + 1 /\ faults < MaxFaults
        /\ made' = 0 /\ tagAt' = <<>> /\ taken' = <<>> /\ missed' = {} /\ late' = {}
        /\ UNCHANGED <<air, tuned, got, title, pushed, playing>>
    BY <1>6 DEF StationRestarts, NewIdentity, Fault, intake
  <2>2. /\ faults \in Nat /\ station \in Nat \ {0} /\ tuned \in Nat /\ MaxFaults \in Nat
        /\ station <= faults + 1 /\ tuned <= station
    BY NumberTypes, Bounds DEF NodeInv
  <2>3. faults' \in 0..MaxFaults /\ station' \in Peers /\ station' <= faults' + 1
        /\ tuned <= station'
    BY <2>1, <2>2 DEF Peers
  <2>4. 0 \in 0..MaxPackets /\ {} \subseteq F!Messages
    BY Bounds
  <2>5. TypeOK'
    BY <2>1, <2>3, <2>4, OffTypes DEF TypeOK
  <2> QED
    BY <2>1, <2>3, <2>5 DEF NodeInv
<1>7. ASSUME Off, tuned' \in {0} \cup Peers, tuned' <= station', missed' \subseteq F!Messages,
             playing' \in BOOLEAN, faults' \in 0..MaxFaults, station' <= faults' + 1,
             UNCHANGED <<feed, station>>
      PROVE  TypeOK' /\ NodeInv'
  <2>1. /\ <<>> \in Seq(Entries) /\ <<>> \in Seq(Accepted)
        /\ <<>> \in Seq(1..Len(<<>>)) /\ 0 \in 0..Len(<<>>)
    BY OffTypes
  <2>2. /\ air' = <<>> /\ late' = {} /\ got' = <<>> /\ title' = 0 /\ pushed' = <<>>
        /\ UNCHANGED <<made, tagAt, taken, station>>
    BY <1>7 DEF Off, feed
  <2>3. TypeOK'
    BY <1>0, <1>7, <2>1, <2>2, Zenon DEF TypeOK
  <2> QED
    BY <1>7, <2>2, <2>3 DEF NodeInv
<1>8. CASE ListenerStarts
  <2>1. missed' \subseteq F!Messages
    BY <1>8 DEF ListenerStarts, TypeOK
  <2>2. tuned' \in {0} \cup Peers /\ tuned' <= station'
    BY <1>8, Bounds DEF ListenerStarts, TypeOK, Peers
  <2>3. faults' = faults /\ station' = station
    BY <1>8 DEF ListenerStarts
  <2> QED
    BY <1>7, <1>8, <2>1, <2>2, <2>3 DEF ListenerStarts, TypeOK, NodeInv
<1>9. CASE ListenerStops
  <2>1. faults' \in 0..MaxFaults /\ station' <= faults' + 1 /\ tuned' <= station'
    BY <1>9, Bounds DEF ListenerStops, Fault, TypeOK, Peers, NodeInv
  <2> QED
    BY <1>7, <1>9, <2>1 DEF ListenerStops
<1>10. CASE Arrive
  <2>1. /\ UNCHANGED <<made, tagAt, taken, station, missed, late, tuned, faults>>
        /\ UNCHANGED <<title, pushed, playing>>
        /\ playing /\ air # <<>> /\ air' = Tail(air)
    BY <1>10, ArriveMoves
  <2>2. Tail(air) \in Seq(Entries) /\ Head(air) \in Entries
    BY <1>0, <2>1, TailParts
  <2>3. /\ got' \in Seq(Accepted) /\ Len(got) \in Nat /\ Len(got') \in Nat
        /\ Len(got) <= Len(got')
    <3>1. CASE got' = got
      BY <1>0, <3>1, LenProperties
    <3>2. CASE Head(air)[1] = tuned /\ Valid(Head(air))
               /\ got' = Append(got, <<tuned, Said(Head(air)), Head(air)[3]>>)
      <4>1. <<tuned, Said(Head(air)), Head(air)[3]>> \in Accepted
        BY <2>2, <3>2, AcceptedParts
      <4> QED
        BY <1>0, <3>2, <4>1, AppendParts
    <3> QED
      BY <1>10, <3>1, <3>2, ArriveMoves
  <2>4. pushed \in Seq(1..Len(got'))
    <3>1. 1..Len(got) \subseteq 1..Len(got')
      BY <2>3
    <3> QED
      BY <3>1, SeqMonotonic DEF TypeOK
  <2>5. title \in 0..Len(got')
    BY <2>3 DEF TypeOK
  <2>6. TypeOK'
    BY <1>0, <2>1, <2>2, <2>3, <2>4, <2>5 DEF TypeOK
  <2> QED
    BY <2>1, <2>6 DEF NodeInv
<1>11. CASE ListenerPlays
  <2>1. PICK n \in 1..Len(got) : (title' = n /\ UNCHANGED pushed)
                                  \/ (pushed' = Append(pushed, n) /\ UNCHANGED title)
    BY <1>11, PlaysMoves
  <2>2. title' \in 0..Len(got)
    BY <2>1 DEF TypeOK
  <2>3. pushed' \in Seq(1..Len(got))
    <3>1. pushed \in Seq(1..Len(got))
      BY DEF TypeOK
    <3>2. Append(pushed, n) \in Seq(1..Len(got))
      BY <3>1, AppendParts, Zenon
    <3> QED
      BY <2>1, <3>1, <3>2, Zenon
  <2> QED
    BY <1>11, <2>2, <2>3, PlaysMoves DEF TypeOK, NodeInv, feed
<1>12. CASE UNCHANGED vars
  BY <1>12 DEF vars, feed, intake, TypeOK, NodeInv
<1> QED
  BY <1>1, <1>3, <1>4, <1>5, <1>6, <1>8, <1>9, <1>10, <1>11, <1>12, StepCases

-----------------------------------------------------------------------------
(* What has been published.                                                *)

LEMMA NumbersNat ==
  ASSUME NEW q \in Seq(F!Messages), NEW kind
  PROVE  NumbersIn(q, kind) \subseteq Nat
<1>1. \A i \in 1..Len(q) : q[i] \in F!Messages
  BY ElementOfSeq
<1>2. \A i \in 1..Len(q) : q[i][2] \in Nat
  BY <1>1, MessageParts
<1> QED
  BY <1>2 DEF NumbersIn

LEMMA LastIs ==
  ASSUME NEW q \in Seq(F!Messages), NEW kind, NEW n, IsLast(q, kind, n)
  PROVE  LastIn(q, kind) = n /\ n \in Nat
<1>1. NumbersIn(q, kind) \subseteq Nat
  BY NumbersNat
<1>2. n \in Nat /\ n \in {0} \cup NumbersIn(q, kind)
      /\ \A k \in {0} \cup NumbersIn(q, kind) : k <= n
  BY <1>1 DEF IsLast
<1>3. /\ LastIn(q, kind) \in {0} \cup NumbersIn(q, kind)
      /\ \A k \in {0} \cup NumbersIn(q, kind) : k <= LastIn(q, kind)
  BY <1>2 DEF LastIn
<1>4. LastIn(q, kind) \in Nat /\ n <= LastIn(q, kind) /\ LastIn(q, kind) <= n
  BY <1>1, <1>2, <1>3
<1> QED
  BY <1>2, <1>4

LEMMA NumbersAppend ==
  ASSUME NEW q \in Seq(F!Messages), NEW m \in F!Messages, NEW kind
  PROVE  NumbersIn(Append(q, m), kind) =
           NumbersIn(q, kind) \cup (IF m[1] = kind THEN {m[2]} ELSE {})
<1>1. Len(q) + 1 \in 1..Len(Append(q, m)) /\ Append(q, m)[Len(q) + 1] = m
  BY AppendParts
<1>2. \A i \in 1..Len(q) : i \in 1..Len(Append(q, m)) /\ Append(q, m)[i] = q[i]
  BY AppendParts
<1>3. \A i \in 1..Len(Append(q, m)) :
        Append(q, m)[i] = m \/ (i \in 1..Len(q) /\ Append(q, m)[i] = q[i])
  BY AppendParts
<1> QED
  BY <1>1, <1>2, <1>3 DEF NumbersIn

LEMMA LastAppend ==
  ASSUME NEW q \in Seq(F!Messages), NEW m \in F!Messages, NEW kind, NEW n,
         IsLast(q, kind, n), m[1] = kind => n <= m[2]
  PROVE  IsLast(Append(q, m), kind, IF m[1] = kind THEN m[2] ELSE n)
<1>1. m[2] \in Nat /\ NumbersIn(q, kind) \subseteq Nat /\ n \in Nat
  BY MessageParts, NumbersNat, LastIs
<1>2. CASE m[1] = kind
  <2>1. \A k \in NumbersIn(q, kind) : k <= m[2]
    BY <1>1, <1>2 DEF IsLast
  <2> QED
    BY <1>1, <1>2, <2>1, NumbersAppend DEF IsLast
<1>3. CASE m[1] # kind
  BY <1>3, NumbersAppend DEF IsLast
<1> QED
  BY <1>2, <1>3

LEMMA LastTypes ==
  ASSUME TypeOK, TakenInv
  PROVE  /\ LastTaken("audio") \in Nat /\ LastTaken("title") \in Nat
         /\ \A m \in F!Messages : m[2] \in NumbersIn(taken, m[1]) => m[2] <= LastTaken(m[1])
<1>1. LastTaken("audio") \in Nat /\ LastTaken("title") \in Nat
  BY LastIs DEF TypeOK, TakenInv
<1>2. \A m \in F!Messages : m[2] \in NumbersIn(taken, m[1]) => m[2] <= LastTaken(m[1])
  BY MessageParts DEF TakenInv, IsLast
<1> QED
  BY <1>1, <1>2

LEMMA NumbersTaken ==
  ASSUME TypeOK
  PROVE  \A m \in F!Messages : m[2] \in NumbersIn(taken, m[1]) <=> m \in Taken
<1>1. \A i \in 1..Len(taken) : taken[i] \in F!Messages /\ taken[i] = <<taken[i][1], taken[i][2]>>
  BY ElementOfSeq, MessageParts DEF TypeOK
<1> SUFFICES ASSUME NEW m \in F!Messages
             PROVE  m[2] \in NumbersIn(taken, m[1]) <=> m \in Taken
  OBVIOUS
<1>2. m = <<m[1], m[2]>>
  BY MessageParts
<1>3. ASSUME NEW i \in 1..Len(taken), taken[i][1] = m[1], taken[i][2] = m[2] PROVE m \in Taken
  BY <1>1, <1>2, <1>3 DEF Taken
<1> QED
  BY <1>3 DEF NumbersIn, Taken

(* What the titles taken are tagged with.                                  *)
LEMMA TagTypes ==
  ASSUME TypeOK, TakenInv
  PROVE  /\ \A t \in 1..Len(tagAt) : tagAt[t] \in 0..MaxPackets
         /\ NumbersIn(taken, "title") \subseteq 1..Len(tagAt)
<1>1. made \in 0..MaxPackets /\ tagAt \in Seq(0..made)
  BY DEF TypeOK
<1>2. \A t \in 1..Len(tagAt) : tagAt[t] \in 0..made
  BY <1>1, ElementOfSeq
<1>3. 0..made \subseteq 0..MaxPackets
  BY <1>1, Bounds
<1>4. ASSUME NEW t \in NumbersIn(taken, "title") PROVE t \in 1..Len(tagAt)
  <2>1. \A i \in 1..Len(taken) : taken[i] \in F!Messages
    BY ElementOfSeq DEF TypeOK
  <2>2. t \in Nat \ {0}
    BY <2>1, MessageParts DEF NumbersIn
  <2>3. t <= LastTaken("title") /\ LastTaken("title") <= Len(tagAt)
    BY DEF TakenInv, IsLast
  <2>4. LastTaken("title") \in Nat /\ Len(tagAt) \in Nat
    BY LastTypes, NumberTypes
  <2> QED
    BY <2>2, <2>3, <2>4
<1> QED
  BY <1>2, <1>3, <1>4

(* What is published is the last of its kind from then on.                 *)
LEMMA PublishLast ==
  ASSUME TypeOK, TakenInv, NEW m \in F!Messages, Publish(m)
  PROVE  /\ LastTaken(m[1]) < m[2] /\ LastTaken(m[1])' = m[2]
         /\ \A kind \in {"audio", "title"} \ {m[1]} : LastTaken(kind)' = LastTaken(kind)
         /\ Taken' = Taken \cup {m}
         /\ TakenInv'
<1>1. /\ taken' = Append(taken, m) /\ taken \in Seq(F!Messages) /\ taken' \in Seq(F!Messages)
      /\ UNCHANGED tagAt
  BY PublishMoves DEF TypeOK
<1>2. m[1] \in {"audio", "title"} /\ m[2] \in Nat /\ LastTaken(m[1]) \in Nat
  BY MessageParts, LastTypes
<1>3. LastTaken(m[1]) < m[2]
  BY <1>2, PublishMoves
<1>4. ASSUME NEW kind \in {"audio", "title"}
      PROVE  /\ IsLast(taken', kind, IF m[1] = kind THEN m[2] ELSE LastTaken(kind))
             /\ LastTaken(kind)' = IF m[1] = kind THEN m[2] ELSE LastTaken(kind)
  <2>1. IsLast(taken, kind, LastTaken(kind))
    BY DEF TakenInv
  <2>2. IsLast(taken', kind, IF m[1] = kind THEN m[2] ELSE LastTaken(kind))
    BY <1>1, <1>2, <1>3, <2>1, LastAppend
  <2> QED
    BY <1>1, <2>2, LastIs DEF LastTaken
<1>5. \A kind : NumbersIn(taken', kind) =
                  NumbersIn(taken, kind) \cup (IF m[1] = kind THEN {m[2]} ELSE {})
  BY <1>1, NumbersAppend
<1>6. 1..LastTaken("audio")' \subseteq NumbersIn(taken', "audio")
  <2>1. 1..LastTaken("audio") \subseteq NumbersIn(taken, "audio")
    BY DEF TakenInv
  <2>2. CASE m[1] = "audio"
    <3>1. m[2] = LastTaken("audio") + 1 /\ LastTaken("audio")' = m[2]
      BY <1>4, <2>2, PublishMoves
    <3>2. 1..LastTaken("audio")' \subseteq 1..LastTaken("audio") \cup {m[2]}
      BY <1>2, <3>1, <2>2
    <3> QED
      BY <1>5, <2>1, <2>2, <3>2
  <2>3. CASE m[1] # "audio"
    BY <1>4, <1>5, <2>1, <2>3
  <2> QED
    BY <2>2, <2>3
<1>7. LastTaken("title")' <= Len(tagAt')
  BY <1>1, <1>4, PublishMoves DEF TakenInv
<1>8. ASSUME NEW t \in NumbersIn(taken', "title") PROVE tagAt'[t] <= LastTaken("audio")' + Lead
  <2>1. CASE t \in NumbersIn(taken, "title")
    <3>1. tagAt[t] \in Nat /\ tagAt[t] <= LastTaken("audio") + Lead
      BY <2>1, TagTypes, Bounds DEF TakenInv
    <3>2. LastTaken("audio") \in Nat /\ LastTaken("audio")' \in Nat
          /\ LastTaken("audio") <= LastTaken("audio")'
      BY <1>2, <1>3, <1>4, LastTypes
    <3> QED
      BY <1>1, <3>1, <3>2, Bounds
  <2>2. CASE m[1] = "title" /\ t = m[2]
    BY <1>1, <1>4, <2>2, PublishMoves
  <2> QED
    BY <1>5, <2>1, <2>2
<1>9. Taken' = Taken \cup {m}
  <2>1. /\ Len(taken) + 1 \in 1..Len(taken') /\ taken'[Len(taken) + 1] = m
        /\ \A i \in 1..Len(taken) : i \in 1..Len(taken') /\ taken'[i] = taken[i]
        /\ \A i \in 1..Len(taken') : i = Len(taken) + 1 \/ i \in 1..Len(taken)
    BY <1>1, AppendParts
  <2>2. (\A i \in 1..Len(taken) : taken[i] \in Taken)
        /\ \A i \in 1..Len(taken') : taken'[i] \in Taken'
    BY DEF Taken
  <2>3. /\ \A i \in 1..Len(taken') : taken'[i] = m \/ taken'[i] \in Taken
        /\ \A i \in 1..Len(taken) : taken[i] \in Taken'
    BY <2>1, <2>2, Zenon
  <2>4. m \in Taken'
    BY <2>1, <2>2
  <2>5. Taken \subseteq Taken' /\ Taken' \subseteq Taken \cup {m}
    BY <2>2, <2>3 DEF Taken
  <2> QED
    BY <2>4, <2>5
<1>10. missed' \subseteq Taken'
  BY <1>9, PublishMoves DEF TakenInv
<1> QED
  BY <1>2, <1>3, <1>4, <1>6, <1>7, <1>8, <1>9, <1>10 DEF TakenInv

LEMMA TakenFrame ==
  ASSUME TypeOK, TakenInv, UNCHANGED taken, missed' \subseteq Taken,
         Len(tagAt) <= Len(tagAt'), Len(tagAt') \in Nat,
         \A t \in 1..Len(tagAt) : tagAt'[t] = tagAt[t]
  PROVE  TakenInv'
<1>1. Taken' = Taken /\ \A kind : LastTaken(kind)' = LastTaken(kind)
  BY DEF LastTaken, Taken
<1>2. LastTaken("title")' <= Len(tagAt')
  BY <1>1, LastTypes, NumberTypes DEF TakenInv
<1>3. \A t \in NumbersIn(taken, "title") : tagAt'[t] = tagAt[t]
  BY TagTypes
<1> QED
  BY <1>1, <1>2, <1>3 DEF TakenInv

LEMMA NothingTaken ==
  \A kind : NumbersIn(<<>>, kind) = {} /\ LastIn(<<>>, kind) = 0 /\ IsLast(<<>>, kind, 0)
<1>1. \A kind : NumbersIn(<<>>, kind) = {}
  BY OffTypes DEF NumbersIn
<1> QED
  BY <1>1 DEF LastIn, IsLast

LEMMA TakenStep == TypeOK /\ TakenInv /\ [Next]_vars => TakenInv'
<1> SUFFICES ASSUME TypeOK, TakenInv, [Next]_vars PROVE TakenInv'
  OBVIOUS
<1>1. missed \subseteq Taken
  BY DEF TakenInv
<1>2. CASE SourceGoesOn
  <2>1. Len(tagAt') \in Nat
    BY <1>2, SourceMoves, LenProperties
  <2> QED
    BY <1>1, <1>2, <2>1, SourceMoves, TakenFrame
<1>3. ASSUME NEW m \in F!Messages, Publish(m) PROVE TakenInv'
  BY <1>3, PublishLast
<1>4. CASE StationRestarts
  <2>1. taken' = <<>> /\ Len(tagAt') = 0 /\ missed' = {}
    BY <1>4, OffTypes DEF StationRestarts
  <2>2. \A kind : LastTaken(kind)' = 0
    BY <2>1, NothingTaken DEF LastTaken
  <2> QED
    BY <2>1, <2>2, NothingTaken, OffTypes, Bounds DEF TakenInv
<1>5. ASSUME UNCHANGED <<tagAt, taken>>, missed' \subseteq Taken PROVE TakenInv'
  BY <1>5, TakenFrame, NumberTypes
<1>6. CASE Arrive \/ ListenerPlays \/ UNCHANGED vars
  BY <1>1, <1>5, <1>6, ArriveMoves, PlaysMoves DEF vars, feed
<1>7. CASE ListenerStarts \/ ListenerStops
  BY <1>5, <1>7 DEF ListenerStarts, ListenerStops, feed, Taken
<1>8. ASSUME NEW bytes \in Strays, PassOn(bytes) PROVE TakenInv'
  BY <1>1, <1>5, <1>8, PassOnMoves
<1>9. ASSUME NEW m \in F!Messages, Resend(m) PROVE TakenInv'
  BY <1>1, <1>5, <1>9, ResendMoves
<1> QED
  BY <1>2, <1>3, <1>4, <1>6, <1>7, <1>8, <1>9, StepCases

-----------------------------------------------------------------------------
(* What is in the air, and what was accepted.                              *)

LEMMA SentStays ==
  ASSUME TypeOK, TakenInv, Keeps, NEW p \in Plain, NEW way,
         Sent(p, way, taken, missed, late)
  PROVE  Sent(p, way, taken', missed', late')
<1>1. p[1] \in {"audio", "title"} /\ p[2][1] \in Nat
  BY PlainParts
<1>2. CASE UNCHANGED <<taken, missed>> /\ late \subseteq late'
  BY <1>2 DEF Sent
<1>3. ASSUME NEW m \in F!Messages, Publish(m) PROVE Sent(p, way, taken', missed', late')
  <2>1. /\ LastTaken(m[1]) < m[2] /\ LastTaken(m[1])' = m[2] /\ m[2] \in Nat
        /\ \A kind \in {"audio", "title"} \ {m[1]} : LastTaken(kind)' = LastTaken(kind)
    BY <1>3, PublishLast, MessageParts
  <2>2. LastTaken(p[1]) \in Nat /\ p[2][1] <= LastTaken(p[1])
    BY <1>1, LastTypes DEF Sent, Published, LastTaken
  <2>3. Published(p, taken') /\ <<p[1], p[2][1]>> # m
    <3>1. CASE p[1] = m[1]
      <4>1. p[2][1] < m[2]
        BY <1>1, <2>1, <2>2, <3>1
      <4> QED
        BY <1>1, <2>1, <3>1, <4>1 DEF Published, LastTaken
    <3>2. CASE p[1] # m[1]
      BY <1>1, <2>1, <2>2, <3>2 DEF Published, LastTaken
    <3> QED
      BY <3>1, <3>2
  <2>4. missed' \subseteq missed \cup {m} /\ late' = late
    BY <1>3, PublishMoves
  <2> QED
    BY <2>3, <2>4 DEF Sent
<1> QED
  BY <1>2, <1>3 DEF Keeps

(* The same messages, or fewer, are in the air ...                         *)
LEMMA AirFrame ==
  ASSUME TypeOK, TakenInv, AirInv, UNCHANGED station, Keeps,
         NEW c, NEW j \in 1..Len(air), c = air[j]
  PROVE  InAir(c)'
<1>1. InAir(c)
  BY DEF AirInv
<1> QED
  BY <1>1, SentStays DEF InAir

(* ... or one more.                                                        *)
LEMMA AirAdds ==
  ASSUME TypeOK, TakenInv, AirInv, UNCHANGED station, Keeps,
         NEW c \in Entries, InAir(c)', air' = Append(air, c) \/ air' = air
  PROVE  AirInv'
<1> SUFFICES ASSUME NEW j \in 1..Len(air'), NEW d, d = air'[j] PROVE InAir(d)'
  BY DEF AirInv
<1>1. d = c \/ \E i \in 1..Len(air) : d = air[i]
  <2>1. CASE air' = air
    BY <2>1
  <2>2. CASE air' = Append(air, c)
    BY <2>2, EntryTypes, AppendElement
  <2> QED
    BY <2>1, <2>2
<1> QED
  BY <1>1, AirFrame

LEMMA AirStep == TypeOK /\ TakenInv /\ AirInv /\ [Next]_vars => AirInv'
<1> SUFFICES ASSUME TypeOK, TakenInv, AirInv, [Next]_vars PROVE AirInv'
  OBVIOUS
<1>1. ASSUME UNCHANGED <<station, taken, missed, late>>,
             \A j \in 1..Len(air') : \E i \in 1..Len(air) : air'[j] = air[i]
      PROVE  AirInv'
  <2> SUFFICES ASSUME NEW j \in 1..Len(air'), NEW c, c = air'[j] PROVE InAir(c)'
    BY DEF AirInv
  <2> QED
    BY <1>1, AirFrame DEF Keeps
<1>2. CASE SourceGoesOn \/ ListenerPlays \/ UNCHANGED vars
  BY <1>1, <1>2, SourceMoves, PlaysMoves DEF feed, vars
<1>3. ASSUME NEW m \in F!Messages, Publish(m) PROVE AirInv'
  <2>1. PICK c : c = <<station, Bytes(m), "turn">>
    OBVIOUS
  <2>2. /\ UNCHANGED <<station, late>> /\ (air' = Append(air, c) \/ air' = air)
        /\ air' = Append(air, c) => missed' = missed
    <3>1. air' = air => air' # Append(air, c)
      BY <2>1, EntryTypes, OwnParts, AppendParts DEF Ways
    <3> QED
      BY <1>3, <2>1, <3>1, PublishMoves
  <2>3. /\ c \in Entries /\ c[1] = station /\ c[3] = "turn" /\ Said(c) \in Plain
        /\ Said(c)[1] = m[1] /\ Said(c)[2][1] = m[2]
    BY <2>1, OwnParts DEF Ways
  <2>4. CASE air' = Append(air, c)
    <3>1. Published(Said(c), taken')
      <4>1. LastTaken(m[1])' = m[2] /\ m[2] \in Nat
        BY <1>3, PublishLast, MessageParts
      <4> QED
        BY <2>3, <4>1 DEF Published, LastTaken
    <3>2. m \notin missed'
      <4>1. m \notin Taken
        <5>1. LastTaken(m[1]) < m[2] /\ LastTaken(m[1]) \in Nat /\ m[2] \in Nat
          BY <1>3, PublishLast, LastTypes, MessageParts
        <5> QED
          BY <5>1, LastTypes, NumbersTaken
      <4> QED
        BY <2>2, <2>4, <4>1 DEF TakenInv
    <3>3. InAir(c)'
      <4>1. <<Said(c)[1], Said(c)[2][1]>> = m
        BY <2>3, MessageParts
      <4> QED
        BY <2>2, <2>3, <3>1, <3>2, <4>1, NumberTypes DEF InAir, Sent
    <3> QED
      BY <1>3, <2>2, <2>3, <3>3, AirAdds DEF Keeps
  <2>5. CASE air' = air
    <3>1. ASSUME NEW j \in 1..Len(air'), NEW d, d = air'[j] PROVE InAir(d)'
      BY <1>3, <2>2, <2>5, <3>1, AirFrame DEF Keeps
    <3> QED
      BY <3>1 DEF AirInv
  <2> QED
    BY <2>2, <2>4, <2>5
<1>4. ASSUME NEW m \in F!Messages, Resend(m) PROVE AirInv'
  <2>1. PICK c : c = <<station, Bytes(m), "late">>
    OBVIOUS
  <2>2. /\ UNCHANGED <<station, taken, missed>> /\ m \in missed /\ late' = late \cup {m}
        /\ air' = Append(air, c)
    BY <1>4, <2>1, ResendMoves
  <2>3. /\ c \in Entries /\ c[1] = station /\ c[3] = "late" /\ Said(c) \in Plain
        /\ Said(c)[1] = m[1] /\ Said(c)[2][1] = m[2]
    BY <2>1, OwnParts DEF Ways
  <2>4. Published(Said(c), taken)
    <3>1. m[2] \in NumbersIn(taken, m[1])
      BY <2>2, NumbersTaken DEF TakenInv
    <3> QED
      BY <2>3, <3>1, LastTypes DEF Published, LastTaken
  <2>5. InAir(c)'
    <3>1. <<Said(c)[1], Said(c)[2][1]>> = m
      BY <2>3, MessageParts
    <3> QED
      BY <2>2, <2>3, <2>4, <3>1, NumberTypes DEF InAir, Sent
  <2> QED
    BY <2>2, <2>3, <2>5, AirAdds DEF Keeps
<1>5. ASSUME NEW bytes \in Strays, PassOn(bytes) PROVE AirInv'
  <2>1. PICK c : c = <<station, bytes, "relayed">>
    OBVIOUS
  <2>2. c \in Entries /\ c[1] = station /\ ~Own(c)
    BY <2>1, StrayParts
  <2>3. air' = Append(air, c) /\ UNCHANGED <<station, taken, missed, late>>
    BY <1>5, <2>1, PassOnMoves
  <2>4. InAir(c)'
    BY <2>2, <2>3, NumberTypes DEF InAir
  <2> QED
    BY <2>2, <2>3, <2>4, AirAdds DEF Keeps
<1>6. CASE StationRestarts
  <2>1. station' = station + 1 /\ air' = air
    BY <1>6 DEF StationRestarts, NewIdentity
  <2>2. \A j \in 1..Len(air) : air[j][1] \in Nat
    <3>1. \A c \in Entries : c[1] \in Nat
      BY Bounds DEF Entries, Peers
    <3> QED
      BY <3>1, EntryTypes
  <2>3. \A p \in Nat : p <= station => p <= station' /\ p # station'
    BY <2>1, NumberTypes
  <2> QED
    BY <2>1, <2>2, <2>3 DEF AirInv, InAir
<1>7. CASE ListenerStarts \/ ListenerStops
  BY <1>7, OffTypes DEF ListenerStarts, ListenerStops, Off, AirInv
<1>8. CASE Arrive
  <2>1. air' = Tail(air) /\ air # <<>> /\ UNCHANGED <<station, taken, missed, late>>
    BY <1>8, ArriveMoves
  <2>2. \A j \in 1..Len(air') : \E i \in 1..Len(air) : air'[j] = air[i]
    BY <2>1, EntryTypes, TailParts
  <2> QED
    BY <1>1, <2>1, <2>2
<1> QED
  BY <1>2, <1>3, <1>4, <1>5, <1>6, <1>7, <1>8, StepCases

LEMMA GotStep ==
  TypeOK /\ TakenInv /\ NodeInv /\ AirInv /\ GotInv /\ [Next]_vars => GotInv'
<1> SUFFICES ASSUME TypeOK, TakenInv, NodeInv, AirInv, GotInv, [Next]_vars PROVE GotInv'
  OBVIOUS
<1>1. ASSUME UNCHANGED <<station, tuned>>, Keeps, NEW x, NEW n \in 1..Len(got), x = got[n]
      PROVE  HasGot(x)'
  <2>1. HasGot(x)
    BY <1>1 DEF GotInv
  <2> QED
    BY <1>1, <2>1, SentStays DEF HasGot
<1>2. ASSUME UNCHANGED <<station, tuned, got>>, Keeps PROVE GotInv'
  BY <1>1, <1>2 DEF GotInv
<1>3. CASE SourceGoesOn \/ ListenerPlays \/ UNCHANGED vars
  BY <1>2, <1>3, SourceMoves, PlaysMoves DEF feed, intake, vars, Keeps
<1>4. ASSUME NEW m \in F!Messages, Publish(m) \/ Resend(m) PROVE GotInv'
  BY <1>2, <1>4, PublishMoves, ResendMoves DEF intake, Keeps
<1>5. ASSUME NEW bytes \in Strays, PassOn(bytes) PROVE GotInv'
  BY <1>2, <1>5, PassOnMoves DEF intake, Keeps
<1>6. CASE StationRestarts
  <2>1. station' = station + 1 /\ UNCHANGED <<got, tuned>>
    BY <1>6 DEF StationRestarts, NewIdentity, intake
  <2>2. tuned' # station'
    BY <2>1, NumberTypes DEF NodeInv
  <2> QED
    BY <2>1, <2>2 DEF GotInv, HasGot
<1>7. CASE ListenerStarts \/ ListenerStops
  BY <1>7, OffTypes DEF ListenerStarts, ListenerStops, Off, GotInv
<1>8. CASE Arrive
  <2>1. UNCHANGED <<station, tuned, taken, missed, late>>
    BY <1>8, ArriveMoves
  <2>2. CASE got' = got
    BY <1>2, <2>1, <2>2 DEF Keeps
  <2>3. CASE /\ Head(air)[1] = tuned /\ Valid(Head(air))
             /\ got' = Append(got, <<tuned, Said(Head(air)), Head(air)[3]>>)
    <3>1. PICK x : x = <<tuned, Said(Head(air)), Head(air)[3]>>
      OBVIOUS
    <3>2. Head(air) = air[1] /\ 1 \in 1..Len(air) /\ Head(air) \in Entries
      BY <1>8, ArriveMoves, EntryTypes, TailParts
    <3>3. x \in Accepted /\ x[1] = tuned /\ x[2] = Said(Head(air)) /\ x[3] = Head(air)[3]
      BY <2>3, <3>1, <3>2, AcceptedParts
    <3>4. InAir(Head(air))
      BY <3>2 DEF AirInv
    <3>5. HasGot(x)'
      BY <2>1, <2>3, <3>3, <3>4 DEF InAir, HasGot, Own
    <3>6. ASSUME NEW n \in 1..Len(got'), NEW y, y = got'[n] PROVE HasGot(y)'
      <4>1. y = x \/ (n \in 1..Len(got) /\ y = got[n])
        BY <2>3, <3>1, <3>3, <3>6, EntryTypes, AppendElement
      <4> QED
        BY <1>1, <2>1, <3>5, <4>1 DEF Keeps
    <3> QED
      BY <3>6 DEF GotInv
  <2> QED
    BY <1>8, <2>2, <2>3, ArriveMoves
<1> QED
  BY <1>3, <1>4, <1>5, <1>6, <1>7, <1>8, StepCases

-----------------------------------------------------------------------------
(* The order in which the messages arrive.                                 *)

(* A message comes into the air behind all others of its peer.             *)
LEMMA OrderAppend ==
  ASSUME NEW a \in Seq(Entries), NEW g, NEW p, OrderOf(a, g, p), NEW c \in Entries,
         Own(c) =>
           /\ \A i \in 1..Len(a) :
                a[i][1] = c[1] /\ Own(a[i]) => After(Said(a[i]), Said(c), c[3])
           /\ c[1] = p => \A i \in 1..Len(g) : Own(g[i]) => After(g[i][2], Said(c), c[3])
  PROVE  OrderOf(Append(a, c), g, p)
<1> DEFINE b == Append(a, c)
<1>1. /\ Len(a) \in Nat /\ Len(b) = Len(a) + 1 /\ b[Len(a) + 1] = c
      /\ \A i \in 1..Len(a) : b[i] = a[i]
      /\ \A i \in 1..Len(b) : i = Len(a) + 1 \/ i \in 1..Len(a)
  BY AppendParts
<1> HIDE DEF b
<1>2. ASSUME NEW i \in 1..Len(b), NEW j \in 1..Len(b), i < j,
             b[i][1] = b[j][1], Own(b[i]), Own(b[j])
      PROVE  After(Said(b[i]), Said(b[j]), b[j][3])
  <2>1. i \in 1..Len(a) /\ (j = Len(a) + 1 \/ j \in 1..Len(a))
    BY <1>1, <1>2
  <2> QED
    BY <1>1, <1>2, <2>1, Zenon DEF OrderOf
<1>3. ASSUME NEW i \in 1..Len(g), NEW j \in 1..Len(b), b[j][1] = p, Own(g[i]), Own(b[j])
      PROVE  After(g[i][2], Said(b[j]), b[j][3])
  BY <1>1, <1>3, Zenon DEF OrderOf
<1> QED
  BY <1>2, <1>3, Zenon DEF OrderOf, b

(* The first message leaves the air ...                                    *)
LEMMA OrderTail ==
  ASSUME NEW a \in Seq(Entries), a # <<>>, NEW g, NEW p, OrderOf(a, g, p)
  PROVE  OrderOf(Tail(a), g, p)
<1> DEFINE b == Tail(a)
<1>1. /\ Len(b) \in Nat
      /\ \A i \in 1..Len(b) : b[i] = a[i + 1] /\ i + 1 \in 1..Len(a)
  BY TailParts
<1>2. \A i, j \in 1..Len(b) : i < j => i + 1 < j + 1
  BY <1>1
<1> HIDE DEF b
<1>3. ASSUME NEW i \in 1..Len(b), NEW j \in 1..Len(b), i < j,
             b[i][1] = b[j][1], Own(b[i]), Own(b[j])
      PROVE  After(Said(b[i]), Said(b[j]), b[j][3])
  BY <1>1, <1>2, <1>3, Zenon DEF OrderOf
<1>4. ASSUME NEW i \in 1..Len(g), NEW j \in 1..Len(b), b[j][1] = p, Own(g[i]), Own(b[j])
      PROVE  After(g[i][2], Said(b[j]), b[j][3])
  BY <1>1, <1>4, Zenon DEF OrderOf
<1> QED
  BY <1>3, <1>4, Zenon DEF OrderOf, b

(* ... and is accepted.                                                    *)
LEMMA OrderAccept ==
  ASSUME NEW a \in Seq(Entries), a # <<>>, NEW g \in Seq(Accepted), NEW p,
         OrderOf(a, g, p), NEW x \in Accepted,
         Head(a)[1] = p, x[2] = Said(Head(a)), x[3] = Head(a)[3]
  PROVE  OrderOf(Tail(a), Append(g, x), p)
<1> DEFINE b == Tail(a)
           h == Append(g, x)
<1>1. /\ Len(g) \in Nat /\ Len(h) = Len(g) + 1 /\ h[Len(g) + 1] = x
      /\ \A i \in 1..Len(g) : h[i] = g[i]
      /\ \A i \in 1..Len(h) : i = Len(g) + 1 \/ i \in 1..Len(g)
  BY AppendParts
<1>2. /\ Head(a) = a[1] /\ 1 \in 1..Len(a) /\ (Own(x) <=> Own(a[1]))
      /\ x[2] = Said(a[1]) /\ x[3] = a[1][3] /\ a[1][1] = p
      /\ \A i \in 1..Len(b) : b[i] = a[i + 1] /\ i + 1 \in 1..Len(a) /\ 1 < i + 1
  BY TailParts DEF Own
<1>3. OrderOf(b, g, p)
  BY OrderTail
<1> HIDE DEF b, h
<1>4. ASSUME NEW i \in 1..Len(h), NEW j \in 1..Len(h), i < j, Own(h[i]), Own(h[j])
      PROVE  After(h[i][2], h[j][2], h[j][3])
  <2>1. i \in 1..Len(g) /\ (j = Len(g) + 1 \/ j \in 1..Len(g))
    BY <1>1, <1>4
  <2>2. CASE j = Len(g) + 1
    <3>1. h[j] = x /\ h[i] = g[i] /\ Own(g[i]) /\ Own(a[1])
      BY <1>1, <1>2, <1>4, <2>1, <2>2
    <3>2. After(g[i][2], Said(a[1]), a[1][3])
      BY <1>2, <2>1, <3>1, Zenon DEF OrderOf
    <3> QED
      BY <1>2, <3>1, <3>2
  <2>3. CASE j \in 1..Len(g)
    BY <1>1, <1>4, <2>1, <2>3, Zenon DEF OrderOf
  <2> QED
    BY <2>1, <2>2, <2>3
<1>5. ASSUME NEW i \in 1..Len(h), NEW j \in 1..Len(b), b[j][1] = p, Own(h[i]), Own(b[j])
      PROVE  After(h[i][2], Said(b[j]), b[j][3])
  <2>1. Own(x) => After(x[2], Said(b[j]), b[j][3])
    BY <1>2, <1>5, Zenon DEF OrderOf
  <2> QED
    BY <1>1, <1>3, <1>5, <2>1, Zenon DEF OrderOf
<1> QED
  BY <1>3, <1>4, <1>5, Zenon DEF OrderOf, b, h

LEMMA OrderStep ==
  TypeOK /\ TakenInv /\ NodeInv /\ AirInv /\ GotInv /\ OrderInv /\ [Next]_vars => OrderInv'
<1> SUFFICES ASSUME TypeOK, TakenInv, NodeInv, AirInv, GotInv, OrderInv, [Next]_vars
             PROVE  OrderInv'
  OBVIOUS
<1>1. ASSUME UNCHANGED <<air, got, tuned>> PROVE OrderInv'
  BY <1>1 DEF OrderInv
<1>2. CASE SourceGoesOn \/ ListenerPlays \/ UNCHANGED vars \/ StationRestarts
  BY <1>1, <1>2, SourceMoves, PlaysMoves DEF intake, vars, StationRestarts
(* What the station says itself, in its turn or late, it has not said to   *)
(* the listener before.                                                    *)
<1>3. ASSUME NEW c \in Entries, c[1] = station, UNCHANGED <<got, tuned>>,
             air' = Append(air, c),
             Own(c) => \A p \in Plain, way \in {"turn", "late"} :
               Sent(p, way, taken, missed, late) => After(p, Said(c), c[3])
      PROVE  OrderInv'
  <2>1. ASSUME NEW i \in 1..Len(air), air[i][1] = c[1], Own(air[i]), Own(c)
        PROVE  After(Said(air[i]), Said(c), c[3])
    <3>1. air[i][3] \in {"turn", "late"}
      BY <2>1, EntryTypes, WayParts
    <3>2. Said(air[i]) \in Plain /\ Sent(Said(air[i]), air[i][3], taken, missed, late)
      BY <1>3, <2>1 DEF AirInv, InAir
    <3> QED
      BY <1>3, <2>1, <3>1, <3>2
  <2>2. ASSUME NEW i \in 1..Len(got), c[1] = tuned, Own(got[i]), Own(c)
        PROVE  After(got[i][2], Said(c), c[3])
    <3>1. got[i][3] \in {"turn", "late"}
      BY <2>2, EntryTypes, WayParts
    <3>2. got[i][2] \in Plain /\ Sent(got[i][2], got[i][3], taken, missed, late)
      BY <1>3, <2>2 DEF GotInv, HasGot
    <3> QED
      BY <1>3, <2>2, <3>1, <3>2
  <2>3. OrderOf(Append(air, c), got, tuned)
    BY <2>1, <2>2, EntryTypes, OrderAppend DEF OrderInv
  <2> QED
    BY <1>3, <2>3 DEF OrderInv
<1>4. ASSUME NEW m \in F!Messages, Publish(m) PROVE OrderInv'
  <2>1. PICK c : c = <<station, Bytes(m), "turn">>
    OBVIOUS
  <2>2. /\ c \in Entries /\ c[1] = station /\ c[3] = "turn"
        /\ Said(c)[1] = m[1] /\ Said(c)[2][1] = m[2]
    BY <2>1, OwnParts DEF Ways
  <2>3. ASSUME NEW p \in Plain, Published(p, taken) PROVE After(p, Said(c), c[3])
    <3>1. LastTaken(m[1]) \in Nat /\ m[2] \in Nat /\ LastTaken(m[1]) < m[2] /\ p[2][1] \in Nat
      BY <1>4, PublishLast, LastTypes, MessageParts, PlainParts
    <3>2. p[1] = m[1] => p[2][1] < m[2]
      BY <2>3, <3>1 DEF Published, LastTaken
    <3> QED
      BY <2>2, <3>1, <3>2 DEF After
  <2>4. UNCHANGED <<got, tuned>> /\ (air' = Append(air, c) \/ air' = air)
    BY <1>4, <2>1, PublishMoves DEF intake
  <2> QED
    BY <1>1, <1>3, <2>2, <2>3, <2>4 DEF Sent
<1>5. ASSUME NEW m \in F!Messages, Resend(m) PROVE OrderInv'
  <2>1. PICK c : c = <<station, Bytes(m), "late">>
    OBVIOUS
  <2>2. /\ c \in Entries /\ c[1] = station /\ c[3] = "late"
        /\ Said(c)[1] = m[1] /\ Said(c)[2][1] = m[2]
    BY <2>1, OwnParts DEF Ways
  <2>3. /\ UNCHANGED <<got, tuned>> /\ air' = Append(air, c)
        /\ m \in missed /\ m \notin late
    BY <1>5, <2>1, ResendMoves DEF intake
  <2>4. ASSUME NEW p \in Plain, NEW way \in {"turn", "late"},
               Sent(p, way, taken, missed, late)
        PROVE  After(p, Said(c), c[3])
    <3>1. <<p[1], p[2][1]>> # m
      BY <2>3, <2>4 DEF Sent
    <3>2. m = <<m[1], m[2]>>
      BY MessageParts
    <3> QED
      BY <2>2, <3>1, <3>2 DEF After
  <2> QED
    BY <1>3, <2>2, <2>3, <2>4
<1>6. ASSUME NEW bytes \in Strays, PassOn(bytes) PROVE OrderInv'
  <2>1. PICK c : c = <<station, bytes, "relayed">>
    OBVIOUS
  <2>2. c \in Entries /\ c[1] = station /\ ~Own(c)
    BY <2>1, StrayParts
  <2>3. air' = Append(air, c) /\ UNCHANGED <<got, tuned>>
    BY <1>6, <2>1, PassOnMoves DEF intake
  <2> QED
    BY <1>3, <2>2, <2>3
<1>7. CASE ListenerStarts \/ ListenerStops
  BY <1>7, OffTypes DEF ListenerStarts, ListenerStops, Off, OrderInv, OrderOf
<1>8. CASE Arrive
  <2>1. air # <<>> /\ air' = Tail(air) /\ tuned' = tuned
    BY <1>8, ArriveMoves
  <2>2. CASE got' = got
    BY <2>1, <2>2, EntryTypes, OrderTail DEF OrderInv
  <2>3. CASE /\ Head(air)[1] = tuned /\ Valid(Head(air))
             /\ got' = Append(got, <<tuned, Said(Head(air)), Head(air)[3]>>)
    <3>1. PICK x : x = <<tuned, Said(Head(air)), Head(air)[3]>>
      OBVIOUS
    <3>2. Head(air) \in Entries
      BY <2>1, EntryTypes, TailParts
    <3>3. x \in Accepted /\ x[2] = Said(Head(air)) /\ x[3] = Head(air)[3]
      BY <2>3, <3>1, <3>2, AcceptedParts
    <3> QED
      BY <2>1, <2>3, <3>1, <3>3, EntryTypes, OrderAccept DEF OrderInv
  <2> QED
    BY <1>8, <2>2, <2>3, ArriveMoves
<1> QED
  BY <1>2, <1>4, <1>5, <1>6, <1>7, <1>8, StepCases

-----------------------------------------------------------------------------
(* What the listener's tasks do with what was accepted.                    *)

LEMMA PlayTypes ==
  ASSUME TypeOK
  PROVE  /\ L!LastPushed \in 0..Len(got)
         /\ \A i \in 1..Len(pushed) : pushed[i] \in 1..Len(got)
         /\ \A n \in 1..Len(got) : IsFiniteSet(Waits(n)) /\ Waits(n) \subseteq 1..Len(got)
<1>1. \A i \in 1..Len(pushed) : pushed[i] \in 1..Len(got)
  BY ElementOfSeq DEF TypeOK
<1>2. L!LastPushed \in 0..Len(got)
  <2>1. CASE pushed = <<>>
    BY <2>1, NumberTypes DEF L!LastPushed
  <2>2. CASE pushed # <<>>
    <3>1. Len(pushed) \in 1..Len(pushed)
      BY <2>2, EmptySeq, NumberTypes DEF TypeOK
    <3> QED
      BY <1>1, <2>2, <3>1, NumberTypes DEF L!LastPushed
  <2> QED
    BY <2>1, <2>2
<1>3. ASSUME NEW n \in 1..Len(got)
      PROVE  IsFiniteSet(Waits(n)) /\ Waits(n) \subseteq 1..Len(got)
  <2>1. Waits(n) \subseteq 1..Len(got)
    BY <1>2, NumberTypes DEF Waits
  <2>2. IsFiniteSet(1..Len(got))
    BY NumberTypes, FS_Interval
  <2> QED
    BY <2>1, <2>2, FS_Subset
<1> QED
  BY <1>1, <1>2, <1>3

(* Accepting more changes nothing about what was accepted before.          *)
LEMMA GotGrows ==
  ASSUME TypeOK, Arrive
  PROVE  /\ Len(got') \in Nat /\ Len(got) <= Len(got')
         /\ \A i \in 1..Len(got) : i \in 1..Len(got') /\ got'[i] = got[i]
<1>1. CASE got' = got
  BY <1>1, NumberTypes
<1>2. CASE /\ Head(air)[1] = tuned /\ Valid(Head(air))
           /\ got' = Append(got, <<tuned, Said(Head(air)), Head(air)[3]>>)
  <2>1. Head(air) \in Entries /\ got \in Seq(Accepted)
    BY ArriveMoves, EntryTypes, TailParts
  <2>2. <<tuned, Said(Head(air)), Head(air)[3]>> \in Accepted
    BY <1>2, <2>1, AcceptedParts
  <2>3. Len(got) \in Nat /\ Len(got') = Len(got) + 1 /\ \A i \in 1..Len(got) : got'[i] = got[i]
    BY <1>2, <2>1, <2>2, AppendParts
  <2> QED
    BY <2>3
<1> QED
  BY <1>1, <1>2, ArriveMoves

LEMMA PlayStep == TypeOK /\ NodeInv /\ PlayInv /\ [Next]_vars => PlayInv'
<1> SUFFICES ASSUME TypeOK, NodeInv, PlayInv, [Next]_vars PROVE PlayInv'
  OBVIOUS
<1>1. CASE UNCHANGED intake
  BY <1>1 DEF intake, PlayInv, Kind, Waits, L!LastPushed
<1>2. CASE SourceGoesOn \/ (\E m \in F!Messages : Publish(m)) \/ StationRestarts
           \/ (\E bytes \in Strays : PassOn(bytes)) \/ (\E m \in F!Messages : Resend(m))
           \/ UNCHANGED vars
  BY <1>1, <1>2, SourceMoves, PublishMoves, PassOnMoves, ResendMoves DEF StationRestarts, vars
<1>3. CASE ListenerStarts \/ ListenerStops
  BY <1>3, OffTypes DEF ListenerStarts, ListenerStops, Off, PlayInv, L!LastPushed
<1>4. CASE Arrive
  <2>1. UNCHANGED <<title, pushed>>
    BY <1>4, ArriveMoves
  <2>2. \A i \in 1..Len(got) : Kind(i)' = Kind(i)
    BY <1>4, GotGrows DEF Kind
  <2>3. \A i \in 1..Len(pushed) : Kind(pushed[i])' = Kind(pushed[i])
    BY <2>1, <2>2, PlayTypes
  <2>4. \A n \in 1..L!LastPushed' :
          Kind(n)' = "audio" => \E i \in 1..Len(pushed') : pushed'[i] = n
    <3>1. L!LastPushed' = L!LastPushed /\ 1..L!LastPushed \subseteq 1..Len(got)
      BY <2>1, PlayTypes, NumberTypes DEF L!LastPushed
    <3> QED
      BY <2>1, <2>2, <3>1 DEF PlayInv
  <2>5. CASE title = 0
    BY <2>4, <2>1, <2>3, <2>5 DEF PlayInv
  <2>6. CASE title # 0
    <3>1. title \in 1..Len(got)
      BY <2>6, NumberTypes DEF TypeOK
    <3>2. \A m \in L!LastPushed+1..title-1 : m \in 1..Len(got)
      BY <3>1, NumberTypes, PlayTypes
    <3>3. Waits(title)' = Waits(title)
      BY <2>1, <2>2, <3>2 DEF Waits, L!LastPushed
    <3>4. Kind(title)' = Kind(title)
      BY <2>1, <2>2, <3>1
    <3> QED
      BY <2>4, <2>1, <2>3, <2>6, <3>3, <3>4 DEF PlayInv
  <2> QED
    BY <2>5, <2>6
<1>5. CASE ListenerPlays
  <2>1. got' = got
    BY <1>5, PlaysMoves
  <2>2. \A i : Kind(i)' = Kind(i)
    BY <2>1 DEF Kind
  <2>3. ASSUME NEW n \in 1..Len(got), title' = n, UNCHANGED pushed, Kind(n) = "title",
               Cardinality(Waits(n)) <= AudioCap
        PROVE  PlayInv'
    <3>1. Waits(title)' = Waits(n)
      BY <2>2, <2>3 DEF Waits, L!LastPushed
    <3> QED
      BY <2>2, <2>3, <3>1 DEF PlayInv, L!LastPushed
  <2>4. ASSUME NEW n \in L!LastPushed+1..Len(got), pushed' = Append(pushed, n),
               UNCHANGED title, Kind(n) = "audio",
               \A m \in L!LastPushed+1..n-1 : Kind(m) # "audio"
        PROVE  PlayInv'
    <3>1. n \in 1..Len(got) /\ L!LastPushed \in Nat /\ L!LastPushed < n
      BY <2>4, PlayTypes, NumberTypes
    <3>2. /\ Len(pushed') = Len(pushed) + 1 /\ pushed'[Len(pushed) + 1] = n
          /\ \A i \in 1..Len(pushed) : pushed'[i] = pushed[i]
          /\ \A i \in 1..Len(pushed') : i = Len(pushed) + 1 \/ i \in 1..Len(pushed)
      BY <2>4, <3>1, AppendParts DEF TypeOK
    <3>3. \A i \in 1..Len(pushed') : Kind(pushed'[i]) = "audio"
      BY <2>4, <3>2, Zenon DEF PlayInv
    <3>4. ASSUME NEW i \in 1..Len(pushed) PROVE pushed[i] < n
      <4>1. Len(pushed) \in 1..Len(pushed) /\ L!LastPushed = pushed[Len(pushed)]
        BY <3>4, NumberTypes, OffTypes DEF L!LastPushed
      <4>2. i = Len(pushed) \/ i < Len(pushed)
        BY <3>4, NumberTypes
      <4>3. pushed[i] = L!LastPushed \/ pushed[i] < L!LastPushed
        BY <3>4, <4>1, <4>2 DEF PlayInv
      <4>4. pushed[i] \in Nat
        BY PlayTypes, NumberTypes
      <4> QED
        BY <3>1, <4>3, <4>4
    <3>5. ASSUME NEW i \in 1..Len(pushed'), NEW j \in 1..Len(pushed'), i < j
          PROVE  pushed'[i] < pushed'[j]
      <4>1. i \in 1..Len(pushed) /\ (j = Len(pushed) + 1 \/ j \in 1..Len(pushed))
        BY <3>2, <3>5, NumberTypes
      <4> QED
        BY <3>2, <3>4, <3>5, <4>1, Zenon DEF PlayInv
    <3>6. L!LastPushed' = n
      BY <2>4, <3>2, OffTypes, NumberTypes DEF L!LastPushed
    <3>7. ASSUME NEW k \in 1..n, Kind(k) = "audio"
          PROVE  \E i \in 1..Len(pushed') : pushed'[i] = k
      <4>1. CASE k = n
        BY <3>2, <4>1, NumberTypes
      <4>2. CASE k \in 1..L!LastPushed
        BY <3>2, <3>7, <4>2, NumberTypes DEF PlayInv
      <4>3. CASE k \in L!LastPushed+1..n-1
        BY <2>4, <3>7, <4>3
      <4> QED
        BY <3>1, <4>1, <4>2, <4>3
    <3>8. title # 0 => Kind(title) = "title" /\ Cardinality(Waits(title)') <= AudioCap
      <4> SUFFICES ASSUME title # 0
                   PROVE  Kind(title) = "title" /\ Cardinality(Waits(title)') <= AudioCap
        OBVIOUS
      <4>1. L!LastPushed' = n
        BY <3>6
      <4>2. Waits(title)' = {m \in n+1..title-1 : Kind(m) = "audio"}
        BY <2>2, <2>4, <4>1 DEF Waits
      <4>3. n+1..title-1 \subseteq L!LastPushed+1..title-1
        BY <3>1, NumberTypes
      <4>4. Waits(title)' \subseteq Waits(title)
        BY <4>2, <4>3 DEF Waits
      <4>5. title \in 1..Len(got)
        BY NumberTypes DEF TypeOK
      <4>6. IsFiniteSet(Waits(title)) /\ Cardinality(Waits(title)) \in Nat
        BY <4>5, PlayTypes, FS_CardinalityType
      <4>7. /\ Cardinality(Waits(title)') \in Nat
            /\ Cardinality(Waits(title)') <= Cardinality(Waits(title))
        BY <4>4, <4>6, FS_Subset, FS_CardinalityType
      <4>8. Kind(title) = "title" /\ Cardinality(Waits(title)) <= AudioCap
        BY DEF PlayInv
      <4> HIDE DEF Waits
      <4> QED
        BY <4>6, <4>7, <4>8, Bounds
    <3> QED
      BY <2>2, <2>4, <3>3, <3>5, <3>6, <3>7, <3>8 DEF PlayInv
  <2> QED
    BY <1>5, <2>3, <2>4, PlaysMoves
<1> QED
  BY <1>2, <1>3, <1>4, <1>5, StepCases

-----------------------------------------------------------------------------
(* Where the packets are that a title may not pass.                        *)

LEMMA TitleNumbers ==
  ASSUME TypeOK, TakenInv, AirInv, GotInv, tuned = station
  PROVE  /\ \A n \in 1..Len(got) : Own(got[n]) /\ got[n][2][1] = "title" =>
              got[n][2][2][1] \in 1..Len(tagAt)
         /\ \A j \in 1..Len(air) :
              air[j][1] = station /\ Own(air[j]) /\ Said(air[j])[1] = "title" =>
                Said(air[j])[2][1] \in 1..Len(tagAt)
<1>1. ASSUME NEW p \in Plain, Published(p, taken), p[1] = "title"
      PROVE  p[2][1] \in 1..Len(tagAt)
  <2>1. p[2][1] \in Nat \ {0} /\ LastTaken("title") \in Nat /\ Len(tagAt) \in Nat
    BY PlainParts, LastTypes, NumberTypes
  <2>2. p[2][1] <= LastTaken("title") /\ LastTaken("title") <= Len(tagAt)
    BY <1>1 DEF Published, LastTaken, TakenInv
  <2> QED
    BY <2>1, <2>2
<1> QED
  BY <1>1 DEF GotInv, HasGot, AirInv, InAir, Sent

(* The packets before a title: the source has made them, and has published *)
(* them when the title is.                                                 *)
LEMMA AheadParts ==
  ASSUME TypeOK, TakenInv, NEW t \in 1..Len(tagAt), NEW k \in Ahead(tagAt, t)
  PROVE  /\ <<"audio", k>> \in F!Messages
         /\ tagAt[t] <= LastTaken("audio") + Lead => <<"audio", k>> \in Taken
<1>1. tagAt[t] \in 0..MaxPackets /\ k \in 1..tagAt[t] /\ k + Lead <= tagAt[t]
  BY TagTypes DEF Ahead
<1>2. k \in 1..MaxPackets
  BY <1>1, Bounds
<1>3. <<"audio", k>> \in F!Messages
  BY <1>2 DEF F!Messages
<1>4. ASSUME tagAt[t] <= LastTaken("audio") + Lead PROVE <<"audio", k>> \in Taken
  <2>1. k \in 1..LastTaken("audio")
    BY <1>1, <1>4, LastTypes, Bounds
  <2> QED
    BY <1>3, <2>1, NumbersTaken DEF TakenInv
<1> QED
  BY <1>3, <1>4

(* More tags change nothing about the earlier ones.                        *)
LEMMA SeenTags ==
  ASSUME NEW lost, NEW g, NEW a, NEW s, NEW all, NEW tags,
         SeenOf(lost, g, a, s, all, tags),
         NEW more, \A t \in 1..Len(tags) : more[t] = tags[t],
         \A n \in 1..Len(g) : Own(g[n]) /\ g[n][2][1] = "title" =>
           g[n][2][2][1] \in 1..Len(tags),
         \A j \in 1..Len(a) : a[j][1] = s /\ Own(a[j]) /\ Said(a[j])[1] = "title" =>
           Said(a[j])[2][1] \in 1..Len(tags)
  PROVE  SeenOf(lost, g, a, s, all, more)
<1>1. \A t \in 1..Len(tags) : Ahead(more, t) = Ahead(tags, t)
  BY DEF Ahead
<1> QED
  BY <1>1, Zenon DEF SeenOf

(* A message is lost, maybe a packet.                                      *)
LEMMA SeenLose ==
  ASSUME NEW lost, NEW g, NEW a, NEW s, NEW all, NEW tags,
         SeenOf(lost, g, a, s, all, tags),
         NEW more, lost \subseteq more,
         NEW to, \A m \in to : m \in all \/ m \in more
  PROVE  SeenOf(more, g, a, s, to, tags)
<1>1. ASSUME NEW n, NEW j, NEW m, Seen(lost, g, n, a, j, s, m)
      PROVE  Seen(more, g, n, a, j, s, m)
  BY <1>1, Zenon DEF Seen
<1>2. ASSUME NEW m \in to PROVE Seen(more, g, Len(g), a, Len(a), s, m)
  <2>1. CASE m \in all
    BY <1>1, <2>1 DEF SeenOf
  <2>2. CASE m \in more
    BY <2>2 DEF Seen
  <2> QED
    BY <2>1, <2>2
<1> QED
  BY <1>1, <1>2, Zenon DEF SeenOf

(* A message comes into the air.                                           *)
LEMMA SeenAppend ==
  ASSUME NEW lost, NEW g, NEW a \in Seq(Entries), NEW s, NEW all, NEW tags,
         SeenOf(lost, g, a, s, all, tags), NEW c \in Entries,
         Own(c) /\ Said(c)[1] = "title" =>
           \A k \in Ahead(tags, Said(c)[2][1]) : <<"audio", k>> \in all,
         NEW to, \A m \in to : m \in all \/ c = <<s, Bytes(m), "turn">>
  PROVE  SeenOf(lost, g, Append(a, c), s, to, tags)
<1> DEFINE b == Append(a, c)
<1>1. /\ Len(a) \in Nat /\ Len(b) = Len(a) + 1 /\ b[Len(a) + 1] = c
      /\ Len(a) + 1 \in 1..Len(b) /\ (Len(a) + 1) - 1 = Len(a)
      /\ \A i \in 1..Len(a) : i \in 1..Len(b) /\ b[i] = a[i]
      /\ \A i \in 1..Len(b) : i = Len(a) + 1 \/ i \in 1..Len(a)
  BY AppendParts
<1> HIDE DEF b
<1>2. ASSUME NEW m \in all PROVE Seen(lost, g, Len(g), a, Len(a), s, m)
  BY DEF SeenOf
<1>3. ASSUME NEW n, NEW m, NEW j \in 1..Len(a), Seen(lost, g, n, a, j - 1, s, m)
      PROVE  Seen(lost, g, n, b, j - 1, s, m)
  <2>1. \A i \in 1..j-1 : i \in 1..Len(a)
    BY <1>1
  <2> QED
    BY <1>1, <1>3, <2>1, Zenon DEF Seen
<1>4. ASSUME NEW m \in to PROVE Seen(lost, g, Len(g), b, Len(b), s, m)
  <2>1. CASE m \in all
    BY <1>1, <1>2, <2>1, Zenon DEF Seen
  <2>2. CASE c = <<s, Bytes(m), "turn">>
    BY <1>1, <2>2, Zenon DEF Seen
  <2> QED
    BY <2>1, <2>2
<1>5. ASSUME NEW n \in 1..Len(g), Own(g[n]), g[n][2][1] = "title",
             NEW k \in Ahead(tags, g[n][2][2][1])
      PROVE  Seen(lost, g, n - 1, b, 0, s, <<"audio", k>>)
  <2>1. Seen(lost, g, n - 1, a, 0, s, <<"audio", k>>) /\ 1..0 = {}
    BY <1>5 DEF SeenOf
  <2> QED
    BY <2>1, Zenon DEF Seen
<1>6. ASSUME NEW j \in 1..Len(b), b[j][1] = s, Own(b[j]), Said(b[j])[1] = "title",
             NEW k \in Ahead(tags, Said(b[j])[2][1])
      PROVE  Seen(lost, g, Len(g), b, j - 1, s, <<"audio", k>>)
  <2>1. CASE j \in 1..Len(a)
    <3>1. Seen(lost, g, Len(g), a, j - 1, s, <<"audio", k>>)
      BY <1>1, <1>6, <2>1, Zenon DEF SeenOf
    <3> QED
      BY <1>3, <2>1, <3>1
  <2>2. CASE j = Len(a) + 1
    <3>1. Seen(lost, g, Len(g), a, Len(a), s, <<"audio", k>>)
      BY <1>1, <1>2, <1>6, <2>2
    <3> QED
      BY <1>1, <2>2, <3>1, Zenon DEF Seen
  <2> QED
    BY <1>1, <2>1, <2>2
<1>7. SeenOf(lost, g, b, s, to, tags)
  BY <1>4, <1>5, <1>6 DEF SeenOf
<1> QED
  BY <1>7 DEF b

(* A message arrives, and is accepted if its peer is tuned to and it       *)
(* decodes.                                                                *)
LEMMA SeenArrive ==
  ASSUME NEW lost, NEW g \in Seq(Accepted), NEW a \in Seq(Entries),
         NEW s, NEW all, NEW tags, SeenOf(lost, g, a, s, all, tags), a # <<>>,
         all \subseteq F!Messages,
         \A j \in 1..Len(a) : a[j][1] = s /\ Own(a[j]) /\ Said(a[j])[1] = "title" =>
           \A k \in Ahead(tags, Said(a[j])[2][1]) : <<"audio", k>> \in F!Messages,
         NEW x, NEW h,
         \/ h = g /\ (Head(a)[1] # s \/ ~Valid(Head(a)))
         \/ /\ x \in Accepted /\ x[2] = Said(Head(a)) /\ x[3] = Head(a)[3] /\ Head(a)[1] = s
            /\ h = Append(g, x)
  PROVE  SeenOf(lost, h, Tail(a), s, all, tags)
<1> DEFINE b == Tail(a)
           c == Head(a)
<1>1. /\ Len(a) \in Nat \ {0} /\ Len(b) \in Nat /\ Len(b) = Len(a) - 1 /\ c = a[1]
      /\ 1 \in 1..Len(a) /\ Len(a) \in 1..Len(a)
      /\ \A i \in 1..Len(b) : b[i] = a[i + 1] /\ i + 1 \in 1..Len(a) /\ (i + 1) - 1 = i
      /\ \A i \in 1..Len(a) : i = 1 \/ (i - 1 \in 1..Len(b) /\ b[i - 1] = a[i])
  BY TailParts
<1>2. /\ Len(g) \in Nat /\ Len(h) \in Nat
      /\ \A i \in 1..Len(g) : i \in 1..Len(h) /\ h[i] = g[i]
  <2>1. CASE h = g
    BY <2>1
  <2>2. CASE h = Append(g, x) /\ x \in Accepted
    BY <2>2, AppendParts
  <2> QED
    BY <2>1, <2>2
<1>3. c[1] = s /\ Valid(c) =>
        /\ h = Append(g, x) /\ Len(h) = Len(g) + 1 /\ h[Len(h)] = x
        /\ x[2] = Said(c) /\ x[3] = c[3] /\ Len(h) \in 1..Len(h)
  BY AppendParts
<1>4. \A i \in 1..Len(h) :
        \/ i \in 1..Len(g)
        \/ i = Len(g) + 1 /\ h[i] = x /\ x[2] = Said(c) /\ x[3] = c[3] /\ c[1] = s
  <2>1. CASE h = g
    BY <2>1
  <2>2. CASE h = Append(g, x) /\ x \in Accepted /\ x[2] = Said(c) /\ x[3] = c[3] /\ c[1] = s
    BY <2>2, AppendParts
  <2> QED
    BY <2>1, <2>2
<1> HIDE DEF b, c
<1>5. ASSUME NEW m \in F!Messages, NEW j \in 1..Len(a), Seen(lost, g, Len(g), a, j, s, m)
      PROVE  Seen(lost, h, Len(h), b, j - 1, s, m)
  <2>1. CASE m \in lost
    BY <2>1 DEF Seen
  <2>2. CASE \E i \in 1..Len(g) : Own(g[i]) /\ g[i][2] = Text(m)
    BY <1>2, <2>2, Zenon DEF Seen
  <2>3. ASSUME NEW i \in 1..j, a[i] = <<s, Bytes(m), "turn">>
        PROVE  Seen(lost, h, Len(h), b, j - 1, s, m)
    <3>1. i \in 1..Len(a) /\ (i = 1 \/ i - 1 \in 1..j-1)
      BY <1>1
    <3>2. CASE i = 1
      <4>1. c[1] = s /\ c[2] = Bytes(m) /\ c[3] = "turn"
        BY <1>1, <2>3, <3>2
      <4>2. Said(c) = Text(m)
        BY <4>1, MessageParts DEF Said
      <4>3. Valid(c)
        BY <4>2, MessageParts, PlainParts DEF Valid
      <4>4. h[Len(h)][2] = Text(m) /\ Own(h[Len(h)]) /\ Len(h) \in 1..Len(h)
        BY <1>3, <4>1, <4>2, <4>3 DEF Own
      <4> QED
        BY <4>4, Zenon DEF Seen
    <3>3. CASE i # 1
      <4>1. i - 1 \in 1..j-1 /\ b[i - 1] = a[i]
        BY <1>1, <3>1, <3>3
      <4> QED
        BY <2>3, <4>1, Zenon DEF Seen
    <3> QED
      BY <3>2, <3>3
  <2> QED
    BY <1>5, <2>1, <2>2, <2>3 DEF Seen
<1>6. ASSUME NEW m, NEW n \in 1..Len(g), Seen(lost, g, n - 1, a, 0, s, m)
      PROVE  Seen(lost, h, n - 1, b, 0, s, m)
  <2>1. (\A i \in 1..n-1 : i \in 1..Len(g)) /\ 1..0 = {}
    BY <1>2
  <2> QED
    BY <1>2, <1>6, <2>1, Zenon DEF Seen
<1>7. ASSUME NEW m \in all PROVE Seen(lost, h, Len(h), b, Len(b), s, m)
  <2>1. Seen(lost, g, Len(g), a, Len(a), s, m)
    BY DEF SeenOf
  <2> QED
    BY <1>1, <1>5, <2>1
<1>8. ASSUME NEW n \in 1..Len(h), Own(h[n]), h[n][2][1] = "title",
             NEW k \in Ahead(tags, h[n][2][2][1])
      PROVE  Seen(lost, h, n - 1, b, 0, s, <<"audio", k>>)
  <2>1. CASE n \in 1..Len(g)
    BY <1>2, <1>6, <1>8, <2>1, Zenon DEF SeenOf
  <2>2. CASE n = Len(g) + 1 /\ h[n] = x /\ x[2] = Said(c) /\ x[3] = c[3] /\ c[1] = s
    <3>1. Own(c) /\ Said(c)[1] = "title" /\ k \in Ahead(tags, Said(c)[2][1])
      BY <1>8, <2>2 DEF Own
    <3>2. Seen(lost, g, Len(g), a, 1 - 1, s, <<"audio", k>>)
      BY <1>1, <2>2, <3>1, Zenon DEF SeenOf
    <3>3. 1 - 1 = 0 /\ n - 1 = Len(g) /\ 1..0 = {}
      BY <1>2, <2>2
    <3>4. \/ <<"audio", k>> \in lost
          \/ \E i \in 1..Len(g) : Own(g[i]) /\ g[i][2] = Text(<<"audio", k>>)
      BY <3>2, <3>3 DEF Seen
    <3> QED
      BY <1>2, <3>3, <3>4, Zenon DEF Seen
  <2> QED
    BY <1>4, <2>1, <2>2
<1>9. ASSUME NEW j \in 1..Len(b), b[j][1] = s, Own(b[j]), Said(b[j])[1] = "title",
             NEW k \in Ahead(tags, Said(b[j])[2][1])
      PROVE  Seen(lost, h, Len(h), b, j - 1, s, <<"audio", k>>)
  <2>1. b[j] = a[j + 1] /\ j + 1 \in 1..Len(a) /\ (j + 1) - 1 = j
    BY <1>1
  <2>2. Seen(lost, g, Len(g), a, j, s, <<"audio", k>>) /\ <<"audio", k>> \in F!Messages
    BY <1>9, <2>1, Zenon DEF SeenOf
  <2>3. j \in 1..Len(a)
    BY <1>1
  <2> QED
    BY <1>5, <2>2, <2>3
<1>10. SeenOf(lost, h, b, s, all, tags)
  BY <1>7, <1>8, <1>9 DEF SeenOf
<1> QED
  BY <1>10 DEF b

LEMMA SeenStep ==
  ASSUME TypeOK, TakenInv, NodeInv, AirInv, GotInv, SeenInv, [Next]_vars
  PROVE  SeenInv'
<1>1. ASSUME UNCHANGED <<taken, tagAt, station, missed, air, tuned, got, playing>> PROVE SeenInv'
  BY <1>1 DEF SeenInv, Taken
<1>2. CASE ListenerPlays \/ UNCHANGED vars
  BY <1>1, <1>2, PlaysMoves DEF feed, intake, vars
<1>3. CASE SourceGoesOn
  <2>1. UNCHANGED <<taken, station, missed, air, tuned, got, playing>>
    BY <1>3, SourceMoves DEF intake
  <2>2. \A t \in 1..Len(tagAt) : tagAt'[t] = tagAt[t]
    BY <1>3, SourceMoves
  <2>3. tuned = station /\ playing => SeenOf(missed, got, air, station, Taken, tagAt')
    BY <2>2, SeenTags, TitleNumbers DEF SeenInv
  <2> QED
    BY <2>1, <2>3 DEF SeenInv, Taken
<1>4. ASSUME NEW m \in F!Messages, Publish(m) PROVE SeenInv'
  <2>1. UNCHANGED <<tagAt, station, tuned, got, playing>>
    BY <1>4, PublishMoves DEF intake
  <2> SUFFICES ASSUME tuned = station, playing
               PROVE  SeenOf(missed', got, air', station, Taken', tagAt)
    BY <2>1 DEF SeenInv
  <2>2. SeenOf(missed, got, air, station, Taken, tagAt) /\ Taken' = Taken \cup {m}
    BY <1>4, PublishLast DEF SeenInv
  <2>3. PICK c : c = <<station, Bytes(m), "turn">>
    OBVIOUS
  <2>4. /\ c \in Entries /\ Said(c)[1] = m[1] /\ Said(c)[2][1] = m[2]
    BY <2>3, OwnParts DEF Ways
  <2>5. CASE air' = Append(air, c) /\ missed' = missed
    <3>1. ASSUME m[1] = "title", NEW k \in Ahead(tagAt, m[2]) PROVE <<"audio", k>> \in Taken
      <4>1. m[2] <= Len(tagAt) /\ tagAt[m[2]] <= LastTaken("audio") + Lead
        BY <1>4, <3>1, PublishMoves
      <4>2. m[2] \in 1..Len(tagAt)
        BY <4>1, MessageParts, NumberTypes
      <4> QED
        BY <3>1, <4>1, <4>2, AheadParts
    <3> QED
      BY <2>2, <2>3, <2>4, <2>5, <3>1, EntryTypes, SeenAppend
  <2>6. CASE air' = air /\ missed' = missed \cup {m}
    BY <2>2, <2>6, SeenLose
  <2> QED
    BY <1>4, <2>3, <2>5, <2>6, PublishMoves
<1>5. ASSUME UNCHANGED <<taken, tagAt, station, missed, tuned, got, playing>>,
             NEW c \in Entries, air' = Append(air, c),
             Own(c) /\ Said(c)[1] = "title" =>
               \A k \in Ahead(tagAt, Said(c)[2][1]) : <<"audio", k>> \in Taken
      PROVE  SeenInv'
  <2>1. tuned = station /\ playing =>
          SeenOf(missed, got, Append(air, c), station, Taken, tagAt)
    BY <1>5, EntryTypes, SeenAppend DEF SeenInv
  <2> QED
    BY <1>5, <2>1 DEF SeenInv, Taken
<1>6. ASSUME NEW m \in F!Messages, Resend(m) PROVE SeenInv'
  <2>1. PICK c : c = <<station, Bytes(m), "late">>
    OBVIOUS
  <2>2. c \in Entries /\ Said(c)[1] = m[1] /\ Said(c)[2][1] = m[2]
    BY <2>1, OwnParts DEF Ways
  <2>3. /\ UNCHANGED <<taken, tagAt, station, missed, tuned, got, playing>>
        /\ air' = Append(air, c) /\ m \in missed
    BY <1>6, <2>1, ResendMoves DEF intake
  <2>4. ASSUME m[1] = "title", NEW k \in Ahead(tagAt, m[2]) PROVE <<"audio", k>> \in Taken
    <3>1. m[2] \in NumbersIn(taken, "title")
      BY <2>3, <2>4, NumbersTaken DEF TakenInv
    <3>2. m[2] \in 1..Len(tagAt) /\ tagAt[m[2]] <= LastTaken("audio") + Lead
      BY <3>1, TagTypes DEF TakenInv
    <3> QED
      BY <2>4, <3>2, AheadParts
  <2> QED
    BY <1>5, <2>2, <2>3, <2>4
<1>7. ASSUME NEW bytes \in Strays, PassOn(bytes) PROVE SeenInv'
  <2>1. PICK c : c = <<station, bytes, "relayed">>
    OBVIOUS
  <2>2. c \in Entries /\ ~Own(c)
    BY <2>1, StrayParts
  <2>3. /\ UNCHANGED <<taken, tagAt, station, missed, tuned, got, playing>>
        /\ air' = Append(air, c)
    BY <1>7, <2>1, PassOnMoves DEF intake
  <2> QED
    BY <1>5, <2>2, <2>3
<1>8. CASE StationRestarts
  <2>1. station' = station + 1 /\ tuned' = tuned
    BY <1>8 DEF StationRestarts, NewIdentity
  <2>2. tuned' # station'
    BY <2>1, NumberTypes DEF NodeInv
  <2> QED
    BY <2>2 DEF SeenInv
<1>9. CASE ListenerStarts
  <2>1. air' = <<>> /\ got' = <<>> /\ missed' = Taken /\ Taken' = Taken
    BY <1>9 DEF ListenerStarts, Off, feed, Taken
  <2>2. SeenOf(Taken, <<>>, <<>>, station', Taken, tagAt')
    BY OffTypes DEF SeenOf, Seen
  <2> QED
    BY <2>1, <2>2 DEF SeenInv
<1>10. CASE ListenerStops
  BY <1>10 DEF ListenerStops, SeenInv
<1>11. CASE Arrive
  <2>1. /\ air # <<>> /\ air' = Tail(air)
        /\ UNCHANGED <<taken, tagAt, station, missed, tuned, playing>>
    BY <1>11, ArriveMoves
  <2> SUFFICES ASSUME tuned = station, playing
               PROVE  SeenOf(missed, got', Tail(air), station, Taken, tagAt)
    BY <2>1 DEF SeenInv, Taken
  <2>2. SeenOf(missed, got, air, station, Taken, tagAt)
    BY DEF SeenInv
  <2>3. Taken \subseteq F!Messages
    BY DEF Taken, TypeOK
  <2>4. \A j \in 1..Len(air) : air[j][1] = station /\ Own(air[j]) /\ Said(air[j])[1] = "title" =>
          \A k \in Ahead(tagAt, Said(air[j])[2][1]) : <<"audio", k>> \in F!Messages
    BY TitleNumbers, AheadParts
  <2>5. PICK x : x = <<tuned, Said(Head(air)), Head(air)[3]>>
    OBVIOUS
  <2>6. CASE got' = got /\ (Head(air)[1] # tuned \/ ~Valid(Head(air)))
    BY <2>1, <2>2, <2>3, <2>4, <2>6, EntryTypes, SeenArrive
  <2>7. CASE Head(air)[1] = tuned /\ Valid(Head(air)) /\ got' = Append(got, x)
    <3>1. x \in Accepted /\ x[2] = Said(Head(air)) /\ x[3] = Head(air)[3]
      BY <2>1, <2>5, <2>7, EntryTypes, TailParts, AcceptedParts
    <3> QED
      BY <2>1, <2>2, <2>3, <2>4, <2>7, <3>1, EntryTypes, SeenArrive
  <2> QED
    BY <1>11, <2>5, <2>6, <2>7, ArriveMoves
<1> QED
  BY <1>2, <1>3, <1>4, <1>6, <1>7, <1>8, <1>9, <1>10, <1>11, StepCases

-----------------------------------------------------------------------------
LEMMA InitInv == Init => IInv
<1> SUFFICES ASSUME Init PROVE IInv
  OBVIOUS
<1>1. /\ made = 0 /\ tagAt = <<>> /\ taken = <<>> /\ station = 1 /\ missed = {} /\ late = {}
      /\ air = <<>> /\ tuned = 0 /\ faults = 0 /\ got = <<>> /\ title = 0
      /\ pushed = <<>> /\ playing = FALSE
  BY DEF Init, F!Init
<1>2. TypeOK
  <2>1. 1 \in Peers /\ 0 \in 0..MaxFaults /\ 0 \in 0..MaxPackets
    BY Bounds DEF Peers
  <2>2. /\ made \in 0..MaxPackets /\ tagAt \in Seq(0..made) /\ taken \in Seq(F!Messages)
        /\ air \in Seq(Peers \X Seq(Byte) \X Ways) /\ got \in Seq(Peers \X Message \X Ways)
        /\ pushed \in Seq(1..Len(got)) /\ title \in 0..Len(got)
    BY <1>1, <2>1, OffTypes, Zenon
  <2> QED
    BY <1>1, <2>1, <2>2 DEF TypeOK
<1>3. TakenInv
  <2>1. \A kind : LastTaken(kind) = 0
    BY <1>1, NothingTaken DEF LastTaken
  <2> QED
    BY <1>1, <2>1, NothingTaken, OffTypes, Bounds DEF TakenInv
<1>4. NodeInv
  BY <1>1 DEF NodeInv
<1>5. AirInv /\ GotInv /\ OrderInv /\ PlayInv
  BY <1>1, OffTypes DEF AirInv, GotInv, OrderInv, OrderOf, PlayInv, L!LastPushed
<1>6. SeenInv
  BY <1>1 DEF SeenInv
<1> QED
  BY <1>2, <1>3, <1>4, <1>5, <1>6 DEF IInv

(* The inductive invariant holds in every reachable state. *)
THEOREM Invariance == Spec => []IInv
<1>1. IInv /\ [Next]_vars => IInv'
  <2> SUFFICES ASSUME IInv, [Next]_vars PROVE IInv'
    OBVIOUS
  <2>1. TypeOK' /\ NodeInv' /\ TakenInv'
    BY TypeStep, TakenStep DEF IInv
  <2>2. AirInv' /\ GotInv' /\ OrderInv' /\ PlayInv'
    BY AirStep, GotStep, OrderStep, PlayStep DEF IInv
  <2>3. SeenInv'
    BY SeenStep DEF IInv
  <2> QED
    BY <2>1, <2>2, <2>3 DEF IInv
<1> QED
  BY InitInv, <1>1, PTL DEF Spec

(* Every variable keeps its type: in particular whatever a listener has    *)
(* accepted is a message, whatever others on the topic publish.            *)
THEOREM TypeCorrect == Spec => []TypeOK
BY Invariance, PTL DEF IInv

(* What a listener plays was handed over by the process it is tuned to,    *)
(* and what that one recorded itself it plays once, in the order of        *)
(* recording but for what came late: for any number of restarts, whatever  *)
(* is lost, re-sent or relayed.                                            *)
THEOREM AlwaysPlaysInOrder == Spec => []PlaysInOrder
<1>1. IInv => PlaysInOrder
  <2> SUFFICES ASSUME IInv PROVE PlaysInOrder
    OBVIOUS
  <2>1. \A i \in 1..Len(pushed) : pushed[i] \in 1..Len(got) /\ Kind(pushed[i]) = "audio"
    BY PlayTypes DEF IInv, PlayInv
  <2>2. \A i \in 1..Len(pushed) : got[pushed[i]][1] = tuned
    BY <2>1 DEF IInv, GotInv, HasGot
  <2>3. ASSUME NEW i \in 1..Len(pushed), NEW j \in 1..Len(pushed),
               i < j, Own(got[pushed[i]]), Own(got[pushed[j]])
        PROVE  \/ Number(pushed[i]) < Number(pushed[j])
               \/ Number(pushed[i]) # Number(pushed[j]) /\ got[pushed[j]][3] = "late"
    <3>1. pushed[i] < pushed[j]
      BY <2>3 DEF IInv, PlayInv
    <3>2. After(got[pushed[i]][2], got[pushed[j]][2], got[pushed[j]][3])
      BY <2>1, <2>3, <3>1, Zenon DEF IInv, OrderInv, OrderOf
    <3>3. got[pushed[j]][3] \in {"turn", "late"}
      BY <2>1, <2>3, EntryTypes, WayParts DEF IInv
    <3> QED
      BY <2>1, <3>2, <3>3 DEF After, Kind, Number
  <2> QED
    BY <2>2, <2>3 DEF PlaysInOrder
<1> QED
  BY Invariance, <1>1, PTL

-----------------------------------------------------------------------------
(* What the title shown leaves unplayed, and unshown.                      *)

LEMMA ShownParts ==
  ASSUME IInv, Shown > 0 \/ (title # 0 /\ Own(got[title]))
  PROVE  /\ title \in 1..Len(got) /\ Own(got[title]) /\ Shown = Number(title)
         /\ got[title][2][1] = "title" /\ Shown \in Nat \ {0}
         /\ Cardinality(Waits(title)) <= AudioCap
<1>1. title # 0 /\ Own(got[title]) /\ Shown = Number(title)
  BY DEF Shown
<1>2. title \in 1..Len(got)
  BY <1>1, NumberTypes DEF IInv, TypeOK
<1>3. got[title][2] \in Plain
  BY <1>1, <1>2 DEF IInv, GotInv, HasGot
<1>4. Kind(title) = "title" /\ Cardinality(Waits(title)) <= AudioCap
  BY <1>1 DEF IInv, PlayInv
<1> QED
  BY <1>1, <1>2, <1>3, <1>4, PlainParts DEF Kind, Number

(* A title that is not the newest is shown only when the newer one did not *)
(* come in its turn, is on its way, or was replaced by the title shown,    *)
(* which came late or was relayed.                                         *)
THEOREM StaleAlwaysMissed == Spec => []StaleOnlyIfMissed
<1>1. IInv => StaleOnlyIfMissed
  <2> SUFFICES ASSUME IInv, tuned = station, playing,
                      NEW t \in F!Numbers("title"), t > Shown
               PROVE  \/ <<"title", t>> \in missed
                      \/ \E i \in 1..Len(air) :
                           air[i] = <<station, Bytes(<<"title", t>>), "turn">>
                      \/ \E n \in 1..Len(got) :
                           /\ Own(got[n]) /\ Kind(n) = "title" /\ Number(n) = t
                           /\ n > title \/ got[title][3] # "turn"
    BY DEF StaleOnlyIfMissed
  <2>1. PICK m : m = <<"title", t>>
    OBVIOUS
  <2>2. m \in F!Messages /\ m \in Taken /\ t \in Nat
    <3>1. t \in NumbersIn(taken, "title")
      BY LastNames
    <3>2. PICK i \in 1..Len(taken) : taken[i][1] = "title" /\ taken[i][2] = t
      BY <3>1 DEF NumbersIn
    <3>3. taken[i] \in F!Messages /\ taken[i] \in Taken
      BY ElementOfSeq DEF IInv, TypeOK, Taken
    <3> QED
      BY <2>1, <3>2, <3>3, MessageParts
  <2>3. Seen(missed, got, Len(got), air, Len(air), station, m)
    BY <2>2 DEF IInv, SeenInv, SeenOf
  <2>4. ASSUME NEW n \in 1..Len(got), Own(got[n]), got[n][2] = Text(m)
        PROVE  /\ Own(got[n]) /\ Kind(n) = "title" /\ Number(n) = t
               /\ n > title \/ got[title][3] # "turn"
    <3>1. Kind(n) = "title" /\ Number(n) = t
      BY <2>1, <2>2, <2>4, TextParts DEF Kind, Number
    <3>2. ASSUME ~(n > title), got[title][3] = "turn" PROVE FALSE
      <4>1. n \in Nat \ {0} /\ n <= title /\ title # 0 /\ Own(got[title])
        BY <3>2, NumberTypes DEF IInv, Own
      <4>2. /\ title \in 1..Len(got) /\ Shown = Number(title) /\ Shown \in Nat \ {0}
            /\ got[title][2][1] = "title"
        BY <4>1, ShownParts
      <4>3. n = title \/ n < title
        BY <4>1, NumberTypes DEF IInv
      <4>4. n < title => Number(n) < Number(title)
        <5> SUFFICES ASSUME n < title PROVE Number(n) < Number(title)
          OBVIOUS
        <5>1. After(got[n][2], got[title][2], got[title][3])
          BY <2>4, <4>1, <4>2, Zenon DEF IInv, OrderInv, OrderOf
        <5> QED
          BY <3>1, <3>2, <4>2, <5>1 DEF After, Kind, Number
      <4> QED
        BY <2>2, <3>1, <4>2, <4>3, <4>4
    <3> QED
      BY <2>4, <3>1, <3>2
  <2> QED
    BY <2>1, <2>3, <2>4, Zenon DEF Seen
<1> QED
  BY Invariance, <1>1, PTL

LEMMA ImageFinite ==
  ASSUME NEW S, IsFiniteSet(S), NEW f, f = [x \in S |-> f[x]]
  PROVE  LET T == {f[x] : x \in S} IN
         IsFiniteSet(T) /\ Cardinality(T) \in Nat /\ Cardinality(T) <= Cardinality(S)
<1> DEFINE T == {f[x] : x \in S}
<1>1. f \in Surjection(S, T)
  BY DEF Surjection
<1> QED
  BY <1>1, FS_Surjection, FS_CardinalityType

(* A packet the title has not passed in the station, and which was not     *)
(* missed, is pushed or waits in the listener.                             *)
LEMMA AheadWaits ==
  ASSUME IInv, tuned = station, playing, Shown > 0,
         NEW k \in 1..tagAt[Shown], k + Lead <= tagAt[Shown],
         ~Pushed(k), <<"audio", k>> \notin missed
  PROVE  \E i \in Waits(title) : Number(i) = k
<1>1. /\ title \in 1..Len(got) /\ Own(got[title]) /\ Shown = Number(title)
      /\ got[title][2][1] = "title"
  BY ShownParts
<1>2. k \in Ahead(tagAt, got[title][2][2][1]) /\ Shown \in 1..Len(tagAt)
  BY <1>1, TitleNumbers DEF Ahead, Number, IInv
<1>3. Seen(missed, got, title - 1, air, 0, station, <<"audio", k>>)
  BY <1>1, <1>2, Zenon DEF IInv, SeenInv, SeenOf
<1>4. PICK i \in 1..title-1 : Own(got[i]) /\ got[i][2] = Text(<<"audio", k>>)
  BY <1>3 DEF Seen
<1>5. <<"audio", k>> \in F!Messages
  BY <1>1, <1>2, AheadParts DEF IInv, Number
<1>6. Kind(i) = "audio" /\ Number(i) = k
  BY <1>4, <1>5, TextParts DEF Kind, Number
<1>7. i \notin 1..L!LastPushed
  BY <1>4, <1>6, Zenon DEF IInv, PlayInv, Pushed
<1>8. i \in L!LastPushed+1..title-1
  BY <1>1, <1>7, NumberTypes, PlayTypes DEF IInv
<1> QED
  BY <1>6, <1>8 DEF Waits

(* A title is early by no more than the station's channel lets it pass and *)
(* the listener's channel holds, not counting packets that did not come in *)
(* their turn.                                                             *)
THEOREM TitleAlwaysNear == Spec => []TitleLead
<1>1. IInv => TitleLead
  <2> DEFINE A == tagAt[Shown]
             X == {k \in 1..A : ~Pushed(k) /\ <<"audio", k>> \notin missed}
             W == Waits(title)
             K == A-Lead+1..A
             g == [i \in W |-> Number(i)]
             T == {g[i] : i \in W}
  <2> SUFFICES ASSUME IInv, tuned = station, playing, Shown > 0
               PROVE  Cardinality(X) <= Lead + AudioCap
    BY DEF TitleLead
  <2>1. title \in 1..Len(got) /\ Shown = Number(title) /\ Cardinality(W) <= AudioCap
    BY ShownParts
  <2>2. A \in Nat
    <3>1. Shown \in 1..Len(tagAt)
      BY ShownParts, TitleNumbers DEF IInv, Number
    <3> QED
      BY <3>1, TagTypes, Bounds DEF IInv
  <2>3. IsFiniteSet(W) /\ Cardinality(W) \in Nat
    BY <2>1, PlayTypes, FS_CardinalityType DEF IInv
  <2>4. IsFiniteSet(T) /\ Cardinality(T) \in Nat /\ Cardinality(T) <= Cardinality(W)
    <3>1. g = [i \in W |-> g[i]]
      BY Zenon
    <3> HIDE DEF g, W
    <3> QED
      BY <2>3, <3>1, ImageFinite
  <2>5. IsFiniteSet(K) /\ Cardinality(K) = Lead
    <3>1. A - Lead + 1 \in Int /\ A \in Int
      BY <2>2, Bounds
    <3>2. /\ IsFiniteSet(K)
          /\ Cardinality(K) = IF A - Lead + 1 > A THEN 0 ELSE A - (A - Lead + 1) + 1
      BY <3>1, FS_Interval
    <3> HIDE DEF K
    <3> QED
      BY <2>2, <3>2, Bounds
  <2>6. X \subseteq K \cup T
    <3> SUFFICES ASSUME NEW k \in 1..A, ~Pushed(k), <<"audio", k>> \notin missed
                 PROVE  k \in K \cup T
      OBVIOUS
    <3>1. CASE k + Lead <= A
      <4>1. PICK i \in W : Number(i) = k
        BY <3>1, AheadWaits
      <4> QED
        BY <4>1
    <3>2. CASE ~(k + Lead <= A)
      BY <2>2, <3>2, Bounds
    <3> QED
      BY <3>1, <3>2
  <2> HIDE DEF A, X, W, K, g, T
  <2>7. /\ IsFiniteSet(K \cup T) /\ Cardinality(K \cup T) \in Nat
        /\ Cardinality(K \cup T) <= Cardinality(K) + Cardinality(T)
    <3>1. IsFiniteSet(K \cap T)
      BY <2>5, FS_Subset
    <3>2. Cardinality(K \cap T) \in Nat
      BY <3>1, FS_CardinalityType
    <3>3. /\ IsFiniteSet(K \cup T)
          /\ Cardinality(K \cup T) = Cardinality(K) + Cardinality(T) - Cardinality(K \cap T)
      BY <2>4, <2>5, FS_Union
    <3> QED
      BY <2>4, <2>5, <3>2, <3>3, Bounds, FS_CardinalityType
  <2>8. Cardinality(X) \in Nat /\ Cardinality(X) <= Cardinality(K \cup T)
    BY <2>6, <2>7, FS_Subset, FS_CardinalityType
  <2> QED
    BY <2>1, <2>3, <2>4, <2>5, <2>7, <2>8, Bounds
<1> QED
  BY Invariance, <1>1, PTL
=============================================================================
