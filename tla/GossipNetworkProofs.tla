------------------------- MODULE GossipNetworkProofs -------------------------
(***************************************************************************)
(* GossipNetwork for any stations and listeners, however mDNS, the mesh    *)
(* and the losses behave: the type invariant, that a listener hears no     *)
(* message twice and its own station in order where the station hands      *)
(* nothing over late, that it misses a message only where it has           *)
(* blacklisted a relay, and that this comes to an end.                     *)
(***************************************************************************)
EXTENDS GossipNetwork, SequenceTheorems, TLAPS

Ids == 1..Len(origin)                    \* what has been published

(* Only published messages are about, and what a listener has handled or   *)
(* has to handle is in its duplicate cache.                                *)
Known ==
  /\ \A n \in Nodes : seen[n] \subseteq Ids
  /\ \A link \in Links : \A i \in 1..Len(wire[link]) : wire[link][i] \in Ids
  /\ \A l \in Listeners :
       /\ \A i \in 1..Len(delivered[l]) : delivered[l][i] \in seen[l]
       /\ \A i \in 1..Len(events[l]) : events[l][i][1] # l /\ events[l][i][2] \in seen[l]

(* Each message becomes an event of a listener once.                       *)
OnceIn(d, e) ==
  /\ \A i, j \in 1..Len(d) : d[i] = d[j] => i = j
  /\ \A i, j \in 1..Len(e) : e[i][2] = e[j][2] => i = j
  /\ \A i \in 1..Len(d), j \in 1..Len(e) : d[i] # e[j][2]

Once == \A l \in Listeners : OnceIn(delivered[l], events[l])

(* A station's own messages come to its listener along one way: the link,  *)
(* the events from the station (0 stands for one from a relay) and what    *)
(* was delivered.  They keep their order there, because a station forwards *)
(* no message of its own, but for those it hands over once more, on        *)
(* request: only a message that is still in its turn comes after all the   *)
(* station's messages that are older.                                      *)
Own(l) == {m \in Ids : origin[m] = Chosen[l]}
Turn(l) == Own(l) \ Late(l)

FromStation(es, c) == [i \in 1..Len(es) |-> IF es[i][1] = c THEN es[i][2] ELSE 0]

Rising(q, own, turn) ==
  \A i, j \in 1..Len(q) : i < j /\ q[i] \in own /\ q[j] \in turn => q[i] < q[j]

Before(q, r, own, turn) ==
  \A i \in 1..Len(q), j \in 1..Len(r) : q[i] \in own /\ r[j] \in turn => q[i] < r[j]

InOrder(d, e, w, own, turn) ==
  /\ Rising(d, own, turn) /\ Rising(e, own, turn) /\ Rising(w, own, turn)
  /\ Before(d, e, own, turn) /\ Before(d, w, own, turn) /\ Before(e, w, own, turn)

OneWay ==
  \A l \in Listeners :
    InOrder(delivered[l], FromStation(events[l], Chosen[l]), wire[<<Chosen[l], l>>],
            Own(l), Turn(l))

IInv == TypeOK /\ Known /\ Once /\ OneWay /\ OnlyRelaysSwallow

-----------------------------------------------------------------------------
(* The steps, as far as the messages go.                                   *)

(* The head of a link has gone, and m may have been appended to links from *)
(* n, which did not sign it.                                               *)
Moves(link, n, m) ==
  /\ wire' \in [Links -> Seq(Msgs)]
  /\ wire[link] # <<>> /\ wire'[link] = Tail(wire[link])
  /\ \A k \in Links \ {link} :
       wire'[k] = wire[k] \/ (k[1] = n /\ origin[m] # n /\ wire'[k] = Append(wire[k], m))

LEMMA LinkParts ==
  /\ \A k \in Links : k = <<k[1], k[2]>> /\ k[1] \in Nodes /\ k[2] \in Nodes /\ k[1] # k[2]
  /\ \A l \in Listeners : /\ <<Chosen[l], l>> \in Links /\ Chosen[l] # l
                          /\ Chosen[l] \in Nodes \ Listeners
BY NodesAssumption, ChosenAssumption DEF Links, Nodes

LEMMA HeadOfWire ==
  ASSUME TypeOK, Known, NEW link \in Links, wire[link] # <<>>
  PROVE  /\ Head(wire[link]) = wire[link][1] /\ Head(wire[link]) \in Ids \cap Msgs
         /\ Tail(wire[link]) \in Seq(Msgs) /\ 1 \in 1..Len(wire[link])
<1>1. wire[link] \in Seq(Msgs)
  BY DEF TypeOK
<1>2. /\ Len(wire[link]) \in Nat \ {0} /\ Head(wire[link]) = wire[link][1]
      /\ Head(wire[link]) \in Msgs /\ Tail(wire[link]) \in Seq(Msgs)
  BY <1>1, HeadTailProperties, EmptySeq
<1>3. 1 \in 1..Len(wire[link])
  BY <1>2
<1> QED
  BY <1>2, <1>3 DEF Known

(* Receive takes the head; only a message that is new to n becomes an      *)
(* event of n and goes on.                                                 *)
LEMMA ReceiveMoves ==
  ASSUME TypeOK, Known, NEW link \in Links, Receive(link[1], link[2])
  PROVE  LET n == link[2]
             m == Head(wire[link])
         IN  /\ Moves(link, n, m)
             /\ UNCHANGED <<origin, near, expired, explicit, blacklist, resent, delivered>>
             /\ \/ UNCHANGED <<seen, events>>
                \/ /\ m \notin seen[n] /\ seen' = [seen EXCEPT ![n] = @ \cup {m}]
                   /\ events' = IF n \in Listeners
                                THEN [events EXCEPT ![n] = Append(@, <<link[1], m>>)]
                                ELSE events
<1> DEFINE n == link[2]
           m == Head(wire[link])
           rest == [wire EXCEPT ![link] = Tail(@)]
<1>1. /\ link = <<link[1], link[2]>> /\ wire[link] # <<>>
      /\ UNCHANGED <<origin, near, expired, explicit, blacklist, resent, delivered>>
  BY LinkParts DEF Receive
<1>2. /\ rest \in [Links -> Seq(Msgs)] /\ rest[link] = Tail(wire[link])
      /\ \A k \in Links \ {link} : rest[k] = wire[k]
  BY <1>1, HeadOfWire DEF TypeOK
<1>3. CASE wire' = rest /\ UNCHANGED <<seen, events>>
  BY <1>1, <1>2, <1>3 DEF Moves
<1>4. ASSUME Accepts(n, link[1], m), NEW targets, wire' = Put(rest, n, targets, m)
      PROVE  Moves(link, n, m)
  <2>1. m \in Msgs /\ origin[m] # n /\ link[1] # n
    BY <1>1, <1>4, HeadOfWire, LinkParts DEF Accepts, NewTo
  <2>2. \A k \in Links : Append(rest[k], m) \in Seq(Msgs)
    BY <1>2, <2>1, AppendProperties
  <2>3. \A k \in Links : wire'[k] = IF k[1] = n /\ k[2] \in targets
                                    THEN Append(rest[k], m) ELSE rest[k]
    BY <1>4 DEF Put
  <2>4. wire' \in [Links -> Seq(Msgs)]
    BY <1>2, <1>4, <2>2 DEF Put
  <2> QED
    BY <1>1, <1>2, <2>1, <2>3, <2>4 DEF Moves
<1>5. CASE Accepts(n, link[1], m)
  <2>1. /\ \E targets : wire' = Put(rest, n, targets, m)
        /\ seen' = [seen EXCEPT ![n] = @ \cup {m}]
        /\ events' = IF n \in Listeners
                     THEN [events EXCEPT ![n] = Append(@, <<link[1], m>>)]
                     ELSE events
    BY <1>1, <1>5 DEF Receive
  <2> QED
    BY <1>1, <1>4, <1>5, <2>1 DEF Accepts, NewTo
<1>6. CASE ~Accepts(n, link[1], m)
  BY <1>1, <1>3, <1>6 DEF Receive
<1> QED
  BY <1>5, <1>6

LEMMA LoseMoves ==
  ASSUME TypeOK, Known, NEW link \in Links, Lose(link[1], link[2])
  PROVE  /\ Moves(link, link[2], Head(wire[link]))
         /\ UNCHANGED <<origin, near, expired, explicit, blacklist, resent, seen, events, delivered>>
<1>1. /\ link = <<link[1], link[2]>> /\ wire[link] # <<>>
      /\ wire' = [wire EXCEPT ![link] = Tail(@)]
      /\ UNCHANGED <<origin, near, expired, explicit, blacklist, resent, seen, events, delivered>>
  BY LinkParts DEF Lose
<1>2. /\ wire' \in [Links -> Seq(Msgs)] /\ wire'[link] = Tail(wire[link])
      /\ \A k \in Links \ {link} : wire'[k] = wire[k]
  BY <1>1, HeadOfWire DEF TypeOK
<1> QED
  BY <1>1, <1>2 DEF Moves

(* On request one link gets a message that is in a duplicate cache.        *)
LEMMA ResendMoves ==
  ASSUME TypeOK, Known, NEW link \in Links, NEW m \in Msgs, Resend(link[1], link[2], m)
  PROVE  /\ m \in Ids /\ wire' \in [Links -> Seq(Msgs)]
         /\ wire'[link] = Append(wire[link], m)
         /\ \A k \in Links \ {link} : wire'[k] = wire[k]
         /\ resent' = resent \cup {<<link, m>>}
         /\ UNCHANGED <<origin, near, expired, explicit, blacklist, seen, events, delivered>>
<1>1. /\ link = <<link[1], link[2]>> /\ link[1] \in Nodes /\ m \in seen[link[1]]
      /\ wire' = [wire EXCEPT ![link] = Append(@, m)]
      /\ resent' = resent \cup {<<link, m>>}
      /\ UNCHANGED <<origin, near, expired, explicit, blacklist, seen, events, delivered>>
  BY LinkParts DEF Resend
<1>2. m \in Ids
  BY <1>1 DEF Known
<1>3. Append(wire[link], m) \in Seq(Msgs)
  BY AppendProperties DEF TypeOK
<1> QED
  BY <1>1, <1>2, <1>3 DEF TypeOK

(* A new message has a number of its own, the highest yet.                 *)
LEMMA PublishMoves ==
  ASSUME TypeOK, Known, NEW s \in Stations, Publish(s)
  PROVE  LET m == Len(origin) + 1
         IN  /\ origin' = Append(origin, s) /\ origin' \in Seq(Stations)
             /\ Len(origin') = m /\ Len(origin) \in Nat /\ m \in Msgs
             /\ Ids' = Ids \cup {m} /\ m \notin Ids /\ \A i \in Ids : i < m
             /\ \A i \in Ids : origin'[i] = origin[i]
             /\ wire' \in [Links -> Seq(Msgs)]
             /\ \A k \in Links : wire'[k] = wire[k] \/ wire'[k] = Append(wire[k], m)
             /\ seen' \in [Nodes -> SUBSET Msgs]
             /\ \A n \in Nodes : seen'[n] = seen[n] \/ (n = s /\ seen'[n] = seen[n] \cup {m})
             /\ UNCHANGED <<near, expired, explicit, blacklist, resent, events, delivered>>
<1> DEFINE m == Len(origin) + 1
<1>1. /\ origin' = Append(origin, s) /\ Len(origin) < MaxMsgs
      /\ \E targets : /\ wire' = Put(wire, s, targets, m)
                      /\ seen' = IF targets = {} THEN seen ELSE [seen EXCEPT ![s] = @ \cup {m}]
      /\ UNCHANGED <<near, expired, explicit, blacklist, resent, events, delivered>>
  BY DEF Publish
<1>2. Len(origin) \in Nat /\ Len(origin') = m /\ origin' \in Seq(Stations)
      /\ \A i \in 1..Len(origin) : origin'[i] = origin[i]
  BY <1>1, AppendProperties, LenProperties DEF TypeOK
<1>3. m \in Msgs /\ 1..m = 1..Len(origin) \cup {m} /\ m \notin 1..Len(origin)
      /\ \A i \in 1..Len(origin) : i < m
  BY <1>1, <1>2, BoundAssumption DEF Msgs
<1>4. /\ wire' \in [Links -> Seq(Msgs)]
      /\ \A k \in Links : wire'[k] = wire[k] \/ wire'[k] = Append(wire[k], m)
  <2>1. \A k \in Links : wire[k] \in Seq(Msgs) /\ Append(wire[k], m) \in Seq(Msgs)
    BY <1>3, AppendProperties DEF TypeOK
  <2> HIDE DEF m
  <2> QED
    BY <1>1, <2>1 DEF Put
<1>5. /\ seen' \in [Nodes -> SUBSET Msgs]
      /\ \A n \in Nodes : seen'[n] = seen[n] \/ (n = s /\ seen'[n] = seen[n] \cup {m})
  <2>1. s \in Nodes /\ m \in Msgs
    BY <1>3 DEF Nodes
  <2> HIDE DEF m
  <2>2. seen' = seen \/ seen' = [seen EXCEPT ![s] = @ \cup {m}]
    BY <1>1
  <2>3. CASE seen' = seen
    BY <2>3 DEF TypeOK
  <2>4. CASE seen' = [seen EXCEPT ![s] = @ \cup {m}]
    <3>1. seen[s] \cup {m} \in SUBSET Msgs
      BY <2>1 DEF TypeOK
    <3> QED
      BY <2>1, <2>4, <3>1 DEF TypeOK
  <2> QED
    BY <2>2, <2>3, <2>4
<1> QED
  BY <1>1, <1>2, <1>3, <1>4, <1>5 DEF Ids

LEMMA HeadOfEvents ==
  ASSUME TypeOK, NEW l \in Listeners, events[l] # <<>>
  PROVE  /\ Head(events[l]) = events[l][1] /\ Head(events[l]) \in Nodes \X Msgs
         /\ Tail(events[l]) \in Seq(Nodes \X Msgs) /\ 1 \in 1..Len(events[l])
         /\ Len(events[l]) \in Nat /\ Len(Tail(events[l])) = Len(events[l]) - 1
         /\ \A i \in 1..Len(Tail(events[l])) :
              Tail(events[l])[i] = events[l][i + 1] /\ i + 1 \in 1..Len(events[l]) \ {1}
<1>1. events[l] \in Seq(Nodes \X Msgs)
  BY DEF TypeOK
<1>2. /\ Len(events[l]) \in Nat \ {0} /\ Head(events[l]) = events[l][1]
      /\ Head(events[l]) \in Nodes \X Msgs /\ Tail(events[l]) \in Seq(Nodes \X Msgs)
      /\ Len(Tail(events[l])) = Len(events[l]) - 1
      /\ \A i \in 1..Len(Tail(events[l])) : Tail(events[l])[i] = events[l][i + 1]
  BY <1>1, HeadTailProperties, EmptySeq
<1>3. 1 \in 1..Len(events[l])
      /\ \A i \in 1..Len(Tail(events[l])) : i + 1 \in 1..Len(events[l]) \ {1}
  BY <1>2
<1> QED
  BY <1>2, <1>3

(* The handler hears the head, or turns its back on who handed it over.    *)
LEMMA HandleMoves ==
  ASSUME TypeOK, NEW l \in Listeners, HandleEvent(l)
  PROVE  LET e == Head(events[l])
         IN  /\ events[l] # <<>> /\ events' = [events EXCEPT ![l] = Tail(events[l])]
             /\ UNCHANGED <<origin, near, expired, wire, resent, seen>>
             /\ \/ /\ e[1] = Chosen[l]
                   /\ delivered' = [delivered EXCEPT ![l] = Append(delivered[l], e[2])]
                   /\ UNCHANGED <<blacklist, explicit>>
                \/ /\ e[1] # Chosen[l] /\ UNCHANGED delivered
                   /\ blacklist' = [blacklist EXCEPT ![l] = blacklist[l] \cup {e[1]}]
                   /\ explicit' = [explicit EXCEPT ![l] = explicit[l] \ {e[1]}]
BY DEF HandleEvent, Trusted, Untrust

-----------------------------------------------------------------------------
LEMMA TypeInit == Init => TypeOK
<1> SUFFICES ASSUME Init PROVE TypeOK
  OBVIOUS
<1>1. /\ <<>> \in Seq(Stations) /\ Len(<<>>) = 0 /\ <<>> \in Seq(Msgs)
      /\ <<>> \in Seq(Nodes \X Msgs)
  OBVIOUS
<1>2. origin \in Seq(Stations) /\ Len(origin) <= MaxMsgs /\ expired \in 0..MaxExpired
  BY <1>1, BoundAssumption DEF Init
<1>3. /\ wire \in [Links -> Seq(Msgs)] /\ events \in [Listeners -> Seq(Nodes \X Msgs)]
      /\ delivered \in [Listeners -> Seq(Msgs)]
  BY <1>1 DEF Init
<1> QED
  BY <1>2, <1>3 DEF Init, TypeOK

LEMMA TypeStep == TypeOK /\ Known /\ [Next]_vars => TypeOK'
<1> SUFFICES ASSUME TypeOK, Known, [Next]_vars PROVE TypeOK'
  OBVIOUS
<1>1. ASSUME NEW n \in Nodes, NEW p \in Nodes, NEW a \in Addrs, Discovered(n, p, a)
      PROVE  TypeOK'
  <2>1. /\ explicit' \in [Nodes -> SUBSET Nodes]
        /\ \A x \in Nodes : x \notin explicit'[x] \cup blacklist[x]
    BY <1>1 DEF Discovered, TypeOK
  <2>2. near' \subseteq Nodes \X Nodes \X Addrs
    BY <1>1 DEF Discovered, TypeOK
  <2> QED
    BY <1>1, <2>1, <2>2 DEF Discovered, TypeOK
<1>2. ASSUME NEW n \in Nodes, NEW p \in Nodes, NEW a \in Addrs, Expired(n, p, a)
      PROVE  TypeOK'
  <2>1. /\ explicit' \in [Nodes -> SUBSET Nodes]
        /\ \A x \in Nodes : x \notin explicit'[x] \cup blacklist[x]
    BY <1>2 DEF Expired, TypeOK
  <2>2. expired' \in 0..MaxExpired
    BY <1>2, BoundAssumption DEF Expired, TypeOK
  <2> QED
    BY <1>2, <2>1, <2>2 DEF Expired, TypeOK
<1>3. ASSUME NEW s \in Stations, Publish(s) PROVE TypeOK'
  <2>1. Len(origin') <= MaxMsgs
    BY <1>3, PublishMoves, BoundAssumption DEF Msgs
  <2> QED
    BY <1>3, <2>1, PublishMoves DEF TypeOK
<1>4. ASSUME NEW link \in Links, Receive(link[1], link[2]) PROVE TypeOK'
  <2> DEFINE n == link[2]
             m == Head(wire[link])
  <2>1. /\ Moves(link, n, m)
        /\ UNCHANGED <<origin, near, expired, explicit, blacklist, resent, delivered>>
        /\ \/ UNCHANGED <<seen, events>>
           \/ /\ seen' = [seen EXCEPT ![n] = @ \cup {m}]
              /\ events' = IF n \in Listeners
                           THEN [events EXCEPT ![n] = Append(@, <<link[1], m>>)] ELSE events
    BY <1>4, ReceiveMoves
  <2>2. m \in Msgs /\ n \in Nodes /\ link[1] \in Nodes
    BY <2>1, HeadOfWire, LinkParts DEF Moves
  <2>3. [seen EXCEPT ![n] = @ \cup {m}] \in [Nodes -> SUBSET Msgs]
    BY <2>2 DEF TypeOK
  <2>4. ASSUME n \in Listeners
        PROVE  [events EXCEPT ![n] = Append(@, <<link[1], m>>)] \in [Listeners -> Seq(Nodes \X Msgs)]
    <3>1. Append(events[n], <<link[1], m>>) \in Seq(Nodes \X Msgs)
      <4>1. events[n] \in Seq(Nodes \X Msgs) /\ <<link[1], m>> \in Nodes \X Msgs
        BY <2>2, <2>4 DEF TypeOK
      <4> QED
        BY <4>1, AppendProperties
    <3> QED
      BY <3>1 DEF TypeOK
  <2> HIDE DEF n, m
  <2>5. seen' \in [Nodes -> SUBSET Msgs] /\ events' \in [Listeners -> Seq(Nodes \X Msgs)]
    BY <2>1, <2>3, <2>4 DEF TypeOK
  <2> QED
    BY <2>1, <2>5 DEF TypeOK, Moves
<1>5. ASSUME NEW link \in Links, Lose(link[1], link[2]) PROVE TypeOK'
  BY <1>5, LoseMoves DEF TypeOK, Moves
<1>6. ASSUME NEW l \in Listeners, HandleEvent(l) PROVE TypeOK'
  <2> DEFINE e == Head(events[l])
  <2>1. /\ events[l] # <<>> /\ events' = [events EXCEPT ![l] = Tail(events[l])]
        /\ UNCHANGED <<origin, near, expired, wire, resent, seen>>
        /\ \/ /\ delivered' = [delivered EXCEPT ![l] = Append(delivered[l], e[2])]
              /\ UNCHANGED <<blacklist, explicit>>
           \/ /\ UNCHANGED delivered
              /\ blacklist' = [blacklist EXCEPT ![l] = blacklist[l] \cup {e[1]}]
              /\ explicit' = [explicit EXCEPT ![l] = explicit[l] \ {e[1]}]
    BY <1>6, HandleMoves
  <2>2. e[1] \in Nodes \ {l} /\ e[2] \in Msgs
    BY <2>1, HeadOfEvents DEF Known
  <2>3. events' \in [Listeners -> Seq(Nodes \X Msgs)]
    BY <2>1, HeadOfEvents DEF TypeOK
  <2>4. Append(delivered[l], e[2]) \in Seq(Msgs)
    BY <2>2, AppendProperties DEF TypeOK
  <2>5. delivered' \in [Listeners -> Seq(Msgs)]
    BY <2>1, <2>4 DEF TypeOK
  <2>6. /\ explicit' \in [Nodes -> SUBSET Nodes] /\ blacklist' \in [Nodes -> SUBSET Nodes]
        /\ \A x \in Nodes : x \notin explicit'[x] \cup blacklist'[x]
    <3>1. CASE UNCHANGED <<blacklist, explicit>>
      BY <3>1 DEF TypeOK
    <3>2. CASE /\ blacklist' = [blacklist EXCEPT ![l] = blacklist[l] \cup {e[1]}]
               /\ explicit' = [explicit EXCEPT ![l] = explicit[l] \ {e[1]}]
      <4>1. l \in Nodes
        BY DEF Nodes
      <4>2. blacklist[l] \cup {e[1]} \in SUBSET Nodes /\ explicit[l] \ {e[1]} \in SUBSET Nodes
        BY <2>2, <4>1 DEF TypeOK
      <4> HIDE DEF e
      <4>3. /\ explicit' \in [Nodes -> SUBSET Nodes] /\ blacklist' \in [Nodes -> SUBSET Nodes]
        BY <3>2, <4>1, <4>2 DEF TypeOK
      <4>4. \A x \in Nodes : x \notin explicit'[x] \cup blacklist'[x]
        BY <2>2, <3>2, <4>1 DEF TypeOK
      <4> QED
        BY <4>3, <4>4
    <3> QED
      BY <2>1, <3>1, <3>2
  <2> QED
    BY <2>1, <2>3, <2>5, <2>6 DEF TypeOK
<1>7. ASSUME NEW link \in Links, NEW m \in Msgs, Resend(link[1], link[2], m) PROVE TypeOK'
  <2>1. resent' \subseteq Links \X Msgs
    BY <1>7, ResendMoves DEF TypeOK
  <2> QED
    BY <1>7, <2>1, ResendMoves DEF TypeOK
<1>8. CASE UNCHANGED vars
  BY <1>8 DEF vars, TypeOK
<1> QED
  BY <1>1, <1>2, <1>3, <1>4, <1>5, <1>6, <1>7, <1>8 DEF Next

-----------------------------------------------------------------------------
(* What is about was published.                                            *)

LEMMA AppendParts ==
  ASSUME NEW S, NEW q \in Seq(S), NEW x \in S
  PROVE  /\ Len(q) \in Nat /\ Len(Append(q, x)) = Len(q) + 1
         /\ Append(q, x)[Len(q) + 1] = x
         /\ \A i \in 1..Len(Append(q, x)) :
              i = Len(q) + 1 \/ (i \in 1..Len(q) /\ Append(q, x)[i] = q[i])
<1>1. /\ Len(q) \in Nat /\ Len(Append(q, x)) = Len(q) + 1
      /\ Append(q, x)[Len(q) + 1] = x
      /\ \A i \in 1..Len(q) : Append(q, x)[i] = q[i]
  BY AppendProperties, LenProperties
<1>2. \A i \in 1..Len(Append(q, x)) : i = Len(q) + 1 \/ i \in 1..Len(q)
  BY <1>1
<1> QED
  BY <1>1, <1>2

LEMMA TailParts ==
  ASSUME NEW S, NEW q \in Seq(S), q # <<>>
  PROVE  /\ Len(q) \in Nat \ {0} /\ Len(Tail(q)) = Len(q) - 1
         /\ Head(q) = q[1] /\ 1 \in 1..Len(q)
         /\ \A i \in 1..Len(Tail(q)) :
              Tail(q)[i] = q[i + 1] /\ i + 1 \in 1..Len(q) /\ 1 < i + 1
<1>1. /\ Len(q) \in Nat \ {0} /\ Len(Tail(q)) = Len(q) - 1 /\ Head(q) = q[1]
      /\ \A i \in 1..Len(Tail(q)) : Tail(q)[i] = q[i + 1]
  BY HeadTailProperties, EmptySeq
<1>2. 1 \in 1..Len(q) /\ \A i \in 1..Len(Tail(q)) : i + 1 \in 1..Len(q) /\ 1 < i + 1
  BY <1>1
<1> QED
  BY <1>1, <1>2

LEMMA MovesKnown ==
  ASSUME TypeOK, Known, NEW link \in Links, Moves(link, link[2], Head(wire[link]))
  PROVE  \A k \in Links : \A i \in 1..Len(wire'[k]) : wire'[k][i] \in Ids
<1> DEFINE m == Head(wire[link])
<1>1. m \in Ids \cap Msgs /\ \A k \in Links : wire[k] \in Seq(Msgs)
  BY HeadOfWire DEF Moves, TypeOK
<1>2. ASSUME NEW k \in Links, NEW i \in 1..Len(wire'[k]) PROVE wire'[k][i] \in Ids
  <2>1. CASE wire'[k] = wire[k]
    BY <2>1 DEF Known
  <2>2. CASE wire'[k] = Append(wire[k], m)
    BY <1>1, <2>2, AppendParts DEF Known
  <2>3. CASE wire'[k] = Tail(wire[k]) /\ wire[k] # <<>>
    BY <1>1, <2>3, TailParts DEF Known
  <2> QED
    BY <2>1, <2>2, <2>3 DEF Moves
<1> QED
  BY <1>2

LEMMA KnownStep == TypeOK /\ Known /\ [Next]_vars => Known'
<1> SUFFICES ASSUME TypeOK, Known, [Next]_vars PROVE Known'
  OBVIOUS
<1>1. CASE UNCHANGED <<origin, seen, wire, events, delivered>>
  BY <1>1 DEF Known, Ids
<1>2. ASSUME NEW n \in Nodes, NEW p \in Nodes, NEW a \in Addrs,
             Discovered(n, p, a) \/ Expired(n, p, a)
      PROVE  Known'
  BY <1>1, <1>2 DEF Discovered, Expired
<1>3. ASSUME NEW s \in Stations, Publish(s) PROVE Known'
  <2> DEFINE m == Len(origin) + 1
  <2>1. /\ m \in Msgs /\ Ids' = Ids \cup {m}
        /\ \A k \in Links : wire'[k] = wire[k] \/ wire'[k] = Append(wire[k], m)
        /\ \A n \in Nodes : seen'[n] = seen[n] \/ seen'[n] = seen[n] \cup {m}
        /\ UNCHANGED <<events, delivered>>
    BY <1>3, PublishMoves
  <2> HIDE DEF m
  <2>2. \A n \in Nodes : seen'[n] \subseteq Ids' /\ seen[n] \subseteq seen'[n]
    BY <2>1 DEF Known
  <2>3. ASSUME NEW k \in Links, NEW i \in 1..Len(wire'[k]) PROVE wire'[k][i] \in Ids'
    <3>1. CASE wire'[k] = wire[k]
      BY <2>1, <3>1 DEF Known
    <3>2. CASE wire'[k] = Append(wire[k], m)
      <4>1. wire[k] \in Seq(Msgs)
        BY DEF TypeOK
      <4> QED
        BY <2>1, <3>2, <4>1, AppendParts DEF Known
    <3> QED
      BY <2>1, <3>1, <3>2
  <2> QED
    BY <2>1, <2>2, <2>3 DEF Known, Nodes
<1>4. ASSUME NEW link \in Links, Receive(link[1], link[2]) PROVE Known'
  <2> DEFINE n == link[2]
             m == Head(wire[link])
  <2>1. /\ Moves(link, n, m) /\ UNCHANGED <<origin, delivered>>
        /\ \/ UNCHANGED <<seen, events>>
           \/ /\ seen' = [seen EXCEPT ![n] = @ \cup {m}]
              /\ events' = IF n \in Listeners
                           THEN [events EXCEPT ![n] = Append(@, <<link[1], m>>)] ELSE events
    BY <1>4, ReceiveMoves
  <2>2. m \in Ids \cap Msgs /\ n \in Nodes /\ link[1] \in Nodes /\ link[1] # n
    BY <2>1, HeadOfWire, LinkParts DEF Moves
  <2>3. \A k \in Links : \A i \in 1..Len(wire'[k]) : wire'[k][i] \in Ids'
    BY <2>1, MovesKnown DEF Ids
  <2> HIDE DEF n, m
  <2>4. CASE UNCHANGED <<seen, events>>
    BY <2>1, <2>3, <2>4 DEF Known, Ids
  <2>5. CASE /\ seen' = [seen EXCEPT ![n] = @ \cup {m}]
             /\ events' = IF n \in Listeners
                          THEN [events EXCEPT ![n] = Append(@, <<link[1], m>>)] ELSE events
    <3>1. \A x \in Nodes : seen'[x] \subseteq Ids /\ seen[x] \subseteq seen'[x]
      BY <2>2, <2>5 DEF Known, TypeOK
    <3>2. ASSUME NEW l \in Listeners, NEW i \in 1..Len(events'[l])
          PROVE  events'[l][i][1] # l /\ events'[l][i][2] \in seen'[l]
      <4>1. CASE events'[l] = events[l]
        BY <3>1, <4>1 DEF Known, Nodes
      <4>2. CASE l = n /\ events'[l] = Append(events[l], <<link[1], m>>)
        <5>1. events[l] \in Seq(Nodes \X Msgs) /\ <<link[1], m>> \in Nodes \X Msgs
          BY <2>2 DEF TypeOK
        <5>2. m \in seen'[l]
          BY <2>2, <2>5, <4>2 DEF TypeOK
        <5>3. events'[l][i] = <<link[1], m>> \/ (i \in 1..Len(events[l]) /\ events'[l][i] = events[l][i])
          BY <4>2, <5>1, AppendParts
        <5> QED
          BY <2>2, <3>1, <4>2, <5>2, <5>3 DEF Known, Nodes
      <4> QED
        BY <2>5, <4>1, <4>2 DEF TypeOK
    <3> QED
      BY <2>1, <2>3, <3>1, <3>2 DEF Known, Ids, Nodes
  <2> QED
    BY <2>1, <2>4, <2>5
<1>5. ASSUME NEW link \in Links, Lose(link[1], link[2]) PROVE Known'
  BY <1>5, LoseMoves, MovesKnown DEF Known, Ids
<1>6. ASSUME NEW l \in Listeners, HandleEvent(l) PROVE Known'
  <2> DEFINE e == Head(events[l])
  <2>1. /\ events[l] # <<>> /\ events' = [events EXCEPT ![l] = Tail(events[l])]
        /\ UNCHANGED <<origin, wire, seen>>
        /\ \/ delivered' = [delivered EXCEPT ![l] = Append(delivered[l], e[2])]
           \/ UNCHANGED delivered
    BY <1>6, HandleMoves
  <2>2. e \in Nodes \X Msgs /\ e[2] \in seen[l] /\ e[2] \in Msgs
    BY <2>1, HeadOfEvents DEF Known
  <2>3. ASSUME NEW x \in Listeners, NEW i \in 1..Len(events'[x])
        PROVE  events'[x][i][1] # x /\ events'[x][i][2] \in seen[x]
    <3>1. CASE x = l
      BY <2>1, <3>1, HeadOfEvents DEF TypeOK, Known
    <3>2. CASE x # l
      BY <2>1, <3>2 DEF TypeOK, Known
    <3> QED
      BY <3>1, <3>2
  <2> HIDE DEF e
  <2>4. ASSUME NEW x \in Listeners, NEW i \in 1..Len(delivered'[x])
        PROVE  delivered'[x][i] \in seen[x]
    <3>1. CASE delivered'[x] = delivered[x]
      BY <3>1 DEF Known
    <3>2. CASE x = l /\ delivered'[x] = Append(delivered[l], e[2])
      <4>1. delivered[l] \in Seq(Msgs)
        BY DEF TypeOK
      <4>2. delivered'[x][i] = e[2] \/ (i \in 1..Len(delivered[l]) /\ delivered'[x][i] = delivered[l][i])
        BY <2>2, <3>2, <4>1, AppendParts
      <4> QED
        BY <2>2, <3>2, <4>2 DEF Known
    <3> QED
      BY <2>1, <3>1, <3>2 DEF TypeOK
  <2> QED
    BY <2>1, <2>3, <2>4 DEF Known, Ids
<1>7. ASSUME NEW link \in Links, NEW m \in Msgs, Resend(link[1], link[2], m) PROVE Known'
  <2>1. ASSUME NEW k \in Links, NEW i \in 1..Len(wire'[k]) PROVE wire'[k][i] \in Ids
    <3>1. CASE wire'[k] = wire[k]
      BY <3>1 DEF Known
    <3>2. CASE wire'[k] = Append(wire[k], m)
      <4>1. m \in Ids /\ wire[k] \in Seq(Msgs)
        BY <1>7, ResendMoves DEF TypeOK
      <4> QED
        BY <3>2, <4>1, AppendParts DEF Known
    <3> QED
      BY <1>7, <3>1, <3>2, ResendMoves
  <2> QED
    BY <1>7, <2>1, ResendMoves DEF Known, Ids
<1>8. CASE UNCHANGED vars
  BY <1>1, <1>8 DEF vars
<1> QED
  BY <1>2, <1>3, <1>4, <1>5, <1>6, <1>7, <1>8 DEF Next

-----------------------------------------------------------------------------
(* A message becomes an event only when it was not in the duplicate cache, *)
(* and stays there.                                                        *)
LEMMA OnceAppend ==
  ASSUME NEW d, NEW e \in Seq(Nodes \X Msgs), NEW x \in Nodes \X Msgs, OnceIn(d, e),
         \A i \in 1..Len(d) : d[i] # x[2], \A i \in 1..Len(e) : e[i][2] # x[2]
  PROVE  OnceIn(d, Append(e, x))
<1>1. /\ Len(e) \in Nat /\ Len(Append(e, x)) = Len(e) + 1 /\ Append(e, x)[Len(e) + 1] = x
      /\ \A i \in 1..Len(Append(e, x)) :
           i = Len(e) + 1 \/ (i \in 1..Len(e) /\ Append(e, x)[i] = e[i])
  BY AppendParts
<1> QED
  BY <1>1 DEF OnceIn

LEMMA OnceTail ==
  ASSUME NEW d, NEW e \in Seq(Nodes \X Msgs), e # <<>>, OnceIn(d, e)
  PROVE  /\ OnceIn(d, Tail(e))
         /\ d \in Seq(Msgs) => OnceIn(Append(d, Head(e)[2]), Tail(e))
<1> DEFINE m == Head(e)[2]
<1>1. /\ Len(e) \in Nat \ {0} /\ Len(Tail(e)) = Len(e) - 1
      /\ Head(e) = e[1] /\ 1 \in 1..Len(e)
      /\ \A i \in 1..Len(Tail(e)) : Tail(e)[i] = e[i + 1] /\ i + 1 \in 1..Len(e) /\ 1 < i + 1
  BY TailParts
<1>2. m \in Msgs
  BY <1>1, ElementOfSeq
<1>3. ASSUME NEW i \in 1..Len(Tail(e)), NEW j \in 1..Len(Tail(e)), Tail(e)[i][2] = Tail(e)[j][2]
      PROVE  i = j
  <2>1. i + 1 = j + 1
    BY <1>1, <1>3 DEF OnceIn
  <2> QED
    BY <2>1
<1>4. \A i \in 1..Len(d), j \in 1..Len(Tail(e)) : d[i] # Tail(e)[j][2]
  BY <1>1 DEF OnceIn
<1>5. \A j \in 1..Len(Tail(e)) : Tail(e)[j][2] # m
  BY <1>1 DEF OnceIn
<1>6. \A i \in 1..Len(d) : d[i] # m
  BY <1>1 DEF OnceIn
<1> HIDE DEF m
<1>7. ASSUME d \in Seq(Msgs) PROVE OnceIn(Append(d, m), Tail(e))
  <2>1. /\ Len(d) \in Nat /\ Len(Append(d, m)) = Len(d) + 1 /\ Append(d, m)[Len(d) + 1] = m
        /\ \A i \in 1..Len(Append(d, m)) :
             i = Len(d) + 1 \/ (i \in 1..Len(d) /\ Append(d, m)[i] = d[i])
    BY <1>2, <1>7, AppendParts
  <2>2. \A i, j \in 1..Len(Append(d, m)) : Append(d, m)[i] = Append(d, m)[j] => i = j
    BY <1>6, <2>1 DEF OnceIn
  <2>3. \A i \in 1..Len(Append(d, m)), j \in 1..Len(Tail(e)) : Append(d, m)[i] # Tail(e)[j][2]
    BY <1>4, <1>5, <2>1
  <2> QED
    BY <1>3, <2>2, <2>3 DEF OnceIn
<1> QED
  BY <1>3, <1>4, <1>7 DEF OnceIn, m

LEMMA OnceStep == TypeOK /\ Known /\ Once /\ [Next]_vars => Once'
<1> SUFFICES ASSUME TypeOK, Known, Once, [Next]_vars PROVE Once'
  OBVIOUS
<1>1. CASE UNCHANGED <<events, delivered>>
  BY <1>1 DEF Once
<1>2. ASSUME NEW l \in Listeners, \A x \in Listeners \ {l} : UNCHANGED <<events[x], delivered[x]>>,
             OnceIn(delivered'[l], events'[l])
      PROVE  Once'
  BY <1>2 DEF Once
<1>3. ASSUME NEW link \in Links, Receive(link[1], link[2]) PROVE Once'
  <2> DEFINE n == link[2]
             m == Head(wire[link])
  <2>1. /\ Moves(link, n, m) /\ UNCHANGED delivered
        /\ \/ UNCHANGED events
           \/ /\ m \notin seen[n]
              /\ events' = IF n \in Listeners
                           THEN [events EXCEPT ![n] = Append(@, <<link[1], m>>)] ELSE events
    BY <1>3, ReceiveMoves
  <2>2. <<link[1], m>> \in Nodes \X Msgs
    BY <2>1, HeadOfWire, LinkParts DEF Moves
  <2> HIDE DEF n, m
  <2>3. ASSUME n \in Listeners, m \notin seen[n],
               events' = [events EXCEPT ![n] = Append(@, <<link[1], m>>)]
        PROVE  Once'
    <3>1. /\ events'[n] = Append(events[n], <<link[1], m>>)
          /\ \A l \in Listeners \ {n} : events'[l] = events[l]
          /\ events[n] \in Seq(Nodes \X Msgs)
      BY <2>3 DEF TypeOK
    <3>2. /\ \A i \in 1..Len(events[n]) : events[n][i][2] # m
          /\ \A i \in 1..Len(delivered[n]) : delivered[n][i] # m
      BY <2>3 DEF Known
    <3>3. OnceIn(delivered[n], events[n])
      BY <2>3 DEF Once
    <3>4. OnceIn(delivered[n], events'[n])
      BY <2>2, <3>1, <3>2, <3>3, OnceAppend
    <3> QED
      BY <1>2, <2>1, <2>3, <3>1, <3>4
  <2> QED
    BY <1>1, <2>1, <2>3
<1>4. ASSUME NEW l \in Listeners, HandleEvent(l) PROVE Once'
  <2> DEFINE e == Head(events[l])
  <2>1. /\ events[l] # <<>> /\ events' = [events EXCEPT ![l] = Tail(events[l])]
        /\ \/ delivered' = [delivered EXCEPT ![l] = Append(delivered[l], e[2])]
           \/ UNCHANGED delivered
    BY <1>4, HandleMoves
  <2>2. /\ OnceIn(delivered[l], Tail(events[l]))
        /\ OnceIn(Append(delivered[l], e[2]), Tail(events[l]))
    <3>1. /\ events[l] \in Seq(Nodes \X Msgs) /\ delivered[l] \in Seq(Msgs)
          /\ OnceIn(delivered[l], events[l])
      BY DEF TypeOK, Once
    <3> QED
      BY <2>1, <3>1, OnceTail
  <2>3. events'[l] = Tail(events[l]) /\ \A x \in Listeners \ {l} : events'[x] = events[x]
    BY <2>1 DEF TypeOK
  <2>4. /\ delivered'[l] \in {delivered[l], Append(delivered[l], e[2])}
        /\ \A x \in Listeners \ {l} : delivered'[x] = delivered[x]
    BY <2>1 DEF TypeOK
  <2> QED
    BY <1>2, <2>2, <2>3, <2>4
<1>5. ASSUME NEW link \in Links, Lose(link[1], link[2]) PROVE Once'
  BY <1>1, <1>5, LoseMoves
<1>6. ASSUME NEW n \in Nodes, NEW p \in Nodes, NEW a \in Addrs,
             Discovered(n, p, a) \/ Expired(n, p, a)
      PROVE  Once'
  BY <1>1, <1>6 DEF Discovered, Expired
<1>7. CASE \/ UNCHANGED vars
           \/ \E s \in Stations : Publish(s)
           \/ \E link \in Links, m \in Msgs : Resend(link[1], link[2], m)
  BY <1>1, <1>7 DEF vars, Publish, Resend
<1> QED
  BY <1>3, <1>4, <1>5, <1>6, <1>7 DEF Next

-----------------------------------------------------------------------------
(* Order.                                                                  *)

LEMMA RisingAppend ==
  ASSUME NEW q \in Seq(Nat), NEW x \in Nat, NEW own, NEW turn, Rising(q, own, turn),
         x \in turn => \A i \in 1..Len(q) : q[i] \in own => q[i] < x
  PROVE  Rising(Append(q, x), own, turn)
<1> DEFINE p == Append(q, x)
<1>1. /\ Len(q) \in Nat /\ Len(p) = Len(q) + 1 /\ p[Len(q) + 1] = x
      /\ \A i \in 1..Len(p) : i = Len(q) + 1 \/ (i \in 1..Len(q) /\ p[i] = q[i])
  BY AppendParts
<1> HIDE DEF p
<1> SUFFICES ASSUME NEW i \in 1..Len(p), NEW j \in 1..Len(p), i < j, p[i] \in own, p[j] \in turn
             PROVE  p[i] < p[j]
  BY DEF Rising, p
<1>2. i \in 1..Len(q) /\ p[i] = q[i]
  BY <1>1
<1>3. CASE j = Len(q) + 1
  BY <1>1, <1>2, <1>3
<1>4. CASE j \in 1..Len(q) /\ p[j] = q[j]
  BY <1>2, <1>4 DEF Rising
<1> QED
  BY <1>1, <1>3, <1>4

LEMMA RisingTail ==
  ASSUME NEW q \in Seq(Nat), q # <<>>, NEW own, NEW turn, Rising(q, own, turn)
  PROVE  /\ Rising(Tail(q), own, turn)
         /\ Head(q) \in own =>
              \A i \in 1..Len(Tail(q)) : Tail(q)[i] \in turn => Head(q) < Tail(q)[i]
<1> DEFINE p == Tail(q)
<1>1. /\ Len(q) \in Nat \ {0} /\ Len(p) = Len(q) - 1 /\ Head(q) = q[1] /\ 1 \in 1..Len(q)
      /\ \A i \in 1..Len(p) : p[i] = q[i + 1] /\ i + 1 \in 1..Len(q) /\ 1 < i + 1
  BY TailParts
<1> HIDE DEF p
<1>2. ASSUME NEW i \in 1..Len(p), NEW j \in 1..Len(p), i < j, p[i] \in own, p[j] \in turn
      PROVE  p[i] < p[j]
  <2>1. /\ p[i] = q[i + 1] /\ i + 1 \in 1..Len(q) /\ p[j] = q[j + 1] /\ j + 1 \in 1..Len(q)
    BY <1>1
  <2>2. i + 1 < j + 1
    BY <1>1, <1>2
  <2> QED
    BY <1>2, <2>1, <2>2 DEF Rising
<1>3. ASSUME NEW i \in 1..Len(p), Head(q) \in own, p[i] \in turn PROVE Head(q) < p[i]
  <2>1. p[i] = q[i + 1] /\ i + 1 \in 1..Len(q) /\ 1 < i + 1 /\ Head(q) = q[1] /\ 1 \in 1..Len(q)
    BY <1>1
  <2> QED
    BY <1>3, <2>1 DEF Rising
<1> QED
  BY <1>2, <1>3 DEF Rising, p

LEMMA BeforeAppend ==
  ASSUME NEW q \in Seq(Nat), NEW r \in Seq(Nat), NEW x \in Nat, NEW own, NEW turn,
         Before(q, r, own, turn)
  PROVE  /\ (x \in own => \A j \in 1..Len(r) : r[j] \in turn => x < r[j])
              => Before(Append(q, x), r, own, turn)
         /\ (x \in turn => \A i \in 1..Len(q) : q[i] \in own => q[i] < x)
              => Before(q, Append(r, x), own, turn)
<1>1. \A i \in 1..Len(Append(q, x)) :
        Append(q, x)[i] = x \/ (i \in 1..Len(q) /\ Append(q, x)[i] = q[i])
  BY AppendParts
<1>2. \A i \in 1..Len(Append(r, x)) :
        Append(r, x)[i] = x \/ (i \in 1..Len(r) /\ Append(r, x)[i] = r[i])
  BY AppendParts
<1> QED
  BY <1>1, <1>2 DEF Before

LEMMA BeforeTail ==
  ASSUME NEW q \in Seq(Nat), NEW r \in Seq(Nat), NEW own, NEW turn, Before(q, r, own, turn)
  PROVE  /\ q # <<>> => /\ Before(Tail(q), r, own, turn)
                        /\ Head(q) \in own => \A j \in 1..Len(r) : r[j] \in turn => Head(q) < r[j]
         /\ r # <<>> => /\ Before(q, Tail(r), own, turn)
                        /\ Head(r) \in turn => \A i \in 1..Len(q) : q[i] \in own => q[i] < Head(r)
<1>1. ASSUME q # <<>>
      PROVE  /\ Before(Tail(q), r, own, turn)
             /\ Head(q) \in own => \A j \in 1..Len(r) : r[j] \in turn => Head(q) < r[j]
  <2>1. /\ Head(q) = q[1] /\ 1 \in 1..Len(q)
        /\ \A i \in 1..Len(Tail(q)) : Tail(q)[i] = q[i + 1] /\ i + 1 \in 1..Len(q)
    BY <1>1, TailParts
  <2>2. Before(Tail(q), r, own, turn)
    <3> SUFFICES ASSUME NEW i \in 1..Len(Tail(q)), NEW j \in 1..Len(r),
                        Tail(q)[i] \in own, r[j] \in turn
                 PROVE  Tail(q)[i] < r[j]
      BY Zenon DEF Before
    <3>1. Tail(q)[i] = q[i + 1] /\ i + 1 \in 1..Len(q)
      BY <2>1
    <3> QED
      BY <3>1, Zenon DEF Before
  <2>3. Head(q) \in own => \A j \in 1..Len(r) : r[j] \in turn => Head(q) < r[j]
    <3>1. \A j \in 1..Len(r) : q[1] \in own /\ r[j] \in turn => q[1] < r[j]
      BY <2>1 DEF Before
    <3> QED
      BY <2>1, <3>1
  <2> QED
    BY <2>2, <2>3
<1>2. ASSUME r # <<>>
      PROVE  /\ Before(q, Tail(r), own, turn)
             /\ Head(r) \in turn => \A i \in 1..Len(q) : q[i] \in own => q[i] < Head(r)
  <2>1. /\ Head(r) = r[1] /\ 1 \in 1..Len(r)
        /\ \A i \in 1..Len(Tail(r)) : Tail(r)[i] = r[i + 1] /\ i + 1 \in 1..Len(r)
    BY <1>2, TailParts
  <2>2. Before(q, Tail(r), own, turn)
    <3> SUFFICES ASSUME NEW i \in 1..Len(q), NEW j \in 1..Len(Tail(r)),
                        q[i] \in own, Tail(r)[j] \in turn
                 PROVE  q[i] < Tail(r)[j]
      BY Zenon DEF Before
    <3>1. Tail(r)[j] = r[j + 1] /\ j + 1 \in 1..Len(r)
      BY <2>1
    <3> QED
      BY <3>1, Zenon DEF Before
  <2>3. Head(r) \in turn => \A i \in 1..Len(q) : q[i] \in own => q[i] < Head(r)
    <3>1. \A i \in 1..Len(q) : q[i] \in own /\ r[1] \in turn => q[i] < r[1]
      BY <2>1 DEF Before
    <3> QED
      BY <2>1, <3>1
  <2> QED
    BY <2>2, <2>3
<1> QED
  BY <1>1, <1>2

(* The way of a listener's own messages: what each step does to it.        *)

LEMMA WayAppend ==
  ASSUME NEW d \in Seq(Nat), NEW e \in Seq(Nat), NEW w \in Seq(Nat), NEW own, NEW turn,
         InOrder(d, e, w, own, turn), NEW x \in Nat,
         x \in turn => /\ \A i \in 1..Len(d) : d[i] \in own => d[i] < x
                       /\ \A i \in 1..Len(e) : e[i] \in own => e[i] < x
                       /\ \A i \in 1..Len(w) : w[i] \in own => w[i] < x
  PROVE  InOrder(d, e, Append(w, x), own, turn)
BY RisingAppend, BeforeAppend DEF InOrder

LEMMA WayTail ==
  ASSUME NEW d \in Seq(Nat), NEW e \in Seq(Nat), NEW w \in Seq(Nat), NEW own, NEW turn,
         InOrder(d, e, w, own, turn), w # <<>>
  PROVE  /\ InOrder(d, e, Tail(w), own, turn)
         /\ InOrder(d, Append(e, Head(w)), Tail(w), own, turn)
<1>1. Tail(w) \in Seq(Nat) /\ Head(w) \in Nat
  BY HeadTailProperties
<1>2. /\ Rising(Tail(w), own, turn) /\ Before(d, Tail(w), own, turn)
      /\ Before(e, Tail(w), own, turn)
      /\ Head(w) \in own => \A i \in 1..Len(Tail(w)) : Tail(w)[i] \in turn => Head(w) < Tail(w)[i]
      /\ Head(w) \in turn =>
           /\ \A i \in 1..Len(d) : d[i] \in own => d[i] < Head(w)
           /\ \A i \in 1..Len(e) : e[i] \in own => e[i] < Head(w)
  BY RisingTail, BeforeTail DEF InOrder
<1>3. /\ Rising(Append(e, Head(w)), own, turn) /\ Before(d, Append(e, Head(w)), own, turn)
      /\ Before(Append(e, Head(w)), Tail(w), own, turn)
  <2>1. Rising(e, own, turn) /\ Before(d, e, own, turn)
    BY DEF InOrder
  <2>2. Rising(Append(e, Head(w)), own, turn)
    BY <1>1, <1>2, <2>1, RisingAppend
  <2>3. Before(d, Append(e, Head(w)), own, turn)
    BY <1>1, <1>2, <2>1, BeforeAppend
  <2>4. Before(Append(e, Head(w)), Tail(w), own, turn)
    BY <1>1, <1>2, BeforeAppend
  <2> QED
    BY <2>2, <2>3, <2>4
<1> QED
  BY <1>2, <1>3 DEF InOrder

LEMMA WayOther ==
  ASSUME NEW d \in Seq(Nat), NEW e \in Seq(Nat), NEW w \in Seq(Nat), NEW own, NEW turn,
         InOrder(d, e, w, own, turn), 0 \notin own \cup turn
  PROVE  InOrder(d, Append(e, 0), w, own, turn)
BY RisingAppend, BeforeAppend DEF InOrder

LEMMA WayHandled ==
  ASSUME NEW d \in Seq(Nat), NEW e \in Seq(Nat), NEW w \in Seq(Nat), NEW own, NEW turn,
         InOrder(d, e, w, own, turn), e # <<>>
  PROVE  /\ InOrder(d, Tail(e), w, own, turn)
         /\ InOrder(Append(d, Head(e)), Tail(e), w, own, turn)
<1>1. Tail(e) \in Seq(Nat) /\ Head(e) \in Nat
  BY HeadTailProperties
<1>2. /\ Rising(Tail(e), own, turn) /\ Before(d, Tail(e), own, turn)
      /\ Before(Tail(e), w, own, turn)
      /\ Head(e) \in turn => \A i \in 1..Len(d) : d[i] \in own => d[i] < Head(e)
      /\ Head(e) \in own =>
           /\ \A i \in 1..Len(Tail(e)) : Tail(e)[i] \in turn => Head(e) < Tail(e)[i]
           /\ \A i \in 1..Len(w) : w[i] \in turn => Head(e) < w[i]
  BY RisingTail, BeforeTail DEF InOrder
<1>3. /\ Rising(Append(d, Head(e)), own, turn) /\ Before(Append(d, Head(e)), Tail(e), own, turn)
      /\ Before(Append(d, Head(e)), w, own, turn)
  <2>1. Rising(d, own, turn) /\ Before(d, w, own, turn)
    BY DEF InOrder
  <2>2. Rising(Append(d, Head(e)), own, turn)
    BY <1>1, <1>2, <2>1, RisingAppend
  <2>3. Before(Append(d, Head(e)), Tail(e), own, turn)
    BY <1>1, <1>2, BeforeAppend
  <2>4. Before(Append(d, Head(e)), w, own, turn)
    BY <1>1, <1>2, <2>1, BeforeAppend
  <2> QED
    BY <2>2, <2>3, <2>4
<1> QED
  BY <1>2, <1>3 DEF InOrder

LEMMA WayPublished ==
  ASSUME NEW d, NEW e, NEW w, NEW own, NEW turn, NEW more, NEW next, InOrder(d, e, w, own, turn),
         \A i \in 1..Len(d) : (d[i] \in more => d[i] \in own) /\ (d[i] \in next => d[i] \in turn),
         \A i \in 1..Len(e) : (e[i] \in more => e[i] \in own) /\ (e[i] \in next => e[i] \in turn),
         \A i \in 1..Len(w) : (w[i] \in more => w[i] \in own) /\ (w[i] \in next => w[i] \in turn)
  PROVE  InOrder(d, e, w, more, next)
BY DEF InOrder, Rising, Before

LEMMA FromStationParts ==
  ASSUME NEW es \in Seq(Nodes \X Msgs), NEW c
  PROVE  /\ FromStation(es, c) \in Seq(Nat)
         /\ \A x \in Nodes \X Msgs :
              FromStation(Append(es, x), c) = Append(FromStation(es, c), IF x[1] = c THEN x[2] ELSE 0)
         /\ es # <<>> =>
              /\ FromStation(es, c) # <<>>
              /\ FromStation(Tail(es), c) = Tail(FromStation(es, c))
              /\ Head(FromStation(es, c)) = IF Head(es)[1] = c THEN Head(es)[2] ELSE 0
<1>1. ASSUME NEW s \in Seq(Nodes \X Msgs)
      PROVE  /\ FromStation(s, c) \in Seq(Nat) /\ Len(FromStation(s, c)) = Len(s)
             /\ \A i \in 1..Len(s) : FromStation(s, c)[i] = IF s[i][1] = c THEN s[i][2] ELSE 0
  <2>1. Len(s) \in Nat /\ \A i \in 1..Len(s) : s[i][2] \in Nat
    <3>1. \A i \in 1..Len(s) : s[i] \in Nodes \X Msgs
      BY ElementOfSeq
    <3>2. \A x \in Nodes \X Msgs : x[2] \in Nat
      BY DEF Msgs
    <3> QED
      BY <3>1, <3>2, LenProperties
  <2>2. FromStation(s, c) \in [1..Len(s) -> Nat]
    BY <2>1 DEF FromStation
  <2>3. FromStation(s, c) \in Seq(Nat)
    <3>1. \A n \in Nat : [1..n -> Nat] \subseteq Seq(Nat)
      BY SeqDef
    <3> QED
      BY <2>1, <2>2, <3>1, Zenon
  <2>4. Len(FromStation(s, c)) = Len(s)
    BY <2>1, <2>2, <2>3, LenProperties
  <2> QED
    BY <2>3, <2>4 DEF FromStation
<1>2. ASSUME NEW x \in Nodes \X Msgs
      PROVE  FromStation(Append(es, x), c) =
               Append(FromStation(es, c), IF x[1] = c THEN x[2] ELSE 0)
  <2> DEFINE y == IF x[1] = c THEN x[2] ELSE 0
             p == Append(es, x)
             f == FromStation(es, c)
  <2>1. y \in Nat /\ p \in Seq(Nodes \X Msgs)
    BY AppendProperties DEF Msgs
  <2>2. /\ Len(es) \in Nat /\ Len(p) = Len(es) + 1 /\ p[Len(es) + 1] = x
        /\ \A i \in 1..Len(p) : i = Len(es) + 1 \/ (i \in 1..Len(es) /\ p[i] = es[i])
    BY AppendParts
  <2>3. /\ f \in Seq(Nat) /\ Len(f) = Len(es)
        /\ \A i \in 1..Len(es) : f[i] = IF es[i][1] = c THEN es[i][2] ELSE 0
    BY <1>1
  <2>4. /\ FromStation(p, c) \in Seq(Nat) /\ Len(FromStation(p, c)) = Len(p)
        /\ \A i \in 1..Len(p) : FromStation(p, c)[i] = IF p[i][1] = c THEN p[i][2] ELSE 0
    BY <1>1, <2>1
  <2>5. /\ Append(f, y) \in Seq(Nat) /\ Len(Append(f, y)) = Len(f) + 1
        /\ Append(f, y)[Len(f) + 1] = y
        /\ \A i \in 1..Len(f) : Append(f, y)[i] = f[i]
    BY <2>1, <2>3, AppendProperties
  <2>6. \A i \in 1..Len(p) : FromStation(p, c)[i] = Append(f, y)[i]
    BY <2>2, <2>3, <2>4, <2>5
  <2>7. Len(FromStation(p, c)) = Len(Append(f, y))
    BY <2>2, <2>3, <2>4, <2>5
  <2> HIDE DEF y, p, f
  <2>8. FromStation(p, c) = Append(f, y)
    BY <2>4, <2>5, <2>6, <2>7, SeqEqual
  <2> QED
    BY <2>8 DEF y, p, f
<1>3. ASSUME es # <<>>
      PROVE  /\ FromStation(es, c) # <<>>
             /\ FromStation(Tail(es), c) = Tail(FromStation(es, c))
             /\ Head(FromStation(es, c)) = IF Head(es)[1] = c THEN Head(es)[2] ELSE 0
  <2> DEFINE f == FromStation(es, c)
             p == Tail(es)
  <2>1. /\ Len(es) \in Nat \ {0} /\ Len(p) = Len(es) - 1 /\ Head(es) = es[1] /\ 1 \in 1..Len(es)
        /\ \A i \in 1..Len(p) : p[i] = es[i + 1] /\ i + 1 \in 1..Len(es)
        /\ p \in Seq(Nodes \X Msgs)
    BY <1>3, TailParts, HeadTailProperties
  <2>2. /\ f \in Seq(Nat) /\ Len(f) = Len(es)
        /\ \A i \in 1..Len(es) : f[i] = IF es[i][1] = c THEN es[i][2] ELSE 0
    BY <1>1
  <2>3. f # <<>>
    BY <2>1, <2>2, EmptySeq
  <2>4. /\ FromStation(p, c) \in Seq(Nat) /\ Len(FromStation(p, c)) = Len(p)
        /\ \A i \in 1..Len(p) : FromStation(p, c)[i] = IF p[i][1] = c THEN p[i][2] ELSE 0
    BY <1>1, <2>1
  <2>5. /\ Tail(f) \in Seq(Nat) /\ Len(Tail(f)) = Len(f) - 1 /\ Head(f) = f[1]
        /\ \A i \in 1..Len(Tail(f)) : Tail(f)[i] = f[i + 1]
    BY <2>2, <2>3, TailParts, HeadTailProperties
  <2> HIDE DEF f, p
  <2>6. Len(FromStation(p, c)) = Len(Tail(f))
    BY <2>1, <2>2, <2>4, <2>5
  <2>7. ASSUME NEW i \in 1..Len(p) PROVE FromStation(p, c)[i] = Tail(f)[i]
    <3>1. i + 1 \in 1..Len(es) /\ i \in 1..Len(Tail(f))
      BY <2>1, <2>2, <2>5
    <3>2. Tail(f)[i] = f[i + 1] /\ p[i] = es[i + 1]
      BY <2>1, <2>5, <3>1
    <3> QED
      BY <2>2, <2>4, <3>1, <3>2
  <2>8. Head(f) = IF Head(es)[1] = c THEN Head(es)[2] ELSE 0
    BY <2>1, <2>2, <2>5
  <2>9. FromStation(p, c) = Tail(f)
    <3>1. \A i \in 1..Len(FromStation(p, c)) : FromStation(p, c)[i] = Tail(f)[i]
      BY <2>4, <2>7, Zenon
    <3> QED
      BY <2>4, <2>5, <2>6, <3>1, SeqEqual, Zenon
  <2> QED
    BY <2>3, <2>8, <2>9 DEF f, p
<1> QED
  BY <1>1, <1>2, <1>3

LEMMA WayTypes ==
  ASSUME TypeOK, Known, NEW l \in Listeners
  PROVE  /\ delivered[l] \in Seq(Nat) /\ wire[<<Chosen[l], l>>] \in Seq(Nat)
         /\ events[l] \in Seq(Nodes \X Msgs) /\ FromStation(events[l], Chosen[l]) \in Seq(Nat)
         /\ \A i \in 1..Len(delivered[l]) : delivered[l][i] \in Ids
         /\ \A i \in 1..Len(wire[<<Chosen[l], l>>]) : wire[<<Chosen[l], l>>][i] \in Ids
         /\ \A i \in 1..Len(FromStation(events[l], Chosen[l])) :
              FromStation(events[l], Chosen[l])[i] \in Ids \cup {0}
<1>1. Seq(Msgs) \subseteq Seq(Nat)
  <2>1. Msgs \subseteq Nat
    BY DEF Msgs
  <2> QED
    BY <2>1, SeqMonotonic
<1>2. /\ delivered[l] \in Seq(Msgs) /\ wire[<<Chosen[l], l>>] \in Seq(Msgs)
      /\ events[l] \in Seq(Nodes \X Msgs)
  BY LinkParts DEF TypeOK
<1>3. FromStation(events[l], Chosen[l]) \in Seq(Nat)
  BY <1>2, FromStationParts
<1>4. ASSUME NEW i \in 1..Len(FromStation(events[l], Chosen[l]))
      PROVE  FromStation(events[l], Chosen[l])[i] \in Ids \cup {0}
  <2>1. i \in 1..Len(events[l])
    <3>1. DOMAIN FromStation(events[l], Chosen[l]) = 1..Len(events[l])
      BY DEF FromStation
    <3>2. DOMAIN FromStation(events[l], Chosen[l]) = 1..Len(FromStation(events[l], Chosen[l]))
      BY <1>3, LenProperties
    <3> QED
      BY <3>1, <3>2
  <2>2. events[l][i][2] \in Ids
    BY <2>1 DEF Known, Nodes
  <2> QED
    BY <2>1, <2>2 DEF FromStation
<1>5. /\ \A i \in 1..Len(delivered[l]) : delivered[l][i] \in Ids
      /\ \A i \in 1..Len(wire[<<Chosen[l], l>>]) : wire[<<Chosen[l], l>>][i] \in Ids
  BY LinkParts DEF Known, Nodes
<1> QED
  BY <1>1, <1>2, <1>3, <1>4, <1>5

LEMMA OneWayPublish ==
  ASSUME TypeOK, Known, OneWay, NEW s \in Stations, Publish(s)
  PROVE  OneWay'
<1> SUFFICES ASSUME NEW l \in Listeners
             PROVE  InOrder(delivered'[l], FromStation(events'[l], Chosen[l]),
                            wire'[<<Chosen[l], l>>], Own(l)', Turn(l)')
  BY DEF OneWay
<1> DEFINE m == Len(origin) + 1
           d == delivered[l]
           e == FromStation(events[l], Chosen[l])
           w == wire[<<Chosen[l], l>>]
<1>1. /\ Ids' = Ids \cup {m} /\ m \notin Ids /\ \A i \in Ids : i < m
      /\ \A i \in Ids : origin'[i] = origin[i]
      /\ wire'[<<Chosen[l], l>>] \in {w, Append(w, m)} /\ m \in Nat \ {0}
      /\ UNCHANGED <<resent, events, delivered>>
  <2>1. /\ Ids' = Ids \cup {m} /\ m \notin Ids /\ \A i \in Ids : i < m
        /\ \A i \in Ids : origin'[i] = origin[i]
        /\ \A k \in Links : wire'[k] = wire[k] \/ wire'[k] = Append(wire[k], m)
        /\ m \in Msgs /\ UNCHANGED <<resent, events, delivered>>
    BY PublishMoves
  <2>2. <<Chosen[l], l>> \in Links
    BY LinkParts
  <2>3. m \in Nat \ {0}
    BY <2>1 DEF Msgs
  <2>4. wire'[<<Chosen[l], l>>] \in {w, Append(w, m)}
    <3> HIDE DEF m
    <3> QED
      BY <2>1, <2>2
  <2> QED
    BY <2>1, <2>3, <2>4
<1>2. /\ d \in Seq(Nat) /\ e \in Seq(Nat) /\ w \in Seq(Nat)
      /\ \A i \in 1..Len(d) : d[i] \in Ids
      /\ \A i \in 1..Len(w) : w[i] \in Ids
      /\ \A i \in 1..Len(e) : e[i] \in Ids \cup {0}
  BY WayTypes
<1>3. InOrder(d, e, w, Own(l), Turn(l))
  BY DEF OneWay
<1>4. 0 \notin Ids
  BY DEF Ids
<1>5. /\ Own(l)' \subseteq Own(l) \cup {m} /\ Turn(l)' \subseteq Turn(l) \cup {m}
      /\ Own(l) \subseteq Ids /\ Turn(l)' \subseteq Own(l)'
  <2>1. Own(l)' \subseteq Own(l) \cup {m} /\ Own(l) \subseteq Ids
    BY <1>1 DEF Own
  <2>2. Late(l)' = Late(l)
    BY <1>1 DEF Late
  <2> QED
    BY <2>1, <2>2 DEF Turn
<1> HIDE DEF m, d, e, w
<1>6. InOrder(d, e, w, Own(l)', Turn(l)')
  <2>1. /\ \A i \in 1..Len(d) : d[i] # m
        /\ \A i \in 1..Len(w) : w[i] # m
        /\ \A i \in 1..Len(e) : e[i] # m
    BY <1>1, <1>2
  <2> QED
    BY <1>3, <1>5, <2>1, WayPublished
<1>7. InOrder(d, e, Append(w, m), Own(l)', Turn(l)')
  <2>1. /\ \A i \in 1..Len(d) : d[i] < m
        /\ \A i \in 1..Len(w) : w[i] < m
        /\ \A i \in 1..Len(e) : e[i] \in Own(l)' => e[i] < m
    BY <1>1, <1>2, <1>4, <1>5
  <2> QED
    BY <1>1, <1>2, <1>6, <2>1, WayAppend
<1> QED
  BY <1>1, <1>6, <1>7 DEF d, e

LEMMA OneWayMoves ==
  ASSUME TypeOK, Known, OneWay, NEW link \in Links, NEW l \in Listeners,
         Moves(link, link[2], Head(wire[link])), UNCHANGED <<origin, resent, delivered>>
  PROVE  /\ InOrder(delivered[l], FromStation(events[l], Chosen[l]),
                    wire'[<<Chosen[l], l>>], Own(l)', Turn(l)')
         /\ link[2] = l =>
              InOrder(delivered[l],
                      FromStation(Append(events[l], <<link[1], Head(wire[link])>>), Chosen[l]),
                      wire'[<<Chosen[l], l>>], Own(l)', Turn(l)')
<1> DEFINE m == Head(wire[link])
           k == <<Chosen[l], l>>
           d == delivered[l]
           e == FromStation(events[l], Chosen[l])
           own == Own(l)
           turn == Turn(l)
           x == IF link[1] = Chosen[l] THEN m ELSE 0
<1>1. /\ d \in Seq(Nat) /\ e \in Seq(Nat) /\ wire[k] \in Seq(Nat) /\ InOrder(d, e, wire[k], own, turn)
  BY WayTypes DEF OneWay
<1>2. /\ k \in Links /\ k[1] = Chosen[l] /\ k[2] = l /\ link = <<link[1], link[2]>>
      /\ m \in Ids \cap Msgs /\ link[1] \in Nodes
  BY LinkParts, HeadOfWire DEF Moves
<1>3. Own(l)' = own /\ Turn(l)' = turn /\ turn \subseteq own /\ 0 \notin own \cup turn
  BY DEF Turn, Late, Own, Ids
<1>4. FromStation(Append(events[l], <<link[1], m>>), Chosen[l]) = Append(e, x)
  <2>1. <<link[1], m>> \in Nodes \X Msgs
    BY <1>2
  <2>2. \A y \in Nodes \X Msgs :
          FromStation(Append(events[l], y), Chosen[l]) =
            Append(e, IF y[1] = Chosen[l] THEN y[2] ELSE 0)
    <3>1. events[l] \in Seq(Nodes \X Msgs)
      BY DEF TypeOK
    <3> QED
      BY <3>1, FromStationParts
  <2>3. <<link[1], m>>[1] = link[1] /\ <<link[1], m>>[2] = m
    OBVIOUS
  <2> HIDE DEF m, e
  <2> QED
    BY <2>1, <2>2, <2>3
<1>5. CASE link = k
  <2>1. wire'[k] = Tail(wire[k]) /\ wire[k] # <<>> /\ m = Head(wire[k])
    BY <1>5 DEF Moves
  <2>2. x = m
    BY <1>2, <1>5
  <2> HIDE DEF m, k, d, e, own, turn, x
  <2>3. /\ InOrder(d, e, Tail(wire[k]), own, turn)
        /\ InOrder(d, Append(e, m), Tail(wire[k]), own, turn)
    BY <1>1, <2>1, WayTail
  <2>4. /\ InOrder(d, e, wire'[k], Own(l)', Turn(l)')
        /\ InOrder(d, Append(e, x), wire'[k], Own(l)', Turn(l)')
    BY <1>3, <2>1, <2>2, <2>3
  <2> QED
    BY <1>4, <2>4 DEF m, k, d, e, own, turn, x
<1>6. CASE link # k
  <2>1. /\ wire'[k] = wire[k] \/ (origin[m] # Chosen[l] /\ wire'[k] = Append(wire[k], m))
        /\ wire'[k] \in Seq(Nat)
    <3>1. Msgs \subseteq Nat
      BY DEF Msgs
    <3>2. wire'[k] \in Seq(Msgs)
      BY <1>2 DEF Moves
    <3>3. wire'[k] \in Seq(Nat)
      BY <3>1, <3>2, SeqMonotonic
    <3> QED
      BY <1>2, <1>6, <3>3 DEF Moves
  <2>2. m \in Nat /\ (origin[m] # Chosen[l] => m \notin turn)
    BY <1>2 DEF Turn, Own, Msgs
  <2>3. link[2] = l => x = 0
    BY <1>2, <1>6
  <2> HIDE DEF m, k, d, e, own, turn, x
  <2>4. InOrder(d, e, wire'[k], own, turn)
    BY <1>1, <2>1, <2>2, WayAppend
  <2>5. InOrder(d, Append(e, 0), wire'[k], own, turn)
    BY <1>1, <1>3, <2>1, <2>4, WayOther
  <2>6. /\ InOrder(d, e, wire'[k], Own(l)', Turn(l)')
        /\ link[2] = l => InOrder(d, Append(e, x), wire'[k], Own(l)', Turn(l)')
    BY <1>3, <2>3, <2>4, <2>5
  <2> QED
    BY <1>4, <2>6 DEF m, k, d, e, own, turn, x
<1> QED
  BY <1>5, <1>6

LEMMA OneWayResend ==
  ASSUME TypeOK, Known, OneWay, NEW link \in Links, NEW m \in Msgs, Resend(link[1], link[2], m)
  PROVE  OneWay'
<1> SUFFICES ASSUME NEW l \in Listeners
             PROVE  InOrder(delivered'[l], FromStation(events'[l], Chosen[l]),
                            wire'[<<Chosen[l], l>>], Own(l)', Turn(l)')
  BY DEF OneWay
<1> DEFINE d == delivered[l]
           e == FromStation(events[l], Chosen[l])
           w == wire[<<Chosen[l], l>>]
<1>1. /\ resent' = resent \cup {<<link, m>>} /\ UNCHANGED <<origin, events, delivered>>
      /\ \/ wire'[<<Chosen[l], l>>] = w
         \/ link = <<Chosen[l], l>> /\ wire'[<<Chosen[l], l>>] = Append(w, m)
  BY LinkParts, ResendMoves
<1>2. /\ d \in Seq(Nat) /\ e \in Seq(Nat) /\ w \in Seq(Nat) /\ m \in Nat
      /\ InOrder(d, e, w, Own(l), Turn(l))
  BY WayTypes DEF OneWay, Msgs
<1>3. Own(l)' = Own(l) /\ Turn(l)' \subseteq Turn(l)
  BY <1>1 DEF Turn, Late, Own, Ids
<1>4. link = <<Chosen[l], l>> => m \notin Turn(l)'
  BY <1>1 DEF Turn, Late
<1> HIDE DEF d, e, w
<1>5. InOrder(d, e, w, Own(l)', Turn(l)')
  <2>1. PICK own, turn : own = Own(l)' /\ turn = Turn(l)'
    OBVIOUS
  <2>2. (\A n : n \in own => n \in Own(l)) /\ (\A n : n \in turn => n \in Turn(l))
    BY <1>3, <2>1
  <2>3. InOrder(d, e, w, own, turn)
    BY <1>2, <2>2, WayPublished, Zenon
  <2> QED
    BY <2>1, <2>3
<1>6. InOrder(d, e, wire'[<<Chosen[l], l>>], Own(l)', Turn(l)')
  BY <1>1, <1>2, <1>4, <1>5, WayAppend
<1> QED
  BY <1>1, <1>6 DEF d, e

LEMMA OneWayStep == TypeOK /\ Known /\ OneWay /\ [Next]_vars => OneWay'
<1> SUFFICES ASSUME TypeOK, Known, OneWay, [Next]_vars PROVE OneWay'
  OBVIOUS
<1>1. CASE UNCHANGED <<origin, wire, resent, events, delivered>>
  BY <1>1 DEF OneWay, Turn, Late, Own, Ids
<1>2. ASSUME NEW link \in Links, Receive(link[1], link[2]) PROVE OneWay'
  <2> SUFFICES ASSUME NEW l \in Listeners
               PROVE  InOrder(delivered'[l], FromStation(events'[l], Chosen[l]),
                              wire'[<<Chosen[l], l>>], Own(l)', Turn(l)')
    BY DEF OneWay
  <2> DEFINE n == link[2]
             m == Head(wire[link])
  <2>1. /\ Moves(link, n, m) /\ UNCHANGED <<origin, resent, delivered>>
        /\ \/ UNCHANGED events
           \/ events' = IF n \in Listeners
                        THEN [events EXCEPT ![n] = Append(@, <<link[1], m>>)] ELSE events
    BY <1>2, ReceiveMoves
  <2>2. events'[l] = events[l] \/ (n = l /\ events'[l] = Append(events[l], <<link[1], m>>))
    BY <2>1 DEF TypeOK
  <2> QED
    BY <2>1, <2>2, OneWayMoves
<1>3. ASSUME NEW link \in Links, Lose(link[1], link[2]) PROVE OneWay'
  BY <1>3, LoseMoves, OneWayMoves DEF OneWay
<1>4. ASSUME NEW l \in Listeners, HandleEvent(l) PROVE OneWay'
  <2> DEFINE q == Head(events[l])
             d == delivered[l]
             e == FromStation(events[l], Chosen[l])
             w == wire[<<Chosen[l], l>>]
  <2>1. /\ events[l] # <<>> /\ events' = [events EXCEPT ![l] = Tail(events[l])]
        /\ UNCHANGED <<origin, wire, resent>>
        /\ \/ /\ q[1] = Chosen[l]
              /\ delivered' = [delivered EXCEPT ![l] = Append(delivered[l], q[2])]
           \/ UNCHANGED delivered
    BY <1>4, HandleMoves
  <2>2. /\ d \in Seq(Nat) /\ e \in Seq(Nat) /\ w \in Seq(Nat) /\ InOrder(d, e, w, Own(l), Turn(l))
        /\ events[l] \in Seq(Nodes \X Msgs)
    BY WayTypes DEF OneWay
  <2>3. /\ e # <<>> /\ FromStation(Tail(events[l]), Chosen[l]) = Tail(e)
        /\ Head(e) = IF q[1] = Chosen[l] THEN q[2] ELSE 0
    BY <2>1, <2>2, FromStationParts
  <2>4. /\ InOrder(d, Tail(e), w, Own(l), Turn(l))
        /\ InOrder(Append(d, Head(e)), Tail(e), w, Own(l), Turn(l))
    BY <2>2, <2>3, WayHandled
  <2>5. /\ events'[l] = Tail(events[l]) /\ \A x \in Listeners \ {l} : events'[x] = events[x]
        /\ delivered'[l] = d \/ (q[1] = Chosen[l] /\ delivered'[l] = Append(d, q[2]))
        /\ \A x \in Listeners \ {l} : delivered'[x] = delivered[x]
    BY <2>1 DEF TypeOK
  <2>6. InOrder(delivered'[l], FromStation(events'[l], Chosen[l]), w, Own(l), Turn(l))
    BY <2>3, <2>4, <2>5
  <2>7. \A x \in Listeners : Own(x)' = Own(x) /\ Turn(x)' = Turn(x)
    BY <2>1 DEF Turn, Late, Own, Ids
  <2> HIDE DEF q, d, e
  <2> QED
    BY <2>1, <2>5, <2>6, <2>7 DEF OneWay
<1>5. ASSUME NEW n \in Nodes, NEW p \in Nodes, NEW a \in Addrs,
             Discovered(n, p, a) \/ Expired(n, p, a)
      PROVE  OneWay'
  BY <1>1, <1>5 DEF Discovered, Expired
<1>6. CASE UNCHANGED vars
  BY <1>1, <1>6 DEF vars
<1> QED
  BY <1>2, <1>3, <1>4, <1>5, <1>6, OneWayPublish, OneWayResend DEF Next

-----------------------------------------------------------------------------
(* Only the handler throws messages away: one from a relay, as it turns    *)
(* its back on the relay.                                                  *)
LEMMA SwallowStep ==
  ASSUME TypeOK, Known, [Next]_vars, NEW l \in Listeners
  PROVE  /\ blacklist[l] \subseteq blacklist'[l]
         /\ \/ Swallowed(l)' \subseteq Swallowed(l)
            \/ /\ events[l] # <<>> /\ Head(events[l])[1] # Chosen[l]
               /\ Head(events[l])[1] \in blacklist'[l]
<1> DEFINE Goal == /\ blacklist[l] \subseteq blacklist'[l]
                   /\ \/ Swallowed(l)' \subseteq Swallowed(l)
                      \/ /\ events[l] # <<>> /\ Head(events[l])[1] # Chosen[l]
                         /\ Head(events[l])[1] \in blacklist'[l]
<1>1. l \in Nodes \ Stations
  BY NodesAssumption DEF Nodes
<1>2. CASE UNCHANGED <<seen[l], events[l], delivered[l], blacklist>>
  BY <1>2 DEF Swallowed, Has
<1>3. ASSUME NEW link \in Links, Receive(link[1], link[2]) PROVE Goal
  <2> DEFINE n == link[2]
             m == Head(wire[link])
  <2>1. /\ Moves(link, n, m) /\ UNCHANGED <<blacklist, delivered>>
        /\ \/ UNCHANGED <<seen, events>>
           \/ /\ seen' = [seen EXCEPT ![n] = @ \cup {m}]
              /\ events' = IF n \in Listeners
                           THEN [events EXCEPT ![n] = Append(@, <<link[1], m>>)] ELSE events
    BY <1>3, ReceiveMoves
  <2>2. <<link[1], m>> \in Nodes \X Msgs /\ n \in Nodes
    BY <2>1, HeadOfWire, LinkParts DEF Moves
  <2> HIDE DEF n, m
  <2>3. \/ UNCHANGED <<seen[l], events[l]>>
        \/ seen'[l] = seen[l] \cup {m} /\ events'[l] = Append(events[l], <<link[1], m>>)
    BY <1>1, <2>1, <2>2 DEF TypeOK
  <2>4. CASE seen'[l] = seen[l] \cup {m} /\ events'[l] = Append(events[l], <<link[1], m>>)
    <3>1. events[l] \in Seq(Nodes \X Msgs)
      BY DEF TypeOK
    <3>2. /\ Len(events[l]) + 1 \in 1..Len(events'[l])
          /\ events'[l][Len(events[l]) + 1] = <<link[1], m>>
      BY <2>2, <2>4, <3>1, AppendParts
    <3>3. \A i \in 1..Len(events[l]) : i \in 1..Len(events'[l]) /\ events'[l][i] = events[l][i]
      BY <2>2, <2>4, <3>1, AppendParts, AppendProperties
    <3> QED
      BY <2>1, <2>4, <3>2, <3>3 DEF Swallowed, Has
  <2> QED
    BY <1>2, <2>1, <2>3, <2>4
<1>4. ASSUME NEW x \in Listeners, HandleEvent(x) PROVE Goal
  <2> DEFINE e == Head(events[x])
  <2>1. /\ events[x] # <<>> /\ events' = [events EXCEPT ![x] = Tail(events[x])]
        /\ UNCHANGED seen
        /\ \/ /\ e[1] = Chosen[x]
              /\ delivered' = [delivered EXCEPT ![x] = Append(delivered[x], e[2])]
              /\ UNCHANGED blacklist
           \/ /\ e[1] # Chosen[x] /\ UNCHANGED delivered
              /\ blacklist' = [blacklist EXCEPT ![x] = blacklist[x] \cup {e[1]}]
    BY <1>4, HandleMoves
  <2>2. CASE x # l
    <3>1. UNCHANGED <<seen[l], events[l], delivered[l]>>
      BY <2>1, <2>2 DEF TypeOK
    <3>2. blacklist'[l] = blacklist[l]
      BY <1>1, <2>1, <2>2 DEF TypeOK
    <3> QED
      BY <3>1, <3>2 DEF Swallowed, Has
  <2>3. CASE x = l /\ e[1] # Chosen[x]
    <3>1. blacklist'[l] = blacklist[l] \cup {e[1]}
      BY <1>1, <2>1, <2>3 DEF TypeOK
    <3> QED
      BY <2>1, <2>3, <3>1
  <2>4. CASE x = l /\ e[1] = Chosen[x]
    <3>1. /\ events'[l] = Tail(events[l]) /\ delivered'[l] = Append(delivered[l], e[2])
          /\ events[l] \in Seq(Nodes \X Msgs) /\ delivered[l] \in Seq(Msgs) /\ e[2] \in Msgs
      BY <2>1, <2>4, HeadOfEvents DEF TypeOK
    <3>2. /\ Len(delivered[l]) + 1 \in 1..Len(delivered'[l])
          /\ delivered'[l][Len(delivered[l]) + 1] = e[2]
      BY <3>1, AppendParts
    <3>3. \A i \in 1..Len(delivered[l]) :
            i \in 1..Len(delivered'[l]) /\ delivered'[l][i] = delivered[l][i]
      BY <3>1, AppendParts, AppendProperties
    <3>4. \A i \in 1..Len(events[l]) :
            events[l][i] = e \/ \E j \in 1..Len(events'[l]) : events'[l][j] = events[l][i]
      <4>1. /\ Len(events[l]) \in Nat /\ Len(Tail(events[l])) = Len(events[l]) - 1
            /\ events[l][1] = e
            /\ \A j \in 1..Len(Tail(events[l])) : Tail(events[l])[j] = events[l][j + 1]
        BY <2>1, <2>4, <3>1
      <4>2. \A n \in Nat : \A i \in 1..n :
              i = 1 \/ (i - 1 \in 1..(n - 1) /\ (i - 1) + 1 = i)
        OBVIOUS
      <4>3. ASSUME NEW i \in 1..Len(events[l]), i # 1
            PROVE  i - 1 \in 1..Len(Tail(events[l])) /\ (i - 1) + 1 = i
        BY <4>1, <4>2, <4>3, Zenon
      <4>4. ASSUME NEW i \in 1..Len(events[l]), i # 1
            PROVE  \E j \in 1..Len(Tail(events[l])) : Tail(events[l])[j] = events[l][i]
        BY <4>1, <4>3, <4>4, Zenon
      <4> QED
        BY <3>1, <4>1, <4>4, Zenon
    <3> HIDE DEF e
    <3>5. ASSUME NEW c \in Swallowed(l)' PROVE c \in Swallowed(l)
      <4>1. c \in seen[l] /\ ~Has(delivered'[l], c)
            /\ \A i \in 1..Len(events'[l]) : events'[l][i][2] # c
        BY <2>1, <3>5 DEF Swallowed
      <4>2. ~Has(delivered[l], c) /\ c # e[2]
        BY <3>2, <3>3, <4>1, Zenon DEF Has
      <4>3. \A i \in 1..Len(events[l]) : events[l][i][2] # c
        BY <3>4, <4>1, <4>2, Zenon
      <4> QED
        BY <4>1, <4>2, <4>3 DEF Swallowed
    <3> QED
      BY <2>1, <2>4, <3>5
  <2> QED
    BY <2>2, <2>3, <2>4
<1>5. ASSUME NEW s \in Stations, Publish(s) PROVE Goal
  <2>1. seen'[l] = seen[l] /\ UNCHANGED <<events, delivered, blacklist>>
    BY <1>1, <1>5, PublishMoves
  <2> QED
    BY <1>2, <2>1
<1>6. ASSUME NEW link \in Links, Lose(link[1], link[2]) PROVE Goal
  BY <1>2, <1>6, LoseMoves
<1>7. ASSUME NEW n \in Nodes, NEW p \in Nodes, NEW a \in Addrs,
             Discovered(n, p, a) \/ Expired(n, p, a)
      PROVE  Goal
  BY <1>2, <1>7 DEF Discovered, Expired
<1>8. CASE \/ UNCHANGED vars
           \/ \E link \in Links, m \in Msgs : Resend(link[1], link[2], m)
  BY <1>2, <1>8 DEF vars, Resend
<1> QED
  BY <1>3, <1>4, <1>5, <1>6, <1>7, <1>8 DEF Next

LEMMA InitInv == Init => IInv
<1> SUFFICES ASSUME Init PROVE IInv
  OBVIOUS
<1>1. Len(<<>>) = 0 /\ 1..0 = {}
  OBVIOUS
<1>2. Known /\ Once
  BY <1>1 DEF Init, Known, Once, OnceIn, Nodes
<1>3. OneWay
  <2>1. \A l \in Listeners : /\ delivered[l] = <<>> /\ wire[<<Chosen[l], l>>] = <<>>
                             /\ events[l] = <<>>
    BY LinkParts DEF Init
  <2>2. ASSUME NEW c PROVE FromStation(<<>>, c) = <<>>
    BY <1>1 DEF FromStation
  <2> QED
    BY <1>1, <2>1, <2>2 DEF OneWay, InOrder, Rising, Before
<1>4. OnlyRelaysSwallow
  BY DEF Init, OnlyRelaysSwallow, Swallowed, Nodes
<1> QED
  BY <1>2, <1>3, <1>4, TypeInit DEF IInv

(* The inductive invariant holds in every reachable state. *)
THEOREM Invariance == Spec => []IInv
<1>1. IInv /\ [Next]_vars => IInv'
  <2> SUFFICES ASSUME IInv, [Next]_vars PROVE IInv'
    OBVIOUS
  <2>1. TypeOK' /\ Known' /\ Once' /\ OneWay'
    BY TypeStep, KnownStep, OnceStep, OneWayStep DEF IInv
  <2>2. OnlyRelaysSwallow'
    <3> SUFFICES ASSUME NEW l \in Listeners, Swallowed(l)' # {}
                 PROVE  blacklist'[l] \ {Chosen[l]} # {}
      BY DEF OnlyRelaysSwallow
    <3> QED
      BY SwallowStep DEF IInv, OnlyRelaysSwallow
  <2> QED
    BY <2>1, <2>2 DEF IInv
<1> QED
  BY InitInv, <1>1, PTL DEF Spec

(* Every variable keeps its type; in particular no node makes itself an    *)
(* explicit peer or blacklists itself, since no event comes from itself.   *)
THEOREM TypeCorrect == Spec => []TypeOK
BY Invariance, PTL DEF IInv

(* A listener hears no message twice, whatever relays, meshes and lost     *)
(* and found peers there are.                                              *)
THEOREM NothingHeardTwice == Spec => []NoDuplicates
<1>1. IInv => NoDuplicates
  <2> SUFFICES ASSUME IInv, NEW l \in Listeners PROVE IsInjective(delivered[l])
    BY DEF NoDuplicates
  <2>1. DOMAIN delivered[l] = 1..Len(delivered[l])
    BY LenProperties DEF IInv, TypeOK
  <2> QED
    BY <2>1 DEF IInv, Once, OnceIn, IsInjective
<1> QED
  BY Invariance, <1>1, PTL

(* What a listener hears of its own station it hears in the order in which *)
(* it was published, but for what the station handed over late, on         *)
(* request: relays can only add messages of other stations.                *)
THEOREM OwnAlwaysInOrder == Spec => []OwnInOrder
<1>1. IInv => OwnInOrder
  <2> SUFFICES ASSUME IInv, NEW l \in Listeners,
                      NEW i \in 1..Len(delivered[l]), NEW j \in 1..Len(delivered[l]), i < j,
                      origin[delivered[l][i]] = Chosen[l], origin[delivered[l][j]] = Chosen[l]
               PROVE  delivered[l][i] < delivered[l][j] \/ delivered[l][j] \in Late(l)
    BY DEF OwnInOrder
  <2>1. delivered[l][i] \in Own(l) /\ delivered[l][j] \in Own(l)
    BY WayTypes DEF IInv, Own
  <2> QED
    BY <2>1 DEF IInv, OneWay, InOrder, Rising, Turn
<1> QED
  BY Invariance, <1>1, PTL

(* A listener has thrown away messages only where it has turned its back   *)
(* on a relay.                                                             *)
THEOREM OnlyRelaysEverSwallow == Spec => []OnlyRelaysSwallow
BY Invariance, PTL DEF IInv

(* Once every relay is blacklisted and its last events are handled, a      *)
(* listener throws nothing more away.                                      *)
THEOREM LossComesToAnEnd == Spec => LossEnds
<1>1. ASSUME IInv, [Next]_vars, NEW l \in Listeners, Settled(l)
      PROVE  Swallowed(l)' \subseteq Swallowed(l)
  <2>1. events[l] # <<>> => Head(events[l])[1] = Chosen[l]
    BY <1>1, HeadOfEvents DEF IInv, Settled
  <2> QED
    BY <1>1, <2>1, SwallowStep DEF IInv
<1>2. IInv /\ [Next]_vars =>
        [\A l \in Listeners : Settled(l) => Swallowed(l)' \subseteq Swallowed(l)]_vars
  BY <1>1
<1> QED
  BY Invariance, <1>2, PTL DEF Spec, LossEnds
=============================================================================
