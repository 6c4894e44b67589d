--------------------------- MODULE GossipNetwork ---------------------------
(***************************************************************************)
(* Stations and listeners on one gossipsub topic (p2p/swarm.rs): mDNS      *)
(* events make peers explicit and drop them again, stations publish,       *)
(* gossipsub passes on every message it sees for the first time, and a     *)
(* listener keeps what its chosen station handed it and blacklists any     *)
(* other peer that hands it a message.                                     *)
(*                                                                         *)
(* A message is named by its sequence number: that is all message_id looks *)
(* at, and gossipsub starts each node's numbers at the clock, so two       *)
(* stations do not use the same one.  origin[m] is the station that signed *)
(* message m.                                                              *)
(***************************************************************************)
EXTENDS Naturals, Sequences, FiniteSets, Functions

CONSTANTS
  Stations,   \* streamer nodes
  Listeners,  \* listener nodes
  Chosen,     \* Chosen[l]: the station whose peer id l was started with
  Addrs,      \* addresses a node may be announced under
  MaxMsgs,    \* bound: messages published
  MaxExpired, \* bound: mDNS records that expire
  MaxResent   \* bound: messages handed over on request

Nodes == Stations \cup Listeners

ASSUME NodesAssumption == Stations \cap Listeners = {}
ASSUME ChosenAssumption == Chosen \in [Listeners -> Stations]
ASSUME BoundAssumption == {MaxMsgs, MaxExpired, MaxResent} \subseteq Nat

VARIABLES
  origin,     \* who published each message
  near,       \* the mDNS records: <<node, peer it sees, address>>
  expired,    \* records that have expired so far
  explicit,   \* explicit[n]: the explicit peers of n
  blacklist,  \* blacklist[n]: the peers n has blacklisted
  wire,       \* wire[<<a, b>>]: messages in flight from a to b
  resent,     \* what was handed over on request: <<link, id>>
  seen,       \* seen[n]: the ids in n's duplicate cache
  events,     \* events[l]: gossipsub events l has not handled: <<source, id>>
  delivered   \* delivered[l]: what l sent to its gossip channel

vars ==
  <<origin, near, expired, explicit, blacklist, wire, resent, seen, events, delivered>>

Links == {link \in Nodes \X Nodes : link[1] # link[2]}
Msgs == 1..MaxMsgs

TypeOK ==
  /\ origin \in Seq(Stations) /\ Len(origin) <= MaxMsgs
  /\ near \subseteq Nodes \X Nodes \X Addrs
  /\ expired \in 0..MaxExpired
  /\ explicit \in [Nodes -> SUBSET Nodes]
  /\ blacklist \in [Nodes -> SUBSET Nodes]
  /\ \A n \in Nodes : n \notin explicit[n] \cup blacklist[n]
  /\ wire \in [Links -> Seq(Msgs)]
  /\ resent \subseteq Links \X Msgs
  /\ seen \in [Nodes -> SUBSET Msgs]
  /\ events \in [Listeners -> Seq(Nodes \X Msgs)]
  /\ delivered \in [Listeners -> Seq(Msgs)]

Init ==
  /\ origin = <<>>
  /\ near = {}
  /\ expired = 0
  /\ explicit = [n \in Nodes |-> {}]
  /\ blacklist = [n \in Nodes |-> {}]
  /\ wire = [link \in Links |-> <<>>]
  /\ resent = {}
  /\ seen = [n \in Nodes |-> {}]
  /\ events = [l \in Listeners |-> <<>>]
  /\ delivered = [l \in Listeners |-> <<>>]

-----------------------------------------------------------------------------
(* process_mdns_event, one entry of the list at a time. *)

Discovered(n, p, a) ==
  /\ n # p /\ <<n, p, a>> \notin near
  /\ near' = near \cup {<<n, p, a>>}
  /\ explicit' = [explicit EXCEPT ![n] = @ \cup {p}]
  /\ UNCHANGED <<origin, expired, blacklist, wire, resent, seen, events, delivered>>

Expired(n, p, a) ==
  /\ <<n, p, a>> \in near /\ expired < MaxExpired
  /\ expired' = expired + 1
  /\ near' = near \ {<<n, p, a>>}
  /\ explicit' = [explicit EXCEPT ![n] = @ \ {p}]
  /\ UNCHANGED <<origin, blacklist, wire, resent, seen, events, delivered>>

-----------------------------------------------------------------------------
(* gossipsub.  A node sends to its explicit peers for certain, and maybe,  *)
(* through its mesh, to peers that dialled it because it is explicit there.*)

SendsTo(n, targets) ==
  /\ explicit[n] \subseteq targets
  /\ targets \subseteq explicit[n] \cup {p \in Nodes \ {n} : n \in explicit[p]}

Put(w, n, targets, m) ==
  [link \in Links |->
     IF link[1] = n /\ link[2] \in targets THEN Append(w[link], m) ELSE w[link]]

(* publish_data; without a target gossipsub refuses and the data is lost. *)
Publish(s) ==
  /\ Len(origin) < MaxMsgs
  /\ origin' = Append(origin, s)
  /\ \E targets \in SUBSET Nodes :
       LET m == Len(origin) + 1 IN
       /\ SendsTo(s, targets)
       /\ wire' = Put(wire, s, targets, m)
       /\ seen' = IF targets = {} THEN seen ELSE [seen EXCEPT ![s] = @ \cup {m}]
  /\ UNCHANGED <<near, expired, explicit, blacklist, resent, events, delivered>>

NewToAlways(n, m) == origin[m] # n       \* mutant: ids that never compare equal

(* message_id: the duplicate cache compares sequence numbers. *)
NewTo(n, m) == origin[m] # n /\ m \notin seen[n]

Accepts(n, from, m) ==
  from \notin blacklist[n] /\ origin[m] \notin blacklist[n] /\ NewTo(n, m)

(* Validation, the duplicate cache, the event for the program and the      *)
(* forwarding, which does not wait for the program's opinion.              *)
Receive(from, n) ==
  LET m == Head(wire[<<from, n>>])
      rest == [wire EXCEPT ![<<from, n>>] = Tail(@)]
  IN
  /\ wire[<<from, n>>] # <<>>
  /\ IF Accepts(n, from, m)
     THEN /\ seen' = [seen EXCEPT ![n] = @ \cup {m}]
          /\ events' = IF n \in Listeners
                       THEN [events EXCEPT ![n] = Append(@, <<from, m>>)]
                       ELSE events                  \* the streamer has no handler
          /\ \E targets \in SUBSET Nodes :
               /\ SendsTo(n, targets)
               /\ wire' = Put(rest, n, targets \ {from, origin[m]}, m)
     ELSE wire' = rest /\ UNCHANGED <<seen, events>>
  /\ UNCHANGED <<origin, near, expired, explicit, blacklist, resent, delivered>>

(* A heartbeat later a node offers what is in its cache, which holds no    *)
(* more than seen does, and a peer that has not got a message asks for it  *)
(* (IHAVE, IWANT).  The answer goes behind whatever is on the link by then. *)
Resend(from, n, m) ==
  /\ m \in seen[from] \ seen[n] /\ origin[m] # n
  /\ <<<<from, n>>, m>> \notin resent /\ Cardinality(resent) < MaxResent
  /\ resent' = resent \cup {<<<<from, n>>, m>>}
  /\ wire' = [wire EXCEPT ![<<from, n>>] = Append(@, m)]
  /\ UNCHANGED <<origin, near, expired, explicit, blacklist, seen, events, delivered>>

(* The connection closes with what was in flight, or the send queue drops  *)
(* it.                                                                     *)
Lose(from, n) ==
  /\ wire[<<from, n>>] # <<>>
  /\ wire' = [wire EXCEPT ![<<from, n>>] = Tail(@)]
  /\ UNCHANGED <<origin, near, expired, explicit, blacklist, resent, seen, events, delivered>>

-----------------------------------------------------------------------------
(* process_gossip_sub_event.  What a station publishes always has a        *)
(* sequence number and decodes.                                            *)

TrustedAll(l, source) == TRUE            \* mutant: no check of the source
TrustedNone(l, source) == source = l     \* mutant: compares with the own id

Trusted(l, source) == source = Chosen[l]

UntrustSelf(l, source) ==                \* mutant: blacklists the own peer id
  /\ blacklist' = [blacklist EXCEPT ![l] = @ \cup {l}]
  /\ explicit' = [explicit EXCEPT ![l] = @ \ {source}]
  /\ UNCHANGED delivered

Untrust(l, source) ==
  /\ blacklist' = [blacklist EXCEPT ![l] = @ \cup {source}]
  /\ explicit' = [explicit EXCEPT ![l] = @ \ {source}]
  /\ UNCHANGED delivered

HandleEvent(l) ==
  /\ events[l] # <<>>
  /\ LET source == Head(events[l])[1]
         m == Head(events[l])[2]
     IN  IF Trusted(l, source)
         THEN /\ delivered' = [delivered EXCEPT ![l] = Append(@, m)]
              /\ UNCHANGED <<blacklist, explicit>>
         ELSE Untrust(l, source)
  /\ events' = [events EXCEPT ![l] = Tail(@)]
  /\ UNCHANGED <<origin, near, expired, wire, resent, seen>>

-----------------------------------------------------------------------------
Next ==
  \/ \E n, p \in Nodes, a \in Addrs : Discovered(n, p, a) \/ Expired(n, p, a)
  \/ \E s \in Stations : Publish(s)
  \/ \E link \in Links : Receive(link[1], link[2]) \/ Lose(link[1], link[2])
  \/ \E link \in Links, m \in Msgs : Resend(link[1], link[2], m)
  \/ \E l \in Listeners : HandleEvent(l)

Spec == Init /\ [][Next]_vars

(* The network carries what it does not lose and every swarm task is       *)
(* polled.  Nothing makes mDNS find a peer or a station publish.           *)
Fairness ==
  /\ \A link \in Links : WF_vars(Receive(link[1], link[2]))
  /\ \A l \in Listeners : WF_vars(HandleEvent(l))

FairSpec == Spec /\ Fairness

-----------------------------------------------------------------------------
(* Properties. *)

Has(q, m) == \E i \in 1..Len(q) : q[i] = m

(* A listener hears no message twice, by however many ways it came. *)
NoDuplicates == \A l \in Listeners : IsInjective(delivered[l])

Late(l) == {m \in Msgs : <<<<Chosen[l], l>>, m>> \in resent}

(* What a listener hears of its own station, it hears in the order the     *)
(* station published it, although relays may deliver in another order.     *)
(* Only what the station itself handed over late, on request, may be heard *)
(* after newer messages: the listener does not reorder.                    *)
OwnInOrder ==
  \A l \in Listeners : \A i, j \in 1..Len(delivered[l]) :
    /\ i < j
    /\ origin[delivered[l][i]] = Chosen[l] /\ origin[delivered[l][j]] = Chosen[l]
    => delivered[l][i] < delivered[l][j] \/ delivered[l][j] \in Late(l)

(* What l's duplicate cache holds but its handler threw away. *)
Swallowed(l) ==
  {m \in seen[l] : ~Has(delivered[l], m)
                   /\ \A i \in 1..Len(events[l]) : events[l][i][2] # m}

(* A listener misses a message it has received only if some relay was      *)
(* faster than the station, and that relay is blacklisted by then ...      *)
OnlyRelaysSwallow ==
  \A l \in Listeners : Swallowed(l) # {} => blacklist[l] \ {Chosen[l]} # {}

(* ... and once all relays are, and their last events are handled, nothing *)
(* more is missed: the listener never turns its back on its station.       *)
Settled(l) ==
  /\ Nodes \ {l, Chosen[l]} \subseteq blacklist[l]
  /\ \A i \in 1..Len(events[l]) : events[l][i][1] = Chosen[l]

LossEnds ==
  [][\A l \in Listeners : Settled(l) => Swallowed(l)' \subseteq Swallowed(l)]_vars

(* README.md: listeners "help distribute the messages to other peers", so  *)
(* a message of the chosen station that a listener accepts is heard.       *)
HelpsDistribute ==
  \A l \in Listeners : \A m \in Msgs :
    (m \in seen[l] /\ origin[m] = Chosen[l]) ~> Has(delivered[l], m)

(* README.md: listeners tune in by "making sure the public key is          *)
(* correct", so what they hear was published under that key.               *)
OnlyChosenHeard ==
  \A l \in Listeners : \A i \in 1..Len(delivered[l]) :
    origin[delivered[l][i]] = Chosen[l]
=============================================================================
