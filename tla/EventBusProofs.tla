---------------------------- MODULE EventBusProofs ----------------------------
(***************************************************************************)
(* The bus delivers no event that was not published, none to a listener    *)
(* that did not ask for it, and none more often than it was sent: for any  *)
(* servers, listeners, partitions and events, any capacities, and any      *)
(* number of restarts, failed sends and repeated ones, with Kafka and      *)
(* without.                                                                *)
(***************************************************************************)
EXTENDS EventBus, SequenceLemmas

LEMMA Constants ==
  /\ \A e \in Events : PublisherOf[e] \in Servers /\ PartitionOf[e] \in Partitions
  /\ \A l \in Listeners : ListenerAt[l] \in Servers /\ Wants[l] \subseteq Events
  /\ Events \subseteq Nat /\ None \notin Nat /\ None \notin Events
  /\ PubSize \in Nat /\ InSize \in Nat /\ AckSize \in Nat /\ SubSize \in Nat
  /\ ChanSize \in Nat /\ MaxFaults \in Nat
  BY BusAssumption

USE Constants

-----------------------------------------------------------------------------
(* Types.                                                                  *)

LEMMA InitType == Init => TypeOK
<1> SUFFICES ASSUME Init PROVE TypeOK
  OBVIOUS
<1>1. <<>> \in Seq(Events) /\ <<>> \in Seq([event : Events, to : SUBSET Listeners]) /\ Len(<<>>) = 0
  BY EmptyFacts
<1> QED
  BY <1>1 DEF Init, TypeOK

\* Queues of which one has gained or lost an element.
LEMMA Queues ==
  ASSUME NEW I, NEW S, NEW q \in [I -> Seq(S)], NEW i \in I
  PROVE  /\ q[i] \in Seq(S) /\ Len(q[i]) \in Nat
         /\ [q EXCEPT ![i] = <<>>] \in [I -> Seq(S)] /\ Len(<<>>) = 0
         /\ q[i] # <<>> =>
              /\ Head(q[i]) \in S /\ [q EXCEPT ![i] = Tail(@)] \in [I -> Seq(S)]
              /\ Len(Tail(q[i])) = Len(q[i]) - 1
         /\ \A x \in S :
              /\ [q EXCEPT ![i] = Append(@, x)] \in [I -> Seq(S)]
              /\ Len(Append(q[i], x)) = Len(q[i]) + 1
<1>1. q[i] \in Seq(S)
  OBVIOUS
<1>2. <<>> \in Seq(S)
  BY EmptyFacts
<1>3. q[i] # <<>> => Head(q[i]) \in S /\ Tail(q[i]) \in Seq(S) /\ Len(Tail(q[i])) = Len(q[i]) - 1
  BY <1>1, TailFacts
<1>4. \A x \in S : Append(q[i], x) \in Seq(S) /\ Len(Append(q[i], x)) = Len(q[i]) + 1
  BY <1>1, AppendFacts
<1> QED
  BY <1>1, <1>2, <1>3, <1>4, SeqFacts, EmptyFacts

LEMMA One ==
  ASSUME NEW S, NEW q \in Seq(S), NEW e \in S
  PROVE  q \o <<e>> = Append(q, e) /\ q \o <<e, e>> = Append(Append(q, e), e)
  OBVIOUS

\* A message that is sent, and what may become of it.
LEMMA TransmitParts ==
  ASSUME NEW s, NEW outcome \in {"once", "twice", "lost"}, Transmit(s, outcome),
         NEW e, e = Head(input[s])
  PROVE  /\ input[s] # <<>> /\ input' = [input EXCEPT ![s] = Tail(@)]
         /\ answer' = [answer EXCEPT ![s] = IF outcome = "lost" THEN "error" ELSE "success"]
         /\ \/ /\ outcome = "once" /\ repeats' = repeats
               /\ topic' = [topic EXCEPT ![PartitionOf[e]] = @ \o <<e>>]
            \/ /\ outcome = "twice" /\ repeats' = [repeats EXCEPT ![e] = @ + 1]
               /\ topic' = [topic EXCEPT ![PartitionOf[e]] = @ \o <<e, e>>]
            \/ /\ outcome = "lost" /\ repeats' = repeats
               /\ topic' = [topic EXCEPT ![PartitionOf[e]] = @]
         /\ faults' = faults \/ Fault
         /\ UNCHANGED <<kafka, subscribed, publishing, pub, sending, successes, errors,
                        position, sub, handling, channel, published, delivered>>
  BY DEF Transmit, consumer

LEMMA TypeNext == TypeOK /\ [Next]_vars => TypeOK'
<1> SUFFICES ASSUME TypeOK, [Next]_vars
             PROVE  TypeOK'
  OBVIOUS
<1> USE DEF producer, consumer
<1>1. ASSUME NEW s \in Servers, Restart(s) PROVE TypeOK'
  <2>1. /\ <<>> \in Seq(Events) /\ <<>> \in Seq([event : Events, to : SUBSET Listeners])
        /\ Len(<<>>) = 0
    BY EmptyFacts
  <2>2. channel' \in [Listeners -> Seq(Events)] /\ \A l \in Listeners : Len(channel'[l]) <= ChanSize
    <3>1. channel' = [l \in Listeners |-> IF ListenerAt[l] = s THEN <<>> ELSE channel[l]]
      BY <1>1 DEF Restart
    <3>2. channel \in [Listeners -> Seq(Events)] /\ \A l \in Listeners : Len(channel[l]) <= ChanSize
      BY DEF TypeOK
    <3>3. \A l \in Listeners :
            LET q == IF ListenerAt[l] = s THEN <<>> ELSE channel[l]
            IN  q \in Seq(Events) /\ Len(q) <= ChanSize
      BY <2>1, <3>2
    <3> QED
      BY <3>1, <3>3
  <2>3. /\ pub' \in [Servers -> Seq(Events)] /\ \A t \in Servers : Len(pub'[t]) <= PubSize
        /\ input' \in [Servers -> Seq(Events)] /\ \A t \in Servers : Len(input'[t]) <= InSize
        /\ sub' \in [Servers -> Seq(Events)] /\ \A t \in Servers : Len(sub'[t]) <= SubSize
    <3>1. /\ pub' = [pub EXCEPT ![s] = <<>>] /\ input' = [input EXCEPT ![s] = <<>>]
          /\ sub' = [sub EXCEPT ![s] = <<>>]
      BY <1>1 DEF Restart
    <3> QED
      BY <2>1, <3>1 DEF TypeOK
  <2>7. handling' \in [Servers -> Seq([event : Events, to : SUBSET Listeners])]
    <3>1. handling' = [handling EXCEPT ![s] = <<>>]
      BY <1>1 DEF Restart
    <3> DEFINE H == [event : Events, to : SUBSET Listeners]
    <3>2. handling \in [Servers -> Seq(H)]
      BY DEF TypeOK
    <3> HIDE DEF H
    <3>3. handling' \in [Servers -> Seq(H)]
      BY <3>1, <3>2, Queues
    <3> QED
      BY <3>3 DEF H
  <2>4. /\ position' \in [Servers -> [Partitions -> Nat \cup {None}]]
        /\ \A t \in Servers, p \in Partitions :
             position'[t][p] # None => position'[t][p] <= Len(topic[p])
    BY <1>1 DEF TypeOK, Restart
  <2>5. /\ publishing' \subseteq Events /\ published' \subseteq Events \ publishing'
        /\ subscribed' \subseteq Listeners /\ kafka' \in BOOLEAN
        /\ faults' \in 0 .. MaxFaults
    <3>1. faults' \in 0 .. MaxFaults
      BY <1>1 DEF TypeOK, Restart, Fault
    <3>2. publishing' \subseteq publishing /\ subscribed' \subseteq subscribed
          /\ UNCHANGED <<kafka, published>>
      BY <1>1 DEF Restart
    <3> QED
      BY <3>1, <3>2 DEF TypeOK
  <2>6. /\ successes' \in [Servers -> 0 .. AckSize] /\ errors' \in [Servers -> 0 .. AckSize]
        /\ sending' \in [Servers -> Events \cup {None}]
        /\ answer' \in [Servers -> {"none", "success", "error"}]
    BY <1>1 DEF TypeOK, Restart
  <2> QED
    BY <1>1, <2>2, <2>3, <2>4, <2>5, <2>6, <2>7 DEF TypeOK, Restart
<1>2. ASSUME NEW l \in Listeners, Subscribe(l) PROVE TypeOK'
  BY <1>2 DEF TypeOK, Subscribe
<1>3. ASSUME NEW l \in Listeners, Deliver(l) PROVE TypeOK'
  <2>1. /\ channel' \in [Listeners -> Seq(Events)] /\ Head(channel[l]) \in Events
        /\ \A k \in Listeners : Len(channel'[k]) <= ChanSize
    BY <1>3, Queues DEF TypeOK, Deliver
  <2>2. delivered' \in [Listeners -> [Events -> Nat]]
    <3> DEFINE e == Head(channel[l])
    <3>1. delivered' = [delivered EXCEPT ![l][e] = @ + 1]
      BY <1>3 DEF Deliver
    <3>2. e \in Events
      BY <2>1
    <3> HIDE DEF e
    <3> QED
      BY <3>1, <3>2 DEF TypeOK
  <2> QED
    BY <1>3, <2>1, <2>2 DEF TypeOK, Deliver
<1>4. ASSUME NEW e \in Events, Publish(e) PROVE TypeOK'
  BY <1>4 DEF TypeOK, Publish
<1>5. ASSUME NEW e \in Events, Published(e) PROVE TypeOK'
  <2>1. /\ pub' \in [Servers -> Seq(Events)]
        /\ \A s \in Servers : Len(pub'[s]) <= PubSize
    BY <1>5, Queues DEF TypeOK, Published
  <2> QED
    BY <1>5, <2>1 DEF TypeOK, Published
<1>6. ASSUME NEW s \in Servers, TakePub(s) PROVE TypeOK'
  <2>1. /\ pub' \in [Servers -> Seq(Events)] /\ Head(pub[s]) \in Events
        /\ \A t \in Servers : Len(pub'[t]) <= PubSize
    BY <1>6, Queues DEF TypeOK, TakePub
  <2> QED
    BY <1>6, <2>1 DEF TypeOK, TakePub
<1>7. ASSUME NEW s \in Servers, Input(s) PROVE TypeOK'
  <2>1. sending[s] \in Events
    BY <1>7 DEF TypeOK, Input
  <2>2. /\ input' \in [Servers -> Seq(Events)]
        /\ \A t \in Servers : Len(input'[t]) <= InSize
    BY <1>7, <2>1, Queues DEF TypeOK, Input
  <2> QED
    BY <1>7, <2>2 DEF TypeOK, Input
<1>8. ASSUME NEW s \in Servers, TakeAnswer(s) PROVE TypeOK'
  <2>1. successes[s] \in 0 .. AckSize /\ errors[s] \in 0 .. AckSize
    BY DEF TypeOK
  <2>2. /\ successes[s] > 0 => successes[s] - 1 \in 0 .. AckSize
        /\ errors[s] > 0 => errors[s] - 1 \in 0 .. AckSize
    BY <2>1
  <2>3. /\ successes' \in [Servers -> 0 .. AckSize]
        /\ errors' \in [Servers -> 0 .. AckSize]
    <3>1. CASE /\ successes[s] > 0 /\ UNCHANGED errors
               /\ successes' = [successes EXCEPT ![s] = @ - 1]
      BY <2>2, <3>1 DEF TypeOK
    <3>2. CASE /\ errors[s] > 0 /\ UNCHANGED successes
               /\ errors' = [errors EXCEPT ![s] = @ - 1]
      BY <2>2, <3>2 DEF TypeOK
    <3> QED
      BY <1>8, <3>1, <3>2 DEF TakeAnswer
  <2> QED
    BY <1>8, <2>3 DEF TypeOK, TakeAnswer
<1>9. ASSUME NEW s \in Servers, Answer(s) PROVE TypeOK'
  <2>1. successes[s] \in 0 .. AckSize /\ errors[s] \in 0 .. AckSize
    BY DEF TypeOK
  <2>2. /\ successes[s] < AckSize => successes[s] + 1 \in 0 .. AckSize
        /\ errors[s] < AckSize => errors[s] + 1 \in 0 .. AckSize
    BY <2>1
  <2>3. /\ successes' \in [Servers -> 0 .. AckSize]
        /\ errors' \in [Servers -> 0 .. AckSize]
    <3>1. CASE /\ successes[s] < AckSize /\ UNCHANGED errors
               /\ successes' = [successes EXCEPT ![s] = @ + 1]
      BY <2>2, <3>1 DEF TypeOK
    <3>2. CASE /\ errors[s] < AckSize /\ UNCHANGED successes
               /\ errors' = [errors EXCEPT ![s] = @ + 1]
      BY <2>2, <3>2 DEF TypeOK
    <3> QED
      BY <1>9, <3>1, <3>2 DEF Answer
  <2>4. answer' \in [Servers -> {"none", "success", "error"}]
    BY <1>9 DEF TypeOK, Answer
  <2> QED
    BY <1>9, <2>3, <2>4 DEF TypeOK, Answer
<1>10. ASSUME NEW s \in Servers, NEW outcome \in {"once", "twice", "lost"}, Transmit(s, outcome)
       PROVE  TypeOK'
  <2> DEFINE e == Head(input[s])
             p == PartitionOf[e]
             q == topic[p]
  <2>1. /\ input[s] # <<>> /\ input' = [input EXCEPT ![s] = Tail(@)]
        /\ answer' = [answer EXCEPT ![s] = IF outcome = "lost" THEN "error" ELSE "success"]
        /\ topic' \in {[topic EXCEPT ![p] = q \o <<e>>], [topic EXCEPT ![p] = q \o <<e, e>>],
                       [topic EXCEPT ![p] = q]}
        /\ repeats' \in {repeats, [repeats EXCEPT ![e] = @ + 1]}
        /\ faults' = faults \/ Fault
    BY <1>10, TransmitParts
  <2> HIDE DEF e
  <2>2. e \in Events
    <3>1. input \in [Servers -> Seq(Events)] /\ input[s] # <<>>
      BY <2>1 DEF TypeOK
    <3> QED
      BY <3>1, Queues DEF e
  <2>3. input' \in [Servers -> Seq(Events)] /\ \A t \in Servers : Len(input'[t]) <= InSize
    BY <2>1, Queues DEF TypeOK
  <2>4. p \in Partitions /\ q \in Seq(Events) /\ Len(q) \in Nat
    <3>1. p \in Partitions
      BY <2>2
    <3> HIDE DEF p
    <3> QED
      BY <3>1, SeqFacts DEF TypeOK
  <2> HIDE DEF p
  <2>5. /\ q \o <<e>> \in Seq(Events) /\ Len(q) <= Len(q \o <<e>>)
        /\ q \o <<e, e>> \in Seq(Events) /\ Len(q) <= Len(q \o <<e, e>>)
    <3> HIDE DEF q
    <3>1. Append(q, e) \in Seq(Events) /\ Len(Append(q, e)) = Len(q) + 1
      BY <2>2, <2>4, AppendFacts
    <3>2. /\ Append(Append(q, e), e) \in Seq(Events)
          /\ Len(Append(Append(q, e), e)) = Len(Append(q, e)) + 1
      BY <2>2, <3>1, AppendFacts
    <3> QED
      BY <2>2, <2>4, <3>1, <3>2, One
  <2>6. PICK r \in Seq(Events) : Len(q) <= Len(r) /\ topic' = [topic EXCEPT ![p] = r]
    <3> HIDE DEF q
    <3>1. CASE topic' = [topic EXCEPT ![p] = q \o <<e>>]
      BY <2>5, <3>1
    <3>2. CASE topic' = [topic EXCEPT ![p] = q \o <<e, e>>]
      BY <2>5, <3>2
    <3>3. CASE topic' = [topic EXCEPT ![p] = q]
      <4>1. q \in Seq(Events) /\ Len(q) <= Len(q)
        BY <2>4
      <4> QED
        BY <3>3, <4>1, Zenon
    <3> QED
      BY <2>1, <3>1, <3>2, <3>3
  <2>7. topic' \in [Partitions -> Seq(Events)]
    BY <2>4, <2>6 DEF TypeOK
  <2>8. \A t \in Servers, u \in Partitions :
          position[t][u] # None => position[t][u] <= Len(topic'[u])
    <3>1. \A t \in Servers, u \in Partitions :
            /\ position[t][u] # None => position[t][u] \in Nat /\ position[t][u] <= Len(topic[u])
            /\ Len(topic[u]) \in Nat
      BY SeqFacts DEF TypeOK
    <3>2. \A u \in Partitions : topic'[u] = IF u = p THEN r ELSE topic[u]
      BY <2>6 DEF TypeOK
    <3>3. Len(r) \in Nat
      BY SeqFacts
    <3> QED
      BY <2>4, <2>6, <3>1, <3>2, <3>3
  <2>9. answer' \in [Servers -> {"none", "success", "error"}]
    BY <2>1 DEF TypeOK
  <2>10. faults' \in 0 .. MaxFaults
    BY <2>1 DEF TypeOK, Fault
  <2>11. repeats' \in [Events -> Nat]
    <3>1. CASE repeats' = repeats
      BY <3>1 DEF TypeOK
    <3>2. CASE repeats' = [repeats EXCEPT ![e] = @ + 1]
      BY <2>2, <3>2 DEF TypeOK
    <3> QED
      BY <2>1, <3>1, <3>2
  <2>12. UNCHANGED <<kafka, subscribed, publishing, pub, sending, successes, errors,
                     position, sub, handling, channel, published, delivered>>
    BY <1>10 DEF Transmit
  <2> QED
    BY <2>3, <2>7, <2>8, <2>9, <2>10, <2>11, <2>12 DEF TypeOK
<1>11. ASSUME NEW s \in Servers, NEW p \in Partitions, ConsumePartition(s, p) PROVE TypeOK'
  <2>1. Len(topic[p]) \in Nat
    BY SeqFacts DEF TypeOK
  <2>2. position' \in [Servers -> [Partitions -> Nat \cup {None}]]
    BY <1>11, <2>1 DEF TypeOK, ConsumePartition
  <2>3. \A t \in Servers, r \in Partitions :
          position'[t][r] # None => position'[t][r] <= Len(topic[r])
    BY <1>11, <2>1 DEF TypeOK, ConsumePartition
  <2> QED
    BY <1>11, <2>2, <2>3 DEF TypeOK, ConsumePartition
<1>12. ASSUME NEW s \in Servers, NEW p \in Partitions, Receive(s, p) PROVE TypeOK'
  <2> DEFINE n == position[s][p]
  <2>1. n \in Nat /\ n < Len(topic[p]) /\ topic[p] \in Seq(Events) /\ Len(topic[p]) \in Nat
    BY <1>12, SeqFacts DEF TypeOK, Receive
  <2>2. topic[p][n + 1] \in Events
    <3>1. n + 1 \in DOMAIN topic[p]
      BY <2>1, SeqFacts
    <3> QED
      BY <2>1, <3>1, SeqFacts
  <2>3. position' = [position EXCEPT ![s][p] = n + 1]
    BY <1>12 DEF Receive
  <2>4. /\ sub' \in [Servers -> Seq(Events)]
        /\ \A t \in Servers : Len(sub'[t]) <= SubSize
    BY <1>12, <2>2, Queues DEF TypeOK, Receive
  <2>5. n + 1 \in Nat /\ n + 1 <= Len(topic[p])
    BY <2>1
  <2> HIDE DEF n
  <2>6. position' \in [Servers -> [Partitions -> Nat \cup {None}]]
    BY <2>3, <2>5 DEF TypeOK
  <2>7. \A t \in Servers, r \in Partitions :
          position'[t][r] # None => position'[t][r] <= Len(topic[r])
    BY <2>3, <2>5 DEF TypeOK
  <2> QED
    BY <1>12, <2>4, <2>6, <2>7 DEF TypeOK, Receive
<1>13. ASSUME NEW s \in Servers, Handle(s) PROVE TypeOK'
  <2> DEFINE source == IF kafka THEN sub[s] ELSE pub[s]
             h == [event |-> Head(source), to |-> ListenersOf(s, Head(source))]
  <2>1. source # <<>> /\ source \in Seq(Events)
    BY <1>13 DEF TypeOK, Handle
  <2>2. Head(source) \in Events
    BY <2>1, TailFacts
  <2>3. h \in [event : Events, to : SUBSET Listeners]
    BY <2>2 DEF ListenersOf, TypeOK
  <2>4. /\ pub' \in [Servers -> Seq(Events)] /\ \A t \in Servers : Len(pub'[t]) <= PubSize
        /\ sub' \in [Servers -> Seq(Events)] /\ \A t \in Servers : Len(sub'[t]) <= SubSize
    <3>1. CASE kafka
      <4>1. sub[s] # <<>> /\ sub' = [sub EXCEPT ![s] = Tail(@)] /\ pub' = pub
        BY <1>13, <3>1 DEF Handle
      <4> QED
        BY <4>1, Queues DEF TypeOK
    <3>2. CASE ~kafka
      <4>1. pub[s] # <<>> /\ pub' = [pub EXCEPT ![s] = Tail(@)] /\ sub' = sub
        BY <1>13, <3>2 DEF Handle
      <4> QED
        BY <4>1, Queues DEF TypeOK
    <3> QED
      BY <3>1, <3>2
  <2>5. handling' = handling \/ handling' = [handling EXCEPT ![s] = Append(@, h)]
    BY <1>13 DEF Handle, TypeOK
  <2> HIDE DEF h, source
  <2>6. handling' \in [Servers -> Seq([event : Events, to : SUBSET Listeners])]
    <3> DEFINE H == [event : Events, to : SUBSET Listeners]
    <3>1. handling \in [Servers -> Seq(H)]
      BY DEF TypeOK
    <3>2. h \in H
      BY <2>3
    <3> HIDE DEF H
    <3>3. handling' \in [Servers -> Seq(H)]
      <4>1. [handling EXCEPT ![s] = Append(@, h)] \in [Servers -> Seq(H)]
        BY <3>1, <3>2, Queues
      <4> QED
        BY <2>5, <3>1, <4>1
    <3> QED
      BY <3>3 DEF H
  <2> QED
    BY <1>13, <2>4, <2>6 DEF TypeOK, Handle
<1>14. ASSUME NEW s \in Servers, NEW i \in DOMAIN handling[s], NEW l \in handling[s][i].to,
              Broadcast(s, i, l)
       PROVE  TypeOK'
  <2> DEFINE H == [event : Events, to : SUBSET Listeners]
             h == handling[s][i]
  <2>1. handling[s] \in Seq(H) /\ h \in H /\ l \in Listeners
    <3>1. handling[s] \in Seq(H)
      BY DEF TypeOK
    <3>2. h \in H
      <4> HIDE DEF H
      <4> QED
        BY <3>1, SeqFacts
    <3> QED
      BY <3>1, <3>2
  <2>2. /\ channel' \in [Listeners -> Seq(Events)]
        /\ \A k \in Listeners : Len(channel'[k]) <= ChanSize
    <3>1. /\ h.event \in Events /\ Len(channel[l]) < ChanSize
          /\ channel' = [channel EXCEPT ![l] = Append(@, h.event)]
      BY <1>14, <2>1 DEF Broadcast
    <3> HIDE DEF h
    <3> QED
      BY <2>1, <3>1, Queues DEF TypeOK
  <2>3. /\ RemoveAt(handling[s], i) \in Seq(H)
        /\ ReplaceAt(handling[s], i, [h EXCEPT !.to = @ \ {l}]) \in Seq(H)
    <3>1. RemoveAt(handling[s], i) \in Seq(H)
      BY <2>1, RemoveAtFacts
    <3>2. [h EXCEPT !.to = @ \ {l}] \in H
      BY <2>1
    <3> QED
      BY <2>1, <3>1, <3>2 DEF ReplaceAt
  <2>4. handling' \in [Servers -> Seq(H)]
    BY <1>14, <2>3 DEF TypeOK, Broadcast
  <2> QED
    BY <1>14, <2>2, <2>4 DEF TypeOK, Broadcast
<1>15. CASE UNCHANGED vars
  BY <1>15 DEF TypeOK, vars
<1> QED
  BY <1>1, <1>2, <1>3, <1>4, <1>5, <1>6, <1>7, <1>8, <1>9, <1>10, <1>11, <1>12, <1>13,
     <1>14, <1>15 DEF Next, Produce, Send, Consume, Spread

-----------------------------------------------------------------------------
(* Events are only where they belong.                                      *)

LEMMA QueueSets ==
  ASSUME NEW S, NEW q \in Seq(S)
  PROVE  /\ ToSet(<<>>) = {}
         /\ q # <<>> => Head(q) \in ToSet(q) /\ Head(q) \in S /\ ToSet(Tail(q)) \subseteq ToSet(q)
         /\ \A x \in S : ToSet(Append(q, x)) = ToSet(q) \cup {x}
  BY EmptyFacts, TailFacts, AppendFacts

\* With the publisher, in pubChan, at the producer or in the library.
AtPublisher ==
  \A s \in Servers : \A e \in ToSet(pub[s]) \cup ToSet(input[s]) \cup {sending[s]} :
    e # None => PublisherOf[e] = s /\ e \in published
NoneRepeated == \A e \in Events \ published : repeats[e] = 0
InPartition == \A p \in Partitions : \A e \in ToSet(topic[p]) : PartitionOf[e] = p
Wanted ==
  /\ \A l \in Listeners : ToSet(channel[l]) \subseteq Wants[l]
  /\ \A s \in Servers : \A h \in ToSet(handling[s]) : \A l \in h.to :
       ListenerAt[l] = s /\ h.event \in Wants[l]

LEMMA InPlaceParts == InPlace <=> AtPublisher /\ NoneRepeated /\ InPartition /\ Wanted
  BY DEF InPlace, AtPublisher, NoneRepeated, InPartition, Wanted

\* What none of the steps does that is not named.
LEMMA OtherSteps ==
  ASSUME [Next]_vars
  PROVE  /\ kafka' = kafka
         /\ \/ UNCHANGED <<pub, input, sending, published, topic, sub, position, handling,
                           channel, repeats, delivered>>
            \/ \E s \in Servers :
                 \/ Restart(s) \/ TakePub(s) \/ Input(s) \/ Handle(s) \/ Spread(s)
                 \/ \E outcome \in {"once", "twice", "lost"} : Transmit(s, outcome)
                 \/ \E p \in Partitions : ConsumePartition(s, p) \/ Receive(s, p)
            \/ \E l \in Listeners : Deliver(l)
            \/ \E e \in Events : Published(e)
<1> USE DEF producer, consumer
<1>1. CASE UNCHANGED vars
  BY <1>1 DEF vars
<1>2. ASSUME NEW s \in Servers, Restart(s) PROVE kafka' = kafka
  BY <1>2 DEF Restart
<1>3. ASSUME NEW s \in Servers, TakePub(s) \/ Input(s) \/ Handle(s) \/ Spread(s) PROVE kafka' = kafka
  BY <1>3, Zenon DEF TakePub, Input, Handle, Spread, Broadcast
<1>4. ASSUME NEW s \in Servers, NEW outcome, Transmit(s, outcome) PROVE kafka' = kafka
  BY <1>4 DEF Transmit
<1>5. ASSUME NEW s \in Servers, NEW p \in Partitions, ConsumePartition(s, p) \/ Receive(s, p)
      PROVE  kafka' = kafka
  BY <1>5 DEF ConsumePartition, Receive
<1>6. ASSUME NEW l \in Listeners, Deliver(l) PROVE kafka' = kafka
  BY <1>6 DEF Deliver
<1>7. ASSUME NEW e \in Events, Published(e) PROVE kafka' = kafka
  BY <1>7 DEF Published
<1>8. ASSUME \/ \E l \in Listeners : Subscribe(l)
             \/ \E e \in Events : Publish(e)
             \/ \E s \in Servers : TakeAnswer(s) \/ Answer(s)
      PROVE  UNCHANGED <<kafka, pub, input, sending, published, topic, sub, position,
                         handling, channel, repeats, delivered>>
  BY <1>8 DEF Subscribe, Publish, TakeAnswer, Answer
<1> QED
  BY <1>1, <1>2, <1>3, <1>4, <1>5, <1>6, <1>7, <1>8 DEF Next, Produce, Send, Consume

LEMMA AtPublisherNext ==
  TypeOK /\ AtPublisher /\ NoneRepeated /\ [Next]_vars => AtPublisher' /\ NoneRepeated'
<1> SUFFICES ASSUME TypeOK, AtPublisher, NoneRepeated, [Next]_vars
             PROVE  AtPublisher' /\ NoneRepeated'
  OBVIOUS
<1> USE DEF producer, consumer
<1>0. /\ pub \in [Servers -> Seq(Events)] /\ input \in [Servers -> Seq(Events)]
      /\ sending \in [Servers -> Events \cup {None}] /\ repeats \in [Events -> Nat]
  BY DEF TypeOK
<1>1. CASE UNCHANGED <<pub, input, sending, published, repeats>>
  BY <1>1 DEF AtPublisher, NoneRepeated
\* Servers other than s keep what they have; s may only add what belongs there.
<1>2. ASSUME NEW s \in Servers, published \subseteq published', NoneRepeated',
             \A t \in Servers \ {s} : /\ pub'[t] = pub[t] /\ input'[t] = input[t]
                                      /\ sending'[t] = sending[t],
             \A e \in ToSet(pub'[s]) \cup ToSet(input'[s]) \cup {sending'[s]} :
               \/ e = None \/ e \in ToSet(pub[s]) \cup ToSet(input[s]) \cup {sending[s]}
               \/ PublisherOf[e] = s /\ e \in published'
      PROVE  AtPublisher' /\ NoneRepeated'
  BY <1>2 DEF AtPublisher
<1>3. ASSUME NEW s \in Servers, Restart(s) PROVE AtPublisher' /\ NoneRepeated'
  <2>1. /\ pub' = [pub EXCEPT ![s] = <<>>] /\ input' = [input EXCEPT ![s] = <<>>]
        /\ sending' = [sending EXCEPT ![s] = None] /\ UNCHANGED <<published, repeats>>
    BY <1>3 DEF Restart
  <2>2. pub'[s] = <<>> /\ input'[s] = <<>> /\ sending'[s] = None /\ ToSet(<<>>) = {}
    BY <1>0, <2>1, EmptyFacts
  <2>3. NoneRepeated'
    BY <2>1 DEF NoneRepeated
  <2> QED
    BY <1>0, <1>2, <2>1, <2>2, <2>3
<1>4. ASSUME NEW e \in Events, Published(e) PROVE AtPublisher' /\ NoneRepeated'
  <2> DEFINE s == PublisherOf[e]
  <2>1. /\ pub' = [pub EXCEPT ![s] = Append(@, e)] /\ UNCHANGED <<input, sending, repeats>>
        /\ published' = published \cup {e}
    BY <1>4 DEF Published
  <2>2. s \in Servers /\ pub'[s] = Append(pub[s], e) /\ pub[s] \in Seq(Events)
    BY <1>0, <2>1
  <2>3. NoneRepeated'
    BY <2>1 DEF NoneRepeated
  <2>4. PublisherOf[e] = s
    OBVIOUS
  <2> HIDE DEF s
  <2>5. ToSet(pub'[s]) = ToSet(pub[s]) \cup {e}
    BY <2>2, QueueSets
  <2> QED
    BY <1>0, <1>2, <2>1, <2>2, <2>3, <2>4, <2>5
<1>5. ASSUME NEW s \in Servers, TakePub(s) PROVE AtPublisher' /\ NoneRepeated'
  <2>1. /\ pub[s] # <<>> /\ pub' = [pub EXCEPT ![s] = Tail(@)]
        /\ sending' = [sending EXCEPT ![s] = Head(pub[s])]
        /\ UNCHANGED <<input, published, repeats>>
    BY <1>5 DEF TakePub
  <2>2. ToSet(pub'[s]) \subseteq ToSet(pub[s]) /\ sending'[s] \in ToSet(pub[s])
    <3>1. pub'[s] = Tail(pub[s]) /\ sending'[s] = Head(pub[s]) /\ pub[s] \in Seq(Events)
      BY <1>0, <2>1
    <3> QED
      BY <2>1, <3>1, QueueSets
  <2>3. NoneRepeated'
    BY <2>1 DEF NoneRepeated
  <2> QED
    BY <1>0, <1>2, <2>1, <2>2, <2>3
<1>6. ASSUME NEW s \in Servers, Input(s) PROVE AtPublisher' /\ NoneRepeated'
  <2>1. /\ sending[s] # None /\ input' = [input EXCEPT ![s] = Append(@, sending[s])]
        /\ sending' = [sending EXCEPT ![s] = None]
        /\ UNCHANGED <<pub, published, repeats>>
    BY <1>6 DEF Input
  <2>2. ToSet(input'[s]) = ToSet(input[s]) \cup {sending[s]} /\ sending'[s] = None
    <3>1. /\ input'[s] = Append(input[s], sending[s]) /\ sending'[s] = None
          /\ input[s] \in Seq(Events) /\ sending[s] \in Events
      BY <1>0, <2>1
    <3> QED
      BY <3>1, QueueSets
  <2>3. NoneRepeated'
    BY <2>1 DEF NoneRepeated
  <2> QED
    BY <1>0, <1>2, <2>1, <2>2, <2>3
<1>7. ASSUME NEW s \in Servers, NEW outcome \in {"once", "twice", "lost"}, Transmit(s, outcome)
      PROVE  AtPublisher' /\ NoneRepeated'
  <2>1. PICK e : e = Head(input[s])
    OBVIOUS
  <2>2. /\ input[s] # <<>> /\ input' = [input EXCEPT ![s] = Tail(@)]
        /\ repeats' = repeats \/ repeats' = [repeats EXCEPT ![e] = @ + 1]
        /\ UNCHANGED <<pub, sending, published>>
    BY <1>7, <2>1, TransmitParts
  <2>3. ToSet(input'[s]) \subseteq ToSet(input[s]) /\ e \in ToSet(input[s]) /\ e \in Events
    <3>1. input'[s] = Tail(input[s]) /\ input[s] \in Seq(Events)
      BY <1>0, <2>2
    <3> QED
      BY <2>1, <2>2, <3>1, QueueSets
  <2>4. e \in published
    BY <2>3 DEF AtPublisher
  <2>5. NoneRepeated'
    BY <1>0, <2>2, <2>4 DEF NoneRepeated
  <2> QED
    BY <1>0, <1>2, <2>2, <2>3, <2>5
<1>8. ASSUME NEW s \in Servers, Handle(s) PROVE AtPublisher' /\ NoneRepeated'
  <2>1. UNCHANGED <<input, sending, published, repeats>>
    BY <1>8 DEF Handle
  <2>2. (pub[s] # <<>> /\ pub' = [pub EXCEPT ![s] = Tail(@)]) \/ pub' = pub
    BY <1>8 DEF Handle
  <2>3. ToSet(pub'[s]) \subseteq ToSet(pub[s]) /\ \A t \in Servers \ {s} : pub'[t] = pub[t]
    <3>1. CASE pub' = pub
      BY <3>1
    <3>2. CASE pub[s] # <<>> /\ pub' = [pub EXCEPT ![s] = Tail(@)]
      <4>1. /\ pub'[s] = Tail(pub[s]) /\ pub[s] \in Seq(Events)
            /\ \A t \in Servers \ {s} : pub'[t] = pub[t]
        BY <1>0, <3>2
      <4> QED
        BY <3>2, <4>1, QueueSets
    <3> QED
      BY <2>2, <3>1, <3>2
  <2>4. NoneRepeated'
    BY <2>1 DEF NoneRepeated
  <2> QED
    BY <1>2, <2>1, <2>3, <2>4
<1>9. ASSUME \/ \E s \in Servers : Spread(s) \/ \E p \in Partitions : ConsumePartition(s, p) \/ Receive(s, p)
             \/ \E l \in Listeners : Deliver(l)
      PROVE  UNCHANGED <<pub, input, sending, published, repeats>>
  BY <1>9 DEF Spread, Broadcast, ConsumePartition, Receive, Deliver
<1> QED
  BY <1>1, <1>3, <1>4, <1>5, <1>6, <1>7, <1>8, <1>9, OtherSteps

\* What a send does to the topic, seen from one partition and one event.
LEMMA TopicNext ==
  ASSUME TypeOK, NEW s \in Servers, NEW outcome \in {"once", "twice", "lost"},
         Transmit(s, outcome), NEW e, e = Head(input[s])
  PROVE  LET q == topic[PartitionOf[e]] IN
         /\ e \in Events /\ q \in Seq(Events)
         /\ \A p \in Partitions \ {PartitionOf[e]} : topic'[p] = topic[p]
         /\ \/ outcome = "once" /\ topic'[PartitionOf[e]] = Append(q, e)
            \/ outcome = "twice" /\ topic'[PartitionOf[e]] = Append(Append(q, e), e)
            \/ outcome = "lost" /\ topic'[PartitionOf[e]] = q
<1> DEFINE p == PartitionOf[e]
           q == topic[p]
<1>1. /\ input[s] # <<>>
      /\ \/ outcome = "once" /\ topic' = [topic EXCEPT ![p] = q \o <<e>>]
         \/ outcome = "twice" /\ topic' = [topic EXCEPT ![p] = q \o <<e, e>>]
         \/ outcome = "lost" /\ topic' = [topic EXCEPT ![p] = q]
  BY TransmitParts, Zenon
<1>2. input[s] \in Seq(Events)
  BY DEF TypeOK
<1>3. e \in Events
  <2>1. input[s] # <<>>
    BY <1>1, Zenon
  <2> QED
    BY <1>2, <2>1, QueueSets
<1>4. p \in Partitions
  BY <1>3
<1> HIDE DEF p
<1>5. q \in Seq(Events) /\ topic \in [Partitions -> Seq(Events)]
  BY <1>4 DEF TypeOK
<1>6. q \o <<e>> = Append(q, e) /\ q \o <<e, e>> = Append(Append(q, e), e)
  BY <1>3, <1>5, One
<1>7. /\ \A r \in Partitions \ {p} : topic'[r] = topic[r]
      /\ \/ outcome = "once" /\ topic'[p] = q \o <<e>>
         \/ outcome = "twice" /\ topic'[p] = q \o <<e, e>>
         \/ outcome = "lost" /\ topic'[p] = q
  <2> HIDE DEF q
  <2> QED
    BY <1>1, <1>4, <1>5
<1> HIDE DEF q
<1>8. \/ outcome = "once" /\ topic'[p] = Append(q, e)
      \/ outcome = "twice" /\ topic'[p] = Append(Append(q, e), e)
      \/ outcome = "lost" /\ topic'[p] = q
  BY <1>6, <1>7
<1> QED
  BY <1>3, <1>5, <1>7, <1>8, Zenon DEF p, q

LEMMA InPartitionNext == TypeOK /\ InPartition /\ [Next]_vars => InPartition'
<1> SUFFICES ASSUME TypeOK, InPartition, [Next]_vars
             PROVE  InPartition'
  OBVIOUS
<1>1. CASE UNCHANGED topic
  BY <1>1 DEF InPartition
<1>2. ASSUME NEW s \in Servers, NEW outcome \in {"once", "twice", "lost"}, Transmit(s, outcome)
      PROVE  InPartition'
  <2> DEFINE e == Head(input[s])
             p == PartitionOf[e]
             q == topic[p]
  <2>1. /\ e \in Events /\ q \in Seq(Events)
        /\ \A r \in Partitions \ {p} : topic'[r] = topic[r]
        /\ \/ topic'[p] = Append(q, e) \/ topic'[p] = Append(Append(q, e), e)
           \/ topic'[p] = q
    BY <1>2, TopicNext, Zenon
  <2>2. p \in Partitions /\ p = PartitionOf[e]
    BY <2>1
  <2> HIDE DEF e, p, q
  <2>3. ToSet(topic'[p]) \subseteq ToSet(q) \cup {e}
    <3>1. /\ ToSet(Append(q, e)) = ToSet(q) \cup {e} /\ Append(q, e) \in Seq(Events)
      BY <2>1, AppendFacts
    <3>2. ToSet(Append(Append(q, e), e)) = ToSet(Append(q, e)) \cup {e}
      <4> DEFINE a == Append(q, e)
      <4>1. a \in Seq(Events) /\ e \in Events
        BY <2>1, <3>1
      <4> HIDE DEF a
      <4>2. ToSet(Append(a, e)) = ToSet(a) \cup {e}
        BY <4>1, AppendFacts
      <4> QED
        BY <4>2 DEF a
    <3> QED
      BY <2>1, <3>1, <3>2
  <2> QED
    BY <2>1, <2>2, <2>3 DEF InPartition, q
<1>3. ASSUME \/ \E s \in Servers : \/ Restart(s) \/ TakePub(s) \/ Input(s) \/ Handle(s) \/ Spread(s)
                                   \/ \E p \in Partitions : ConsumePartition(s, p) \/ Receive(s, p)
             \/ \E l \in Listeners : Deliver(l)
             \/ \E e \in Events : Published(e)
      PROVE  UNCHANGED topic
  BY <1>3 DEF Restart, TakePub, Input, Handle, Spread, Broadcast, ConsumePartition, Receive,
              Deliver, Published
<1> QED
  BY <1>1, <1>2, <1>3, OtherSteps

LEMMA WantedNext == TypeOK /\ Wanted /\ [Next]_vars => Wanted'
<1> SUFFICES ASSUME TypeOK, Wanted, [Next]_vars
             PROVE  Wanted'
  OBVIOUS
<1> DEFINE H == [event : Events, to : SUBSET Listeners]
           Mine(s, h) == \A l \in h.to : ListenerAt[l] = s /\ h.event \in Wants[l]
<1>0. channel \in [Listeners -> Seq(Events)] /\ handling \in [Servers -> Seq(H)]
  BY DEF TypeOK
<1>1. CASE UNCHANGED <<channel, handling>>
  BY <1>1 DEF Wanted
<1>2. ASSUME NEW s \in Servers, Restart(s) PROVE Wanted'
  <2>1. /\ channel' = [l \in Listeners |-> IF ListenerAt[l] = s THEN <<>> ELSE channel[l]]
        /\ handling' = [handling EXCEPT ![s] = <<>>]
    BY <1>2 DEF Restart
  <2>2. ToSet(<<>>) = {}
    BY EmptyFacts
  <2>3. \A l \in Listeners : channel'[l] = <<>> \/ channel'[l] = channel[l]
    BY <2>1
  <2>4. \A t \in Servers : handling'[t] = <<>> \/ handling'[t] = handling[t]
    BY <1>0, <2>1
  <2> QED
    BY <2>2, <2>3, <2>4 DEF Wanted
<1>3. ASSUME NEW k \in Listeners, Deliver(k) PROVE Wanted'
  <2>1. /\ channel[k] # <<>> /\ channel' = [channel EXCEPT ![k] = Tail(@)]
        /\ handling' = handling
    BY <1>3 DEF Deliver
  <2>2. /\ channel'[k] = Tail(channel[k]) /\ channel[k] \in Seq(Events)
        /\ \A l \in Listeners \ {k} : channel'[l] = channel[l]
    BY <1>0, <2>1
  <2>3. ToSet(channel'[k]) \subseteq ToSet(channel[k])
    BY <2>1, <2>2, QueueSets
  <2> QED
    BY <2>1, <2>2, <2>3 DEF Wanted
<1>4. ASSUME NEW s \in Servers, Handle(s) PROVE Wanted'
  <2> DEFINE x == Head(IF kafka THEN sub[s] ELSE pub[s])
             h == [event |-> x, to |-> ListenersOf(s, x)]
  <2>1. channel' = channel /\
        (handling' = handling \/ handling' = [handling EXCEPT ![s] = Append(@, h)])
    <3>1. CASE ListenersOf(s, x) = {}
      <4>1. handling' = [handling EXCEPT ![s] = @] /\ channel' = channel
        BY <1>4, <3>1 DEF Handle
      <4> QED
        BY <1>0, <4>1
    <3>2. CASE ListenersOf(s, x) # {}
      BY <1>4, <3>2 DEF Handle
    <3> QED
      BY <3>1, <3>2
  <2>2. h \in H
    <3>1. (kafka => sub[s] # <<>>) /\ (~kafka => pub[s] # <<>>)
      BY <1>4 DEF Handle
    <3>2. sub[s] \in Seq(Events) /\ pub[s] \in Seq(Events)
      BY DEF TypeOK
    <3>3. x \in Events
      BY <3>1, <3>2, QueueSets
    <3> HIDE DEF x
    <3> QED
      BY <3>3 DEF ListenersOf, TypeOK
  <2>3. Mine(s, h)
    BY DEF ListenersOf
  <2>4. CASE handling' = [handling EXCEPT ![s] = Append(@, h)]
    <3> HIDE DEF h
    <3>1. /\ handling'[s] = Append(handling[s], h) /\ handling[s] \in Seq(H)
          /\ \A t \in Servers \ {s} : handling'[t] = handling[t]
      BY <1>0, <2>4
    <3> HIDE DEF H
    <3>2. ToSet(handling'[s]) = ToSet(handling[s]) \cup {h}
      BY <2>2, <3>1, QueueSets
    <3> QED
      BY <2>1, <2>3, <3>1, <3>2 DEF Wanted
  <2> QED
    BY <1>1, <2>1, <2>4
<1>5. ASSUME NEW s \in Servers, NEW i \in DOMAIN handling[s], NEW k \in handling[s][i].to,
             Broadcast(s, i, k)
      PROVE  Wanted'
  <2> DEFINE h == handling[s][i]
             g == [h EXCEPT !.to = @ \ {k}]
  <2>1. handling[s] \in Seq(H) /\ h \in ToSet(handling[s]) /\ h \in H /\ k \in Listeners
    <3>1. handling[s] \in Seq(H)
      BY <1>0
    <3>2. h \in H /\ h \in ToSet(handling[s])
      <4> HIDE DEF H
      <4> QED
        BY <3>1, SeqFacts DEF ToSet
    <3> QED
      BY <3>1, <3>2
  <2>2. Mine(s, h) /\ h.event \in Wants[k] /\ h.event \in Events
    BY <2>1 DEF Wanted
  <2>3. /\ channel' = [channel EXCEPT ![k] = Append(@, h.event)]
        /\ \/ handling' = [handling EXCEPT ![s] = RemoveAt(@, i)]
           \/ handling' = [handling EXCEPT ![s] = ReplaceAt(@, i, g)]
    BY <1>5 DEF Broadcast
  <2>4. g \in H /\ Mine(s, g)
    BY <2>1, <2>2
  <2> HIDE DEF g, h
  <2>5. \A l \in Listeners : ToSet(channel'[l]) \subseteq Wants[l]
    <3>1. /\ channel'[k] = Append(channel[k], h.event) /\ channel[k] \in Seq(Events)
          /\ \A l \in Listeners \ {k} : channel'[l] = channel[l]
      BY <1>0, <2>1, <2>3
    <3>2. ToSet(channel'[k]) = ToSet(channel[k]) \cup {h.event}
      BY <2>2, <3>1, QueueSets
    <3>3. \A l \in Listeners : ToSet(channel[l]) \subseteq Wants[l]
      BY DEF Wanted
    <3> QED
      BY <2>2, <3>1, <3>2, <3>3
  <2>6. ToSet(handling'[s]) \subseteq ToSet(handling[s]) \cup {g}
    <3> HIDE DEF H
    <3>1. ToSet(RemoveAt(handling[s], i)) \subseteq ToSet(handling[s])
      BY <2>1, RemoveAtFacts
    <3>2. ToSet(ReplaceAt(handling[s], i, g)) \subseteq ToSet(handling[s]) \cup {g}
      BY <2>1 DEF ToSet, ReplaceAt
    <3>3. \/ handling'[s] = RemoveAt(handling[s], i)
          \/ handling'[s] = ReplaceAt(handling[s], i, g)
      BY <1>0, <2>3
    <3> QED
      BY <3>1, <3>2, <3>3
  <2>7. \A t \in Servers \ {s} : handling'[t] = handling[t]
    BY <1>0, <2>3
  <2> QED
    BY <2>4, <2>5, <2>6, <2>7 DEF Wanted
<1>6. ASSUME \/ \E s \in Servers : \/ TakePub(s) \/ Input(s)
                                   \/ \E outcome \in {"once", "twice", "lost"} : Transmit(s, outcome)
                                   \/ \E p \in Partitions : ConsumePartition(s, p) \/ Receive(s, p)
             \/ \E e \in Events : Published(e)
      PROVE  UNCHANGED <<channel, handling>>
  BY <1>6, Zenon DEF TakePub, Input, Transmit, ConsumePartition, Receive, Published
<1> QED
  BY <1>1, <1>2, <1>3, <1>4, <1>5, <1>6, OtherSteps DEF Spread

-----------------------------------------------------------------------------
(* No event is written to the topic more often than it was sent.           *)

Is(x, e) == IF x = e THEN 1 ELSE 0

LEMMA IsFacts ==
  ASSUME NEW x, NEW e
  PROVE  Is(x, e) \in Nat /\ (x = e => Is(x, e) = 1) /\ (x # e => Is(x, e) = 0)
  BY DEF Is

LEMMA CountFacts ==
  ASSUME NEW S, NEW q \in Seq(S), NEW e
  PROVE  /\ Count(q, e) \in Nat /\ Count(<<>>, e) = 0
         /\ \A x \in S : Count(Append(q, x), e) = Count(q, e) + Is(x, e)
         /\ q # <<>> => /\ Tail(q) \in Seq(S) /\ Count(Tail(q), e) \in Nat
                        /\ Count(q, e) = Count(Tail(q), e) + Is(Head(q), e)
<1>1. \A r : Count(r, e) = Cardinality(Places(r, e))
  BY DEF Count, Places
<1>2. q # <<>> => Tail(q) \in Seq(S) /\ Cardinality(Places(Tail(q), e)) \in Nat
  <2> SUFFICES ASSUME q # <<>> PROVE Tail(q) \in Seq(S) /\ Cardinality(Places(Tail(q), e)) \in Nat
    OBVIOUS
  <2>1. Tail(q) \in Seq(S)
    BY TailFacts
  <2> QED
    BY <2>1, CountType
<1> QED
  BY <1>1, <1>2, CountType, CountEmpty, CountAppend, CountTail DEF Is

LEMMA CountSame ==
  ASSUME NEW S, NEW q \in Seq(S), NEW e \in S
  PROVE  /\ Count(Append(q, e), e) = Count(q, e) + 1
         /\ q # <<>> /\ Head(q) = e => Count(q, e) = Count(Tail(q), e) + 1
<1>1. Is(e, e) = 1
  BY IsFacts
<1>2. Count(Append(q, e), e) = Count(q, e) + Is(e, e)
  BY CountFacts
<1>3. q # <<>> => Count(q, e) = Count(Tail(q), e) + Is(Head(q), e)
  BY CountFacts
<1> QED
  BY <1>1, <1>2, <1>3

LEMMA CountOther ==
  ASSUME NEW S, NEW q \in Seq(S), NEW e, NEW x \in S, x # e
  PROVE  /\ Count(Append(q, x), e) = Count(q, e)
         /\ q # <<>> /\ Head(q) = x => Count(q, e) = Count(Tail(q), e)
<1>1. Is(x, e) = 0
  BY IsFacts
<1>2. Count(Append(q, x), e) = Count(q, e) + Is(x, e) /\ Count(q, e) \in Nat
  BY CountFacts
<1>3. q # <<>> => Count(q, e) = Count(Tail(q), e) + Is(Head(q), e) /\ Count(Tail(q), e) \in Nat
  BY CountFacts
<1> QED
  BY <1>1, <1>2, <1>3

LEMMA WrittenTypes ==
  ASSUME TypeOK, NEW e \in Events
  PROVE  LET s == PublisherOf[e] IN
         /\ s \in Servers /\ pub[s] \in Seq(Events) /\ input[s] \in Seq(Events)
         /\ topic[PartitionOf[e]] \in Seq(Events)
         /\ Count(pub[s], e) \in Nat /\ Count(input[s], e) \in Nat
         /\ InTopic(e) \in Nat /\ Queued(e) \in Nat /\ Sent(e) \in Nat
<1> DEFINE s == PublisherOf[e]
<1>1. /\ s \in Servers /\ pub[s] \in Seq(Events) /\ input[s] \in Seq(Events)
      /\ topic[PartitionOf[e]] \in Seq(Events)
  BY DEF TypeOK
<1>2. Count(pub[s], e) \in Nat /\ Count(input[s], e) \in Nat /\ InTopic(e) \in Nat
  BY <1>1, CountFacts DEF InTopic
<1>3. Queued(e) \in Nat
  <2>1. Is(sending[s], e) \in Nat
    BY IsFacts
  <2> HIDE DEF s
  <2> QED
    BY <1>2, <2>1 DEF Queued, s, Is
<1>4. Sent(e) \in Nat
  BY DEF Sent, TypeOK
<1> QED
  BY <1>1, <1>2, <1>3, <1>4

Written == \A e \in Events : InTopic(e) \in Nat /\ Queued(e) \in Nat /\ Sent(e) \in Nat

LEMMA WrittenCounts == TypeOK => Written
  BY WrittenTypes DEF Written

LEMMA WrittenCountsNext == TypeOK' => Written'
  BY WrittenCounts, PTL

\* What is not in the topic any more often than before, for all that was sent.
LEMMA WrittenNext ==
  ASSUME TypeOK, TypeOK', AtPublisher, [Next]_vars, kafka, NEW e \in Events
  PROVE  InTopic(e)' + Queued(e)' + Sent(e) <= InTopic(e) + Queued(e) + Sent(e)'
<1> DEFINE s == PublisherOf[e]
           Goal == InTopic(e)' + Queued(e)' + Sent(e) <= InTopic(e) + Queued(e) + Sent(e)'
<1>0. /\ s \in Servers /\ pub[s] \in Seq(Events) /\ input[s] \in Seq(Events)
      /\ Count(pub[s], e) \in Nat /\ Count(input[s], e) \in Nat
      /\ InTopic(e) \in Nat /\ Queued(e) \in Nat /\ Sent(e) \in Nat
      /\ Count(pub'[s], e) \in Nat /\ Count(input'[s], e) \in Nat
      /\ InTopic(e)' \in Nat /\ Queued(e)' \in Nat /\ Sent(e)' \in Nat
  <2>1. /\ s \in Servers /\ pub[s] \in Seq(Events) /\ input[s] \in Seq(Events)
        /\ Count(pub[s], e) \in Nat /\ Count(input[s], e) \in Nat
        /\ InTopic(e) \in Nat /\ Queued(e) \in Nat /\ Sent(e) \in Nat
    BY WrittenTypes
  <2>2. pub'[s] \in Seq(Events) /\ input'[s] \in Seq(Events) /\ topic'[PartitionOf[e]] \in Seq(Events)
    BY <2>1 DEF TypeOK
  <2>3. Count(pub'[s], e) \in Nat /\ Count(input'[s], e) \in Nat /\ Count(topic'[PartitionOf[e]], e) \in Nat
    BY <2>2, CountFacts
  <2>4. Is(sending'[s], e) \in Nat
    BY IsFacts
  <2>5. Sent(e)' \in Nat
    BY DEF Sent, TypeOK
  <2>6. Queued(e)' = Count(pub'[s], e) + Count(input'[s], e) + Is(sending'[s], e)
    BY DEF Queued, Count, Is
  <2>7. InTopic(e)' = Count(topic'[PartitionOf[e]], e)
    BY DEF InTopic, Count
  <2>8. Queued(e)' \in Nat /\ InTopic(e)' \in Nat
    BY <2>3, <2>4, <2>6, <2>7
  <2> HIDE DEF s
  <2> QED
    BY <2>1, <2>3, <2>5, <2>8
<1>q. /\ Queued(e) = Count(pub[s], e) + Count(input[s], e) + Is(sending[s], e)
      /\ Queued(e)' = Count(pub'[s], e) + Count(input'[s], e) + Is(sending'[s], e)
      /\ InTopic(e) = Count(topic[PartitionOf[e]], e)
      /\ InTopic(e)' = Count(topic'[PartitionOf[e]], e)
  BY DEF Queued, InTopic, Count, Is
<1> HIDE DEF s
<1>1. ASSUME pub'[s] = pub[s], input'[s] = input[s], sending'[s] = sending[s],
             topic'[PartitionOf[e]] = topic[PartitionOf[e]], Sent(e)' = Sent(e)
      PROVE  Goal
  BY <1>0, <1>1, <1>q
<1>2. CASE UNCHANGED <<pub, input, sending, published, topic, repeats>>
  BY <1>1, <1>2 DEF Sent
<1>3. ASSUME NEW t \in Servers, Restart(t) PROVE Goal
  <2>1. /\ pub' = [pub EXCEPT ![t] = <<>>] /\ input' = [input EXCEPT ![t] = <<>>]
        /\ sending' = [sending EXCEPT ![t] = None] /\ UNCHANGED <<published, repeats, topic>>
    BY <1>3 DEF Restart
  <2>2. Sent(e)' = Sent(e)
    BY <2>1 DEF Sent
  <2>3. CASE t # s
    <3>1. pub'[s] = pub[s] /\ input'[s] = input[s] /\ sending'[s] = sending[s]
      BY <1>0, <2>1, <2>3 DEF TypeOK
    <3> QED
      BY <1>1, <2>1, <2>2, <3>1
  <2>4. CASE t = s
    <3>1. pub'[s] = <<>> /\ input'[s] = <<>> /\ sending'[s] # e
      BY <1>0, <2>1, <2>4 DEF TypeOK
    <3>2. Queued(e)' = 0
      <4>1. Count(<<>>, e) = 0
        BY <1>0, CountFacts
      <4>2. Is(sending'[s], e) = 0
        BY <3>1, IsFacts
      <4> QED
        BY <1>q, <3>1, <4>1, <4>2
    <3>3. InTopic(e)' = InTopic(e)
      BY <1>q, <2>1
    <3> QED
      BY <1>0, <2>2, <3>2, <3>3
  <2> QED
    BY <2>3, <2>4
<1>4. ASSUME NEW x \in Events, Published(x) PROVE Goal
  <2>1. /\ pub' = [pub EXCEPT ![PublisherOf[x]] = Append(@, x)]
        /\ UNCHANGED <<input, sending, repeats, topic>>
        /\ published' = published \cup {x} /\ x \in publishing
    BY <1>4 DEF Published, producer
  <2>2. x \notin published
    BY <2>1 DEF TypeOK
  <2>3. CASE x = e
    <3>1. pub'[s] = Append(pub[s], e)
      BY <1>0, <2>1, <2>3 DEF TypeOK, s
    <3>2. Count(pub'[s], e) = Count(pub[s], e) + 1
      BY <1>0, <3>1, CountSame
    <3>3. Sent(e) = 0 /\ Sent(e)' >= 1
      <4>1. repeats'[e] \in Nat /\ e \notin published /\ e \in published'
        BY <2>1, <2>2, <2>3 DEF TypeOK
      <4> QED
        BY <4>1 DEF Sent
    <3>4. Queued(e)' = Queued(e) + 1 /\ InTopic(e)' = InTopic(e)
      <4>1. Is(sending[s], e) \in Nat
        BY IsFacts
      <4> QED
        BY <1>0, <1>q, <2>1, <3>2, <4>1
    <3> QED
      BY <1>0, <3>3, <3>4
  <2>4. CASE x # e
    <3>1. Sent(e)' = Sent(e)
      BY <2>1, <2>4 DEF Sent
    <3>2. pub'[s] = Append(pub[s], x) \/ pub'[s] = pub[s]
      BY <1>0, <2>1 DEF TypeOK
    <3>3. Count(pub'[s], e) = Count(pub[s], e)
      <4>1. Count(Append(pub[s], x), e) = Count(pub[s], e)
        <5> DEFINE q == pub[s]
        <5>1. q \in Seq(Events)
          BY <1>0
        <5> HIDE DEF q
        <5>2. x \in Events /\ x # e
          BY <1>4, <2>4
        <5>3. Count(Append(q, x), e) = Count(q, e)
          BY <5>1, <5>2, CountOther
        <5> QED
          BY <5>3 DEF q
      <4> QED
        BY <3>2, <4>1
    <3>4. Queued(e)' = Queued(e) /\ InTopic(e)' = InTopic(e)
      BY <1>0, <1>q, <2>1, <3>3
    <3> QED
      BY <1>0, <3>1, <3>4
  <2> QED
    BY <2>3, <2>4
<1>5. ASSUME NEW t \in Servers, TakePub(t) PROVE Goal
  <2>1. /\ pub[t] # <<>> /\ pub' = [pub EXCEPT ![t] = Tail(@)]
        /\ sending' = [sending EXCEPT ![t] = Head(pub[t])] /\ sending[t] = None
        /\ UNCHANGED <<input, published, topic, repeats>>
    BY <1>5 DEF TakePub
  <2>2. Sent(e)' = Sent(e) /\ InTopic(e)' = InTopic(e)
    BY <2>1 DEF Sent, InTopic, Count
  <2>3. CASE t # s
    <3>1. pub'[s] = pub[s] /\ input'[s] = input[s] /\ sending'[s] = sending[s]
      BY <1>0, <2>1, <2>3 DEF TypeOK
    <3> QED
      BY <1>1, <2>1, <2>2, <3>1
  <2>4. CASE t = s
    <3>1. /\ pub'[s] = Tail(pub[s]) /\ sending'[s] = Head(pub[s]) /\ sending[s] # e
          /\ pub[s] # <<>>
      BY <1>0, <2>1, <2>4 DEF TypeOK
    <3>2. Count(pub[s], e) = Count(pub'[s], e) + Is(sending'[s], e)
      BY <1>0, <3>1, CountFacts
    <3>3. Queued(e)' = Queued(e)
      <4>1. Is(sending[s], e) = 0 /\ Is(sending'[s], e) \in Nat
        BY <3>1, IsFacts
      <4>2. input'[s] = input[s]
        BY <2>1
      <4>3. \A p, i, c \in Nat : (p + c) + i + 0 = p + i + c /\ p + (i + c) + 0 = p + i + c
        OBVIOUS
      <4> QED
        BY <1>0, <1>q, <3>2, <4>1, <4>2, <4>3
    <3> QED
      BY <1>0, <2>2, <3>3
  <2> QED
    BY <2>3, <2>4
<1>6. ASSUME NEW t \in Servers, Input(t) PROVE Goal
  <2>1. /\ sending[t] # None /\ input' = [input EXCEPT ![t] = Append(@, sending[t])]
        /\ sending' = [sending EXCEPT ![t] = None]
        /\ UNCHANGED <<pub, published, topic, repeats>>
    BY <1>6 DEF Input
  <2>2. Sent(e)' = Sent(e) /\ InTopic(e)' = InTopic(e)
    BY <2>1 DEF Sent, InTopic, Count
  <2>3. CASE t # s
    <3>1. pub'[s] = pub[s] /\ input'[s] = input[s] /\ sending'[s] = sending[s]
      BY <1>0, <2>1, <2>3 DEF TypeOK
    <3> QED
      BY <1>1, <2>1, <2>2, <3>1
  <2>4. CASE t = s
    <3>1. /\ input'[s] = Append(input[s], sending[s]) /\ sending'[s] # e
          /\ sending[s] \in Events
      BY <1>0, <2>1, <2>4 DEF TypeOK
    <3>2. Count(input'[s], e) = Count(input[s], e) + Is(sending[s], e)
      BY <1>0, <3>1, CountFacts
    <3>3. Queued(e)' = Queued(e)
      <4>1. Is(sending'[s], e) = 0 /\ Is(sending[s], e) \in Nat
        BY <3>1, IsFacts
      <4>2. pub'[s] = pub[s]
        BY <2>1
      <4>3. \A p, i, c \in Nat : (p + c) + i + 0 = p + i + c /\ p + (i + c) + 0 = p + i + c
        OBVIOUS
      <4> QED
        BY <1>0, <1>q, <3>2, <4>1, <4>2, <4>3
    <3> QED
      BY <1>0, <2>2, <3>3
  <2> QED
    BY <2>3, <2>4
<1>7. ASSUME NEW t \in Servers, NEW outcome \in {"once", "twice", "lost"}, Transmit(t, outcome)
      PROVE  Goal
  <2>1. PICK x : x = Head(input[t])
    OBVIOUS
  <2>2. /\ input[t] # <<>> /\ input' = [input EXCEPT ![t] = Tail(@)]
        /\ UNCHANGED <<pub, sending, published>>
        /\ \/ outcome \in {"once", "lost"} /\ repeats' = repeats
           \/ outcome = "twice" /\ repeats' = [repeats EXCEPT ![x] = @ + 1]
    BY <1>7, <2>1, TransmitParts
  <2>3. /\ x \in Events /\ topic[PartitionOf[x]] \in Seq(Events)
        /\ \A p \in Partitions \ {PartitionOf[x]} : topic'[p] = topic[p]
        /\ \/ outcome = "once" /\ topic'[PartitionOf[x]] = Append(topic[PartitionOf[x]], x)
           \/ outcome = "twice" /\ topic'[PartitionOf[x]] = Append(Append(topic[PartitionOf[x]], x), x)
           \/ outcome = "lost" /\ topic'[PartitionOf[x]] = topic[PartitionOf[x]]
    BY <1>7, <2>1, TopicNext, Zenon
  <2>4. PublisherOf[x] = t /\ x \in published
    <3>1. input[t] \in Seq(Events)
      BY DEF TypeOK
    <3>2. x \in ToSet(input[t])
      BY <2>1, <2>2, <3>1, QueueSets
    <3> QED
      BY <2>3, <3>2 DEF AtPublisher
  <2>5. CASE x = e
    <3> DEFINE q == topic[PartitionOf[e]]
    <3>1. t = s /\ input'[s] = Tail(input[s]) /\ input[s] # <<>> /\ Head(input[s]) = e
      BY <1>0, <2>1, <2>2, <2>4, <2>5 DEF TypeOK, s
    <3>2. Count(input[s], e) = Count(input'[s], e) + 1
      BY <1>0, <3>1, CountSame
    <3>3. Queued(e) = Queued(e)' + 1
      <4>1. Is(sending[s], e) \in Nat
        BY IsFacts
      <4> QED
        BY <1>0, <1>q, <2>2, <3>2, <4>1
    <3>4. q \in Seq(Events) /\ InTopic(e) = Count(q, e)
      BY <1>q, <2>3, <2>5
    <3>5. Append(q, e) \in Seq(Events)
      <4> HIDE DEF q
      <4> QED
        BY <3>4, AppendFacts
    <3>6. Count(Append(q, e), e) = InTopic(e) + 1
      <4> HIDE DEF q
      <4> QED
        BY <3>4, CountSame
    <3>7. Count(Append(Append(q, e), e), e) = InTopic(e) + 2
      <4> HIDE DEF q
      <4>1. Count(Append(Append(q, e), e), e) = Count(Append(q, e), e) + 1
        BY <3>5, CountSame
      <4> QED
        BY <1>0, <3>6, <4>1
    <3>8. CASE outcome = "twice"
      <4>1. InTopic(e)' = InTopic(e) + 2
        BY <1>q, <2>3, <2>5, <3>7, <3>8
      <4>2. Sent(e)' = Sent(e) + 1
        BY <2>2, <2>4, <2>5, <3>8 DEF Sent, TypeOK
      <4> QED
        BY <1>0, <3>3, <4>1, <4>2
    <3>9. CASE outcome # "twice"
      <4>1. InTopic(e)' = InTopic(e) + 1 \/ InTopic(e)' = InTopic(e)
        BY <1>q, <2>3, <2>5, <3>6, <3>9
      <4>2. Sent(e)' = Sent(e)
        BY <2>2, <3>9 DEF Sent
      <4> QED
        BY <1>0, <3>3, <4>1, <4>2
    <3> QED
      BY <3>8, <3>9
  <2>6. CASE x # e
    <3> DEFINE q == topic[PartitionOf[x]]
    <3>1. InTopic(e)' = InTopic(e)
      <4>1. CASE PartitionOf[e] # PartitionOf[x]
        BY <1>q, <2>3, <4>1
      <4>2. CASE PartitionOf[e] = PartitionOf[x]
        <5>1. q \in Seq(Events) /\ InTopic(e) = Count(q, e)
          BY <1>q, <2>3, <4>2
        <5>2. Append(q, x) \in Seq(Events) /\ Count(Append(q, x), e) = Count(q, e)
          <6> HIDE DEF q
          <6>1. Append(q, x) \in Seq(Events)
            BY <2>3, <5>1, AppendFacts
          <6>2. Count(Append(q, x), e) = Count(q, e)
            BY <2>3, <2>6, <5>1, CountOther
          <6> QED
            BY <6>1, <6>2
        <5>3. Count(Append(Append(q, x), x), e) = Count(q, e)
          <6> HIDE DEF q
          <6>1. Count(Append(Append(q, x), x), e) = Count(Append(q, x), e)
            <7> DEFINE a == Append(q, x)
            <7>1. a \in Seq(Events) /\ x \in Events
              BY <2>3, <5>2
            <7> HIDE DEF a
            <7>2. Count(Append(a, x), e) = Count(a, e)
              BY <2>6, <7>1, CountOther
            <7> QED
              BY <7>2 DEF a
          <6> QED
            BY <5>2, <6>1
        <5> QED
          BY <1>q, <2>3, <4>2, <5>1, <5>2, <5>3
      <4> QED
        BY <4>1, <4>2
    <3>2. Sent(e)' = Sent(e)
      BY <2>2, <2>6 DEF Sent, TypeOK
    <3>3. Count(input'[s], e) = Count(input[s], e)
      <4>1. CASE t # s
        <5>1. input'[s] = input[s]
          BY <1>0, <2>2, <4>1 DEF TypeOK
        <5> QED
          BY <5>1
      <4>2. CASE t = s
        <5>1. input'[s] = Tail(input[s]) /\ input[s] # <<>> /\ Head(input[s]) = x
          BY <1>0, <2>1, <2>2, <4>2 DEF TypeOK
        <5> QED
          <6> DEFINE u == input[s]
          <6>1. u \in Seq(Events) /\ u # <<>> /\ Head(u) = x /\ input'[s] = Tail(u)
            BY <1>0, <5>1
          <6> HIDE DEF u
          <6>2. Count(u, e) = Count(Tail(u), e)
            BY <2>3, <2>6, <6>1, CountOther
          <6> QED
            BY <6>1, <6>2 DEF u
      <4> QED
        BY <4>1, <4>2
    <3>4. Queued(e)' = Queued(e)
      BY <1>0, <1>q, <2>2, <3>3
    <3> QED
      BY <1>0, <3>1, <3>2, <3>4
  <2> QED
    BY <2>5, <2>6
<1>8. ASSUME \/ \E t \in Servers : Spread(t) \/ \E p \in Partitions : ConsumePartition(t, p) \/ Receive(t, p)
             \/ \E l \in Listeners : Deliver(l)
      PROVE  UNCHANGED <<pub, input, sending, published, topic, repeats>>
  BY <1>8 DEF Spread, Broadcast, ConsumePartition, Receive, Deliver, producer
<1>9. ASSUME NEW t \in Servers, Handle(t)
      PROVE  UNCHANGED <<pub, input, sending, published, topic, repeats>>
  BY <1>9 DEF Handle, producer
<1> QED
  BY <1>2, <1>3, <1>4, <1>5, <1>6, <1>7, <1>8, <1>9, OtherSteps

-----------------------------------------------------------------------------
(* None comes to a listener more often than it is in the topic, or, without *)
(* Kafka, than it was sent.                                                 *)

Task == [event : Events, to : SUBSET Listeners]
TaskFor(l, e) == {h \in Task : h.event = e /\ l \in h.to}
Later(q, n, e) == {i \in DOMAIN q : i > n /\ q[i] = e}

\* What server s has yet to look at, and what all servers can have seen.
Coming(s, e) ==
  IF kafka THEN Count(sub[s], e) + Cardinality(Ahead(s, e)) ELSE Count(pub[s], e)
There(e) == IF kafka THEN InTopic(e) ELSE Sent(e)

\* Positions of an event after the n-th.
LEMMA LaterFacts ==
  ASSUME NEW S, NEW q \in Seq(S), NEW n \in Nat, NEW e
  PROVE  /\ IsFiniteSet(Later(q, n, e)) /\ Cardinality(Later(q, n, e)) \in Nat
         /\ n = Len(q) => Later(q, n, e) = {}
         /\ \A x \in S : Cardinality(Later(Append(q, x), n, e)) <=
                           Cardinality(Later(q, n, e)) + Is(x, e)
         /\ n < Len(q) => Cardinality(Later(q, n, e)) =
                            Cardinality(Later(q, n + 1, e)) + Is(q[n + 1], e)
<1> DEFINE L == Later(q, n, e)
<1>1. DOMAIN q = 1 .. Len(q) /\ Len(q) \in Nat
  BY SeqFacts
<1>2. \A k \in Nat : IsFiniteSet(Later(q, k, e)) /\ Cardinality(Later(q, k, e)) \in Nat
  <2> SUFFICES ASSUME NEW k \in Nat
               PROVE  IsFiniteSet(Later(q, k, e)) /\ Cardinality(Later(q, k, e)) \in Nat
    OBVIOUS
  <2>1. IsFiniteSet(1 .. Len(q)) /\ Later(q, k, e) \subseteq 1 .. Len(q)
    BY <1>1, FS_Interval DEF Later
  <2> QED
    BY <2>1, FS_Subset, FS_CardinalityType
<1>3. n = Len(q) => L = {}
  BY <1>1 DEF Later
<1>4. ASSUME NEW x \in S
      PROVE  Cardinality(Later(Append(q, x), n, e)) <= Cardinality(L) + Is(x, e)
  <2> DEFINE m == Len(q) + 1
             a == Append(q, x)
  <2>1. DOMAIN a = DOMAIN q \cup {m} /\ a[m] = x /\ \A i \in DOMAIN q : a[i] = q[i]
    BY AppendFacts
  <2>2. Later(a, n, e) \subseteq L \cup {m} /\ (x # e => Later(a, n, e) \subseteq L)
    <3> HIDE DEF a, m
    <3> QED
      BY <2>1 DEF Later
  <2> HIDE DEF a, m
  <2>3. IsFiniteSet(L) /\ Cardinality(L) \in Nat
    BY <1>2
  <2> HIDE DEF L
  <2>4. IsFiniteSet(L \cup {m}) /\ Cardinality(L \cup {m}) <= Cardinality(L) + 1
    BY <2>3, FS_AddElement
  <2>5. CASE x = e
    <3>1. /\ Cardinality(Later(a, n, e)) <= Cardinality(L \cup {m})
          /\ Cardinality(Later(a, n, e)) \in Nat /\ Cardinality(L \cup {m}) \in Nat
      BY <2>2, <2>4, FS_Subset, FS_CardinalityType
    <3>2. Is(x, e) = 1
      BY <2>5, IsFacts
    <3>3. Cardinality(Later(a, n, e)) <= Cardinality(L) + Is(x, e)
      BY <2>3, <2>4, <3>1, <3>2
    <3> QED
      BY <3>3 DEF a
  <2>6. CASE x # e
    <3>1. Cardinality(Later(a, n, e)) <= Cardinality(L)
      BY <2>2, <2>3, <2>6, FS_Subset
    <3>2. Is(x, e) = 0
      BY <2>6, IsFacts
    <3>3. Cardinality(Later(a, n, e)) <= Cardinality(L) + Is(x, e)
      BY <2>3, <3>1, <3>2
    <3> QED
      BY <3>3 DEF a
  <2> QED
    BY <2>5, <2>6
<1>5. ASSUME n < Len(q)
      PROVE  Cardinality(L) = Cardinality(Later(q, n + 1, e)) + Is(q[n + 1], e)
  <2> DEFINE m == n + 1
             K == Later(q, m, e)
  <2>1. m \in DOMAIN q /\ m \notin K /\ m \in Nat
    BY <1>1, <1>5 DEF Later
  <2>2. IsFiniteSet(K) /\ Cardinality(K) \in Nat
    BY <1>2, <2>1
  <2>3. L = IF q[m] = e THEN K \cup {m} ELSE K
    <3>1. \A i \in DOMAIN q : i > n <=> i > m \/ i = m
      BY <1>1
    <3> HIDE DEF m
    <3> QED
      BY <2>1, <3>1 DEF Later, m
  <2> HIDE DEF m, K, L
  <2>4. CASE q[m] = e
    <3>1. Cardinality(L) = Cardinality(K) + 1
      BY <2>1, <2>2, <2>3, <2>4, FS_AddElement
    <3>2. Is(q[m], e) = 1
      BY <2>4, IsFacts
    <3> QED
      BY <3>1, <3>2 DEF m, K
  <2>5. CASE q[m] # e
    <3>1. Is(q[m], e) = 0
      BY <2>5, IsFacts
    <3> QED
      BY <2>2, <2>3, <2>5, <3>1 DEF m, K
  <2> QED
    BY <2>4, <2>5
<1> QED
  BY <1>2, <1>3, <1>4, <1>5

\* Goroutines that will still write e to the channel of l.
LEMMA TaskFacts ==
  ASSUME NEW S, NEW q \in Seq(S), NEW E
  PROVE  /\ Cardinality(PlacesIn(q, E)) \in Nat /\ Cardinality(PlacesIn(<<>>, E)) = 0
         /\ \A h \in S : /\ Append(q, h) \in Seq(S)
                         /\ Cardinality(PlacesIn(Append(q, h), E)) <= Cardinality(PlacesIn(q, E)) + 1
                         /\ h \notin E => Cardinality(PlacesIn(Append(q, h), E)) <= Cardinality(PlacesIn(q, E))
         /\ \A i \in DOMAIN q :
              LET r == RemoveAt(q, i) IN
              /\ Cardinality(PlacesIn(r, E)) <= Cardinality(PlacesIn(q, E))
              /\ q[i] \in E => Cardinality(PlacesIn(r, E)) + 1 <= Cardinality(PlacesIn(q, E))
         /\ \A i \in DOMAIN q, g \in S :
              LET r == ReplaceAt(q, i, g) IN
              /\ (g \in E => q[i] \in E) => Cardinality(PlacesIn(r, E)) <= Cardinality(PlacesIn(q, E))
              /\ g \notin E /\ q[i] \in E =>
                   Cardinality(PlacesIn(r, E)) + 1 <= Cardinality(PlacesIn(q, E))
<1> DEFINE P == PlacesIn(q, E)
<1>1. IsFiniteSet(P) /\ Cardinality(P) \in Nat
  BY PlacesInType
<1>2. Cardinality(PlacesIn(<<>>, E)) = 0
  <2>1. PlacesIn(<<>>, E) = {}
    BY DEF PlacesIn
  <2> QED
    BY <2>1, FS_EmptySet
<1>3. ASSUME NEW h \in S
      PROVE  /\ Append(q, h) \in Seq(S)
             /\ Cardinality(PlacesIn(Append(q, h), E)) <= Cardinality(P) + 1
             /\ h \notin E => Cardinality(PlacesIn(Append(q, h), E)) <= Cardinality(P)
  <2> DEFINE m == Len(q) + 1
             a == Append(q, h)
             A == PlacesIn(a, E)
  <2>1. /\ DOMAIN a = DOMAIN q \cup {m} /\ a[m] = h /\ \A i \in DOMAIN q : a[i] = q[i]
        /\ a \in Seq(S)
    BY AppendFacts
  <2> HIDE DEF a, m
  <2>2. A \subseteq P \cup {m} /\ (h \notin E => A \subseteq P)
    BY <2>1 DEF PlacesIn
  <2> HIDE DEF A, P
  <2>3. /\ IsFiniteSet(P \cup {m}) /\ Cardinality(P \cup {m}) <= Cardinality(P) + 1
        /\ Cardinality(P \cup {m}) \in Nat
    <3>1. IsFiniteSet(P \cup {m}) /\ Cardinality(P \cup {m}) \in {Cardinality(P), Cardinality(P) + 1}
      BY <1>1, FS_AddElement
    <3> QED
      BY <1>1, <3>1
  <2>4. Cardinality(A) <= Cardinality(P \cup {m}) /\ Cardinality(A) \in Nat
    BY <2>2, <2>3, FS_Subset, FS_CardinalityType
  <2>5. Cardinality(A) <= Cardinality(P) + 1
    BY <1>1, <2>3, <2>4
  <2>6. h \notin E => Cardinality(A) <= Cardinality(P)
    BY <1>1, <2>2, FS_Subset
  <2> QED
    BY <2>1, <2>5, <2>6 DEF a, A
<1>4. ASSUME NEW i \in DOMAIN q
      PROVE  LET r == RemoveAt(q, i) IN
             /\ Cardinality(PlacesIn(r, E)) <= Cardinality(P)
             /\ q[i] \in E => Cardinality(PlacesIn(r, E)) + 1 <= Cardinality(P)
  <2> DEFINE r == RemoveAt(q, i)
  <2>1. Cardinality(PlacesIn(r, E)) <= Cardinality(P) - (IF q[i] \in E THEN 1 ELSE 0)
    BY RemoveAtPlaces
  <2>2. Cardinality(PlacesIn(r, E)) \in Nat
    <3>1. r \in Seq(S)
      BY RemoveAtFacts
    <3> HIDE DEF r
    <3> QED
      BY <3>1, PlacesInType
  <2> HIDE DEF r, P
  <2>3. q[i] \in E => Cardinality(PlacesIn(r, E)) + 1 <= Cardinality(P)
    BY <1>1, <2>1, <2>2
  <2>4. Cardinality(PlacesIn(r, E)) <= Cardinality(P)
    BY <1>1, <2>1, <2>2
  <2> QED
    BY <2>3, <2>4 DEF r
<1>5. ASSUME NEW i \in DOMAIN q, NEW g \in S
      PROVE  LET r == ReplaceAt(q, i, g) IN
             /\ (g \in E => q[i] \in E) => Cardinality(PlacesIn(r, E)) <= Cardinality(P)
             /\ g \notin E /\ q[i] \in E => Cardinality(PlacesIn(r, E)) + 1 <= Cardinality(P)
  <2> DEFINE r == ReplaceAt(q, i, g)
             R == PlacesIn(r, E)
  <2>1. DOMAIN r = DOMAIN q /\ r[i] = g /\ \A j \in DOMAIN q \ {i} : r[j] = q[j]
    BY DEF ReplaceAt
  <2> HIDE DEF r
  <2>2. (g \in E => q[i] \in E) => R \subseteq P
    BY <2>1 DEF PlacesIn
  <2>3. g \notin E /\ q[i] \in E => R \subseteq P \ {i} /\ i \in P
    BY <2>1 DEF PlacesIn
  <2> HIDE DEF R, P
  <2>4. (g \in E => q[i] \in E) => Cardinality(R) <= Cardinality(P)
    BY <1>1, <2>2, FS_Subset
  <2>5. g \notin E /\ q[i] \in E => Cardinality(R) + 1 <= Cardinality(P)
    <3> SUFFICES ASSUME g \notin E, q[i] \in E
                 PROVE  Cardinality(R) + 1 <= Cardinality(P)
      OBVIOUS
    <3>1. i \in P /\ R \subseteq P \ {i}
      BY <2>3
    <3>2. IsFiniteSet(P \ {i}) /\ Cardinality(P \ {i}) = Cardinality(P) - 1
      BY <1>1, <3>1, FS_RemoveElement
    <3>3. Cardinality(R) <= Cardinality(P \ {i}) /\ Cardinality(R) \in Nat
      BY <3>1, <3>2, FS_Subset, FS_CardinalityType
    <3> QED
      BY <1>1, <3>2, <3>3
  <2> QED
    BY <2>4, <2>5 DEF r, R
<1> QED
  BY <1>1, <1>2, <1>3, <1>4, <1>5

\* What the counts are made of, and that they are numbers.
Formed ==
  \A l \in Listeners, e \in Events, s \in Servers :
    /\ handling[s] \in Seq(Task) /\ channel[l] \in Seq(Events)
    /\ sub[s] \in Seq(Events) /\ pub[s] \in Seq(Events)
    /\ topic[PartitionOf[e]] \in Seq(Events)
    /\ Tasks(l, e) = PlacesIn(handling[ListenerAt[l]], TaskFor(l, e))
    /\ Ahead(s, e) = IF position[s][PartitionOf[e]] = None THEN {}
                     ELSE Later(topic[PartitionOf[e]], position[s][PartitionOf[e]], e)

LEMMA ReadForm == TypeOK => Formed
<1> SUFFICES ASSUME TypeOK, NEW l \in Listeners, NEW e \in Events, NEW s \in Servers
             PROVE  /\ handling[s] \in Seq(Task) /\ channel[l] \in Seq(Events)
                    /\ sub[s] \in Seq(Events) /\ pub[s] \in Seq(Events)
                    /\ topic[PartitionOf[e]] \in Seq(Events)
                    /\ Tasks(l, e) = PlacesIn(handling[ListenerAt[l]], TaskFor(l, e))
                    /\ Ahead(s, e) = IF position[s][PartitionOf[e]] = None THEN {}
                                     ELSE Later(topic[PartitionOf[e]], position[s][PartitionOf[e]], e)
  BY DEF Formed
<1>1. /\ \A t \in Servers : handling[t] \in Seq(Task)
      /\ channel[l] \in Seq(Events) /\ sub[s] \in Seq(Events) /\ pub[s] \in Seq(Events)
      /\ topic[PartitionOf[e]] \in Seq(Events)
  BY DEF TypeOK, Task
<1>2. Tasks(l, e) = PlacesIn(handling[ListenerAt[l]], TaskFor(l, e))
  <2> DEFINE q == handling[ListenerAt[l]]
  <2>1. q \in Seq(Task)
    BY <1>1
  <2>2. \A i \in DOMAIN q : q[i] \in Task
    <3> HIDE DEF q
    <3> QED
      BY <2>1, SeqFacts
  <2> QED
    BY <2>2 DEF Tasks, PlacesIn, TaskFor
<1>3. Ahead(s, e) = IF position[s][PartitionOf[e]] = None THEN {}
                    ELSE Later(topic[PartitionOf[e]], position[s][PartitionOf[e]], e)
  BY DEF Ahead, Later
<1> QED
  BY <1>1, <1>2, <1>3

Counted ==
  \A l \in Listeners, e \in Events, s \in Servers :
    /\ delivered[l][e] \in Nat /\ Count(channel[l], e) \in Nat
    /\ Cardinality(Tasks(l, e)) \in Nat /\ Arrived(l, e) \in Nat
    /\ Count(sub[s], e) \in Nat /\ Cardinality(Ahead(s, e)) \in Nat /\ Count(pub[s], e) \in Nat
    /\ Coming(s, e) \in Nat /\ InTopic(e) \in Nat /\ Sent(e) \in Nat /\ There(e) \in Nat

LEMMA ReadTypes == TypeOK => Counted
<1> SUFFICES ASSUME TypeOK, NEW l \in Listeners, NEW e \in Events, NEW s \in Servers
             PROVE  /\ delivered[l][e] \in Nat /\ Count(channel[l], e) \in Nat
                    /\ Cardinality(Tasks(l, e)) \in Nat /\ Arrived(l, e) \in Nat
                    /\ Count(sub[s], e) \in Nat /\ Cardinality(Ahead(s, e)) \in Nat
                    /\ Count(pub[s], e) \in Nat
                    /\ Coming(s, e) \in Nat /\ InTopic(e) \in Nat /\ Sent(e) \in Nat
                    /\ There(e) \in Nat
  BY DEF Counted
<1>0. /\ channel[l] \in Seq(Events) /\ sub[s] \in Seq(Events) /\ pub[s] \in Seq(Events)
      /\ topic[PartitionOf[e]] \in Seq(Events) /\ ListenerAt[l] \in Servers
  BY ReadForm DEF Formed
<1>1. delivered[l][e] \in Nat /\ Sent(e) \in Nat /\ InTopic(e) \in Nat
  <2>1. delivered[l][e] \in Nat
    BY DEF TypeOK
  <2> QED
    BY <2>1, WrittenTypes
<1>2. Count(channel[l], e) \in Nat /\ Count(sub[s], e) \in Nat /\ Count(pub[s], e) \in Nat
  BY <1>0, CountFacts
<1>3. Cardinality(Tasks(l, e)) \in Nat
  <2> DEFINE q == handling[ListenerAt[l]]
  <2>1. q \in Seq(Task) /\ Tasks(l, e) = PlacesIn(q, TaskFor(l, e))
    BY <1>0, ReadForm DEF Formed
  <2> HIDE DEF q
  <2> QED
    BY <2>1, PlacesInType
<1>4. Cardinality(Ahead(s, e)) \in Nat
  <2> DEFINE q == topic[PartitionOf[e]]
             n == position[s][PartitionOf[e]]
  <2>1. Ahead(s, e) = IF n = None THEN {} ELSE Later(q, n, e)
    BY ReadForm DEF Formed
  <2>2. n # None => n \in Nat
    BY DEF TypeOK
  <2>3. q \in Seq(Events)
    BY <1>0
  <2> HIDE DEF q, n
  <2>4. CASE n = None
    BY <2>1, <2>4, FS_EmptySet
  <2>5. CASE n # None
    BY <2>1, <2>2, <2>3, <2>5, LaterFacts
  <2> QED
    BY <2>4, <2>5
<1>5. Arrived(l, e) \in Nat
  BY <1>1, <1>2, <1>3 DEF Arrived
<1>6. Coming(s, e) \in Nat /\ There(e) \in Nat
  BY <1>1, <1>2, <1>4 DEF Coming, There
<1> QED
  BY <1>1, <1>2, <1>3, <1>4, <1>5, <1>6

LEMMA ReadTypesNext == TypeOK' => Counted'
  BY ReadTypes, PTL

LEMMA ReadFormNext == TypeOK' => Formed'
  BY ReadForm, PTL

LEMMA ReadParts ==
  TypeOK => (NotReadOften <=> \A l \in Listeners, e \in Events :
                                Arrived(l, e) + Coming(ListenerAt[l], e) <= There(e))
<1> SUFFICES ASSUME TypeOK, NEW l \in Listeners, NEW e \in Events
             PROVE  (IF kafka THEN Arrived(l, e) + Count(sub[ListenerAt[l]], e) +
                                   Cardinality(Ahead(ListenerAt[l], e)) <= InTopic(e)
                     ELSE Arrived(l, e) + Count(pub[ListenerAt[l]], e) <= Sent(e))
                    <=> Arrived(l, e) + Coming(ListenerAt[l], e) <= There(e)
  BY DEF NotReadOften
<1>1. /\ Arrived(l, e) \in Nat /\ Count(sub[ListenerAt[l]], e) \in Nat
      /\ Cardinality(Ahead(ListenerAt[l], e)) \in Nat
  BY ReadTypes DEF Counted
<1>2. CASE kafka
  <2>1. Coming(ListenerAt[l], e) = Count(sub[ListenerAt[l]], e) + Cardinality(Ahead(ListenerAt[l], e))
    BY <1>2 DEF Coming
  <2> QED
    BY <1>1, <1>2, <2>1 DEF There
<1>3. CASE ~kafka
  BY <1>3 DEF Coming, There
<1> QED
  BY <1>2, <1>3

LEMMA ReadPartsNext ==
  TypeOK' => (NotReadOften' <=> \A l \in Listeners, e \in Events :
                                  Arrived(l, e)' + Coming(ListenerAt[l], e)' <= There(e)')
<1> DEFINE Read == \A l \in Listeners, e \in Events :
                     Arrived(l, e) + Coming(ListenerAt[l], e) <= There(e)
<1>1. TypeOK => (NotReadOften <=> Read)
  BY ReadParts
<1> HIDE DEF Read
<1>2. TypeOK' => (NotReadOften' <=> Read')
  BY <1>1, PTL
<1> QED
  BY <1>2 DEF Read

\* What the topic gains a server may have yet to see, but no more than that.
LEMMA LaterAppend ==
  ASSUME NEW S, NEW q \in Seq(S), NEW n \in Nat, NEW e, NEW x \in S
  PROVE  LET r == Append(q, x) IN
         /\ r \in Seq(S) /\ Cardinality(Later(r, n, e)) \in Nat /\ Count(r, e) \in Nat
         /\ Cardinality(Later(r, n, e)) + Count(q, e) <= Cardinality(Later(q, n, e)) + Count(r, e)
<1> DEFINE r == Append(q, x)
<1>1. r \in Seq(S)
  BY AppendFacts
<1>2. Cardinality(Later(q, n, e)) \in Nat /\ Count(q, e) \in Nat /\ Is(x, e) \in Nat
  BY LaterFacts, CountFacts, IsFacts
<1>3. Cardinality(Later(r, n, e)) <= Cardinality(Later(q, n, e)) + Is(x, e)
  BY LaterFacts
<1>4. Count(r, e) = Count(q, e) + Is(x, e)
  BY CountFacts
<1> HIDE DEF r
<1>5. Cardinality(Later(r, n, e)) \in Nat /\ Count(r, e) \in Nat
  BY <1>1, LaterFacts, CountFacts
<1>6. Cardinality(Later(r, n, e)) + Count(q, e) <= Cardinality(Later(q, n, e)) + Count(r, e)
  BY <1>2, <1>3, <1>4, <1>5
<1> QED
  BY <1>1, <1>5, <1>6 DEF r

Balanced(l, e) ==
  Arrived(l, e)' + Coming(ListenerAt[l], e)' + There(e)
    <= Arrived(l, e) + Coming(ListenerAt[l], e) + There(e)'

LEMMA BalanceTypes ==
  TypeOK /\ TypeOK' => \A l \in Listeners, e \in Events :
     /\ Arrived(l, e) \in Nat /\ Coming(ListenerAt[l], e) \in Nat /\ There(e) \in Nat
     /\ Arrived(l, e)' \in Nat /\ Coming(ListenerAt[l], e)' \in Nat /\ There(e)' \in Nat
<1>1. Counted => \A l \in Listeners, e \in Events :
        Arrived(l, e) \in Nat /\ Coming(ListenerAt[l], e) \in Nat /\ There(e) \in Nat
  BY DEF Counted
<1>2. Counted' => \A l \in Listeners, e \in Events :
        Arrived(l, e)' \in Nat /\ Coming(ListenerAt[l], e)' \in Nat /\ There(e)' \in Nat
  BY DEF Counted
<1> QED
  BY <1>1, <1>2, ReadTypes, ReadTypesNext

\* What does not change, as seen from one listener and one event.
LEMMA Same ==
  ASSUME TypeOK, TypeOK', kafka' = kafka, NEW l \in Listeners, NEW e \in Events
  PROVE  LET s == ListenerAt[l]
             p == PartitionOf[e] IN
         /\ handling'[s] = handling[s] => Cardinality(Tasks(l, e))' = Cardinality(Tasks(l, e))
         /\ handling'[s] = handling[s] /\ channel'[l] = channel[l] /\ delivered'[l][e] = delivered[l][e]
              => Arrived(l, e)' = Arrived(l, e)
         /\ topic'[p] = topic[p] /\ position'[s][p] = position[s][p] => Ahead(s, e)' = Ahead(s, e)
         /\ (sub'[s] = sub[s] /\ pub'[s] = pub[s] /\
             topic'[p] = topic[p] /\ position'[s][p] = position[s][p])
              => Coming(s, e)' = Coming(s, e)
         /\ UNCHANGED <<topic, published, repeats>> => There(e)' = There(e)
<1> DEFINE s == ListenerAt[l]
           p == PartitionOf[e]
<1>0. s \in Servers
  OBVIOUS
<1>1. /\ Tasks(l, e) = PlacesIn(handling[s], TaskFor(l, e))
      /\ Tasks(l, e)' = PlacesIn(handling'[s], TaskFor(l, e))
  BY ReadForm, ReadFormNext DEF Formed
<1>2. /\ Ahead(s, e) = IF position[s][p] = None THEN {} ELSE Later(topic[p], position[s][p], e)
      /\ Ahead(s, e)' = IF position'[s][p] = None THEN {} ELSE Later(topic'[p], position'[s][p], e)
  BY <1>0, ReadForm, ReadFormNext DEF Formed
<1>3. /\ Arrived(l, e) = delivered[l][e] + Count(channel[l], e) + Cardinality(Tasks(l, e))
      /\ Arrived(l, e)' = delivered'[l][e] + Count(channel'[l], e) + Cardinality(Tasks(l, e))'
  BY DEF Arrived, Count
<1>4. /\ Coming(s, e) = IF kafka THEN Count(sub[s], e) + Cardinality(Ahead(s, e)) ELSE Count(pub[s], e)
      /\ Coming(s, e)' = IF kafka THEN Count(sub'[s], e) + Cardinality(Ahead(s, e)') ELSE Count(pub'[s], e)
  BY DEF Coming, Count
<1>5. UNCHANGED <<topic, published, repeats>> => There(e)' = There(e)
  BY DEF There, InTopic, Count, Sent
<1>6. Cardinality(Tasks(l, e))' = Cardinality(Tasks(l, e)')
  OBVIOUS
<1>7. handling'[s] = handling[s] => Cardinality(Tasks(l, e))' = Cardinality(Tasks(l, e))
  BY <1>1, <1>6
<1>8. topic'[p] = topic[p] /\ position'[s][p] = position[s][p] => Ahead(s, e)' = Ahead(s, e)
  BY <1>2
<1>9. handling'[s] = handling[s] /\ channel'[l] = channel[l] /\ delivered'[l][e] = delivered[l][e]
        => Arrived(l, e)' = Arrived(l, e)
  BY <1>3, <1>7
<1>10. (sub'[s] = sub[s] /\ pub'[s] = pub[s] /\
        topic'[p] = topic[p] /\ position'[s][p] = position[s][p])
         => Coming(s, e)' = Coming(s, e)
  <2> SUFFICES ASSUME sub'[s] = sub[s], pub'[s] = pub[s],
                      topic'[p] = topic[p], position'[s][p] = position[s][p]
               PROVE  Coming(s, e)' = Coming(s, e)
    OBVIOUS
  <2>0. Ahead(s, e)' = Ahead(s, e)
    BY <1>8
  <2> HIDE DEF s
  <2>1. CASE kafka
    BY <1>4, <2>0, <2>1, Zenon
  <2>2. CASE ~kafka
    BY <1>4, <2>2, Zenon
  <2> QED
    BY <2>1, <2>2
<1> QED
  BY <1>5, <1>7, <1>8, <1>9, <1>10

LEMMA DeliverBalanced ==
  ASSUME TypeOK, TypeOK', NEW k \in Listeners, Deliver(k), NEW l \in Listeners, NEW e \in Events
  PROVE  Balanced(l, e)
<1> DEFINE s == ListenerAt[l]
           x == Head(channel[k])
<1>0. /\ Arrived(l, e) \in Nat /\ Coming(s, e) \in Nat /\ There(e) \in Nat
  BY BalanceTypes
<1>1. /\ channel[k] # <<>> /\ channel' = [channel EXCEPT ![k] = Tail(@)]
      /\ delivered' = [delivered EXCEPT ![k][x] = @ + 1]
      /\ UNCHANGED <<kafka, pub, sub, position, topic, handling, published, repeats>>
  BY DEF Deliver, consumer
<1>2. channel[k] \in Seq(Events) /\ channel \in [Listeners -> Seq(Events)]
  BY DEF TypeOK
<1>3. x \in Events
  BY <1>1, <1>2, QueueSets
<1> HIDE DEF x
<1>4. /\ channel'[k] = Tail(channel[k]) /\ delivered'[k][x] = delivered[k][x] + 1
      /\ k # l => channel'[l] = channel[l] /\ delivered'[l][e] = delivered[l][e]
      /\ x # e => delivered'[l][e] = delivered[l][e]
  BY <1>1, <1>2, <1>3 DEF TypeOK
<1>5. /\ Coming(s, e)' = Coming(s, e) /\ There(e)' = There(e)
      /\ Cardinality(Tasks(l, e))' = Cardinality(Tasks(l, e))
  BY <1>1, Same
<1>6. Arrived(l, e)' = Arrived(l, e)
  <2>1. CASE k # l
    BY <1>1, <1>4, <2>1, Same
  <2>2. CASE k = l
    <3> DEFINE q == channel[l]
    <3>1. q \in Seq(Events) /\ q # <<>> /\ Head(q) = x /\ channel'[l] = Tail(q)
      BY <1>1, <1>2, <1>4, <2>2 DEF x
    <3> HIDE DEF q
    <3>2. /\ Count(q, e) = Count(channel'[l], e) + Is(x, e)
          /\ Count(q, e) \in Nat /\ Count(channel'[l], e) \in Nat /\ Is(x, e) \in Nat
      BY <3>1, CountFacts, IsFacts
    <3>3. delivered'[l][e] = delivered[l][e] + Is(x, e) /\ delivered[l][e] \in Nat
      <4>1. delivered[l][e] \in Nat
        BY DEF TypeOK
      <4>2. CASE x = e
        BY <1>4, <2>2, <4>1, <4>2, IsFacts
      <4>3. CASE x # e
        <5>1. Is(x, e) = 0
          BY <4>3, IsFacts
        <5> QED
          BY <1>4, <4>1, <4>3, <5>1
      <4> QED
        BY <4>2, <4>3
    <3>4. /\ Arrived(l, e) = delivered[l][e] + Count(q, e) + Cardinality(Tasks(l, e))
          /\ Arrived(l, e)' = delivered'[l][e] + Count(channel'[l], e) + Cardinality(Tasks(l, e))'
          /\ Cardinality(Tasks(l, e)) \in Nat
      BY ReadTypes DEF Arrived, q, Count, Counted
    <3> QED
      BY <1>5, <3>2, <3>3, <3>4
  <2> QED
    BY <2>1, <2>2
<1> QED
  BY <1>0, <1>5, <1>6 DEF Balanced

LEMMA RestartBalanced ==
  ASSUME TypeOK, TypeOK', NEW t \in Servers, Restart(t), NEW l \in Listeners, NEW e \in Events
  PROVE  Balanced(l, e)
<1> DEFINE s == ListenerAt[l]
           p == PartitionOf[e]
<1>0. /\ Arrived(l, e) \in Nat /\ Coming(s, e) \in Nat /\ There(e) \in Nat
  BY BalanceTypes
<1>1. /\ channel' = [k \in Listeners |-> IF ListenerAt[k] = t THEN <<>> ELSE channel[k]]
      /\ pub' = [pub EXCEPT ![t] = <<>>] /\ sub' = [sub EXCEPT ![t] = <<>>]
      /\ handling' = [handling EXCEPT ![t] = <<>>]
      /\ position' = [position EXCEPT ![t] = [r \in Partitions |-> None]]
      /\ UNCHANGED <<kafka, topic, published, repeats, delivered>>
  BY DEF Restart
<1>2. There(e)' = There(e)
  BY <1>1, Same
<1>3. CASE t # s
  <2>1. /\ channel'[l] = channel[l] /\ pub'[s] = pub[s] /\ sub'[s] = sub[s]
        /\ handling'[s] = handling[s] /\ position'[s] = position[s]
    BY <1>1, <1>3 DEF TypeOK
  <2>2. Arrived(l, e)' = Arrived(l, e) /\ Coming(s, e)' = Coming(s, e)
    BY <1>1, <2>1, Same
  <2> QED
    BY <1>0, <1>2, <2>2 DEF Balanced
<1>4. CASE t = s
  <2>1. /\ channel'[l] = <<>> /\ pub'[s] = <<>> /\ sub'[s] = <<>>
        /\ handling'[s] = <<>> /\ position'[s][p] = None
    BY <1>1, <1>4 DEF TypeOK
  <2>2. /\ Arrived(l, e) = delivered[l][e] + Count(channel[l], e) + Cardinality(Tasks(l, e))
        /\ delivered[l][e] \in Nat /\ Count(channel[l], e) \in Nat /\ Cardinality(Tasks(l, e)) \in Nat
    BY ReadTypes DEF Arrived, Counted
  <2>3. /\ Arrived(l, e)' = delivered[l][e] + Count(<<>>, e) + Cardinality(PlacesIn(<<>>, TaskFor(l, e)))
        /\ Coming(s, e)' = IF kafka THEN Count(<<>>, e) + Cardinality({}) ELSE Count(<<>>, e)
    <3>1. Tasks(l, e)' = PlacesIn(handling'[s], TaskFor(l, e)) /\ Ahead(s, e)' = {}
      BY <2>1, ReadFormNext DEF Formed
    <3>2. Arrived(l, e)' = delivered'[l][e] + Count(channel'[l], e) + Cardinality(Tasks(l, e)')
      BY DEF Arrived, Count
    <3>3. Coming(s, e)' = IF kafka THEN Count(sub'[s], e) + Cardinality(Ahead(s, e)') ELSE Count(pub'[s], e)
      BY <1>1 DEF Coming, Count
    <3> HIDE DEF s
    <3> QED
      BY <1>1, <2>1, <3>1, <3>2, <3>3, Zenon
  <2>4. Count(<<>>, e) = 0 /\ Cardinality(PlacesIn(<<>>, TaskFor(l, e))) = 0
    <3>1. <<>> \in Seq(Events) /\ <<>> \in Seq(Task)
      BY EmptyFacts
    <3> QED
      BY <3>1, CountFacts, TaskFacts
  <2>5. Cardinality({}) = 0
    BY FS_EmptySet
  <2>6. Coming(s, e)' = 0
    BY <2>3, <2>4, <2>5
  <2>7. Arrived(l, e)' = delivered[l][e]
    BY <2>2, <2>3, <2>4
  <2> QED
    BY <1>0, <1>2, <2>2, <2>6, <2>7 DEF Balanced
<1> QED
  BY <1>3, <1>4

LEMMA ReceiveBalanced ==
  ASSUME TypeOK, TypeOK', InPartition, NEW t \in Servers, NEW r \in Partitions,
         Receive(t, r) \/ ConsumePartition(t, r), NEW l \in Listeners, NEW e \in Events
  PROVE  Balanced(l, e)
<1> DEFINE s == ListenerAt[l]
           p == PartitionOf[e]
<1>0. /\ Arrived(l, e) \in Nat /\ Coming(s, e) \in Nat /\ There(e) \in Nat /\ Coming(s, e)' \in Nat
  BY BalanceTypes
<1>1. UNCHANGED <<kafka, pub, topic, handling, channel, published, repeats, delivered>>
  BY DEF Receive, ConsumePartition
<1>2. There(e)' = There(e) /\ Arrived(l, e)' = Arrived(l, e)
  BY <1>1, Same
<1>s. /\ s \in Servers /\ p \in Partitions /\ position \in [Servers -> [Partitions -> Nat \cup {None}]]
      /\ sub \in [Servers -> Seq(Events)]
  BY DEF TypeOK
<1>3. Coming(s, e) = IF kafka THEN Count(sub[s], e) + Cardinality(Ahead(s, e)) ELSE Count(pub[s], e)
  BY DEF Coming
<1>4. Coming(s, e)' = IF kafka THEN Count(sub'[s], e) + Cardinality(Ahead(s, e)') ELSE Count(pub[s], e)
  BY <1>1 DEF Coming, Count
<1>5. /\ Count(sub[s], e) \in Nat /\ Cardinality(Ahead(s, e)) \in Nat /\ Count(pub[s], e) \in Nat
      /\ Count(sub'[s], e) \in Nat /\ Cardinality(Ahead(s, e)') \in Nat
  <2>1. Counted /\ Counted'
    BY ReadTypes, ReadTypesNext
  <2>2. /\ Count(sub[s], e) \in Nat /\ Cardinality(Ahead(s, e)) \in Nat /\ Count(pub[s], e) \in Nat
    BY <2>1, <1>s DEF Counted
  <2>3. Count(sub[s], e)' \in Nat /\ Cardinality(Ahead(s, e))' \in Nat
    BY <2>1, <1>s DEF Counted
  <2>4. Count(sub[s], e)' = Count(sub'[s], e) /\ Cardinality(Ahead(s, e))' = Cardinality(Ahead(s, e)')
    BY DEF Count
  <2> QED
    BY <2>2, <2>3, <2>4
<1>6. SUFFICES Count(sub'[s], e) + Cardinality(Ahead(s, e)') <= Count(sub[s], e) + Cardinality(Ahead(s, e))
  <2> HIDE DEF s
  <2>1. Coming(s, e)' <= Coming(s, e)
    <3>1. CASE kafka
      BY <1>3, <1>4, <1>6, <3>1
    <3>2. CASE ~kafka
      BY <1>3, <1>4, <1>5, <3>2
    <3> QED
      BY <3>1, <3>2
  <2> QED
    BY <1>0, <1>2, <2>1 DEF Balanced, s
<1>7. /\ Ahead(s, e) = IF position[s][p] = None THEN {} ELSE Later(topic[p], position[s][p], e)
      /\ Ahead(s, e)' = IF position'[s][p] = None THEN {} ELSE Later(topic[p], position'[s][p], e)
      /\ topic[p] \in Seq(Events) /\ topic[r] \in Seq(Events)
  BY <1>s, <1>1, ReadForm, ReadFormNext DEF Formed, TypeOK
<1>8. CASE ConsumePartition(t, r)
  <2>1. /\ sub' = sub /\ position[t][r] = None
        /\ position' = [position EXCEPT ![t][r] = Len(topic[r])]
    BY <1>8 DEF ConsumePartition
  <2>2. CASE t = s /\ r = p
    <3> DEFINE q == topic[p]
               n == position'[s][p]
    <3>1. q \in Seq(Events) /\ Len(q) \in Nat /\ n = Len(q)
      <4>1. q \in Seq(Events) /\ Len(topic[p]) \in Nat
        BY <1>7, SeqFacts
      <4>2. n = Len(topic[p])
        BY <1>s, <2>1, <2>2
      <4> QED
        BY <4>1, <4>2
    <3>2. Ahead(s, e)' = IF n = None THEN {} ELSE Later(q, n, e)
      BY <1>7
    <3> HIDE DEF q, n, s
    <3>3. Later(q, n, e) = {}
      BY <3>1, LaterFacts
    <3>4. Cardinality(Ahead(s, e)') = 0
      BY <3>2, <3>3, FS_EmptySet
    <3> QED
      BY <1>5, <2>1, <3>4
  <2>3. CASE ~(t = s /\ r = p)
    <3>1. position'[s][p] = position[s][p]
      BY <1>s, <2>1, <2>3
    <3>2. Ahead(s, e)' = Ahead(s, e)
      BY <1>7, <3>1
    <3> QED
      BY <1>5, <2>1, <3>2
  <2> QED
    BY <2>2, <2>3
<1>9. CASE Receive(t, r)
  <2> DEFINE n == position[t][r]
             x == topic[r][n + 1]
  <2>1. /\ n # None /\ n < Len(topic[r])
        /\ position' = [position EXCEPT ![t][r] = n + 1]
        /\ sub' = [sub EXCEPT ![t] = Append(@, x)]
    BY <1>9 DEF Receive
  <2>2. n \in Nat /\ n + 1 # None /\ n + 1 \in DOMAIN topic[r]
    <3>1. n \in Nat /\ DOMAIN topic[r] = 1 .. Len(topic[r]) /\ Len(topic[r]) \in Nat
      BY <1>s, <1>7, <2>1, SeqFacts
    <3>2. n + 1 \in Nat /\ n + 1 \in 1 .. Len(topic[r])
      BY <2>1, <3>1
    <3> HIDE DEF n
    <3>3. n + 1 # None
      BY <3>2
    <3> QED
      BY <3>1, <3>2, <3>3, Zenon
  <2>3. x \in Events /\ PartitionOf[x] = r
    <3>1. x \in Events /\ x \in ToSet(topic[r])
      BY <1>7, <2>2, SeqFacts DEF ToSet
    <3> QED
      BY <3>1 DEF InPartition
  <2>4. CASE t # s
    <3>1. position'[s][p] = position[s][p] /\ sub'[s] = sub[s]
      BY <1>s, <2>1, <2>4
    <3>2. Ahead(s, e)' = Ahead(s, e)
      BY <1>7, <3>1
    <3> QED
      BY <1>5, <3>1, <3>2
  <2>5. CASE t = s
    <3> DEFINE S == sub[s]
    <3>1. sub'[s] = Append(S, x) /\ S \in Seq(Events)
      BY <1>s, <2>1, <2>5
    <3>2. Count(sub'[s], e) = Count(S, e) + Is(x, e)
      <4> HIDE DEF x, S
      <4> QED
        BY <2>3, <3>1, CountFacts
    <3>3. CASE r # p
      <4>1. position'[s][p] = position[s][p]
        BY <1>s, <2>1, <3>3
      <4>2. Ahead(s, e)' = Ahead(s, e)
        BY <1>7, <4>1
      <4>3. Is(x, e) = 0
        BY <2>3, <3>3, IsFacts
      <4> QED
        BY <1>5, <3>2, <4>2, <4>3
    <3>4. CASE r = p
      <4> DEFINE q == topic[p]
      <4>1. position'[s][p] = n + 1 /\ position[s][p] = n
        BY <1>s, <2>1, <2>5, <3>4
      <4>2. Ahead(s, e) = Later(q, n, e) /\ Ahead(s, e)' = Later(q, n + 1, e)
        BY <1>7, <2>1, <2>2, <4>1
      <4>3. q \in Seq(Events) /\ n < Len(q) /\ x = q[n + 1]
        BY <1>7, <2>1, <3>4
      <4>4. Cardinality(Later(q, n, e)) = Cardinality(Later(q, n + 1, e)) + Is(x, e)
        <5> HIDE DEF q, n, x
        <5> QED
          BY <2>2, <4>3, LaterFacts
      <4>5. Is(x, e) \in Nat
        BY IsFacts
      <4> HIDE DEF q, n, x, s
      <4> QED
        BY <1>5, <3>2, <4>2, <4>4, <4>5 DEF S
    <3> QED
      BY <3>3, <3>4
  <2> QED
    BY <2>4, <2>5
<1> QED
  BY <1>8, <1>9

LEMMA TransmitBalanced ==
  ASSUME TypeOK, TypeOK', NEW t \in Servers, NEW outcome \in {"once", "twice", "lost"},
         Transmit(t, outcome), NEW l \in Listeners, NEW e \in Events
  PROVE  Balanced(l, e)
<1> DEFINE s == ListenerAt[l]
           p == PartitionOf[e]
           q == topic[p]
           n == position[s][p]
<1>0. /\ Arrived(l, e) \in Nat /\ Coming(s, e) \in Nat /\ There(e) \in Nat
      /\ Coming(s, e)' \in Nat /\ There(e)' \in Nat
  BY BalanceTypes
<1>1. PICK x : x = Head(input[t])
  OBVIOUS
<1>2. /\ UNCHANGED <<kafka, pub, sub, position, handling, channel, published, delivered>>
      /\ repeats' = repeats \/ repeats' = [repeats EXCEPT ![x] = @ + 1]
  BY <1>1, TransmitParts
<1>3. Arrived(l, e)' = Arrived(l, e)
  BY <1>2, Same
<1>4. SUFFICES Coming(s, e)' + There(e) <= Coming(s, e) + There(e)'
  <2> HIDE DEF s
  <2> QED
    BY <1>0, <1>3, <1>4 DEF Balanced, s
<1>5. CASE ~kafka
  <2>1. Coming(s, e)' = Coming(s, e)
    BY <1>2, <1>5 DEF Coming, Count
  <2>2. repeats[e] \in Nat /\ repeats'[e] \in Nat /\ repeats[e] <= repeats'[e]
    <3>1. repeats \in [Events -> Nat] /\ repeats[e] \in Nat
      BY DEF TypeOK
    <3>2. repeats'[e] = repeats[e] \/ repeats'[e] = repeats[e] + 1
      <4>1. CASE repeats' = repeats
        BY <4>1
      <4>2. CASE repeats' = [repeats EXCEPT ![x] = @ + 1]
        BY <3>1, <4>2
      <4> QED
        BY <1>2, <4>1, <4>2
    <3> QED
      BY <3>1, <3>2
  <2>3. There(e) = Sent(e) /\ There(e)' = Sent(e)'
    BY <1>2, <1>5 DEF There
  <2>4. Sent(e) <= Sent(e)'
    BY <1>2, <2>2 DEF Sent
  <2> QED
    BY <1>0, <2>1, <2>3, <2>4
<1>6. CASE kafka
  <2>0. s \in Servers /\ q \in Seq(Events) /\ topic \in [Partitions -> Seq(Events)] /\ p \in Partitions
        /\ (n # None => n \in Nat)
    <3>1. s \in Servers /\ p \in Partitions
      OBVIOUS
    <3>2. n \in Nat \cup {None}
      <4>1. position \in [Servers -> [Partitions -> Nat \cup {None}]]
        BY DEF TypeOK
      <4> HIDE DEF s, p
      <4> QED
        BY <3>1, <4>1
    <3>3. topic \in [Partitions -> Seq(Events)]
      BY DEF TypeOK
    <3> QED
      BY <3>1, <3>2, <3>3
  <2>1. /\ Ahead(s, e) = IF n = None THEN {} ELSE Later(q, n, e)
        /\ Ahead(s, e)' = IF n = None THEN {} ELSE Later(topic'[p], n, e)
    BY <1>2, <2>0, ReadForm, ReadFormNext DEF Formed
  <2>2. /\ Coming(s, e) = Count(sub[s], e) + Cardinality(Ahead(s, e))
        /\ Coming(s, e)' = Count(sub[s], e) + Cardinality(Ahead(s, e)')
        /\ There(e) = Count(q, e) /\ There(e)' = Count(topic'[p], e)
    BY <1>2, <1>6 DEF Coming, There, InTopic, Count
  <2>3. Count(sub[s], e) \in Nat
    BY <2>0, ReadTypes DEF Counted
  <2>4. /\ x \in Events
        /\ \/ topic'[p] = q \/ topic'[p] = Append(q, x) \/ topic'[p] = Append(Append(q, x), x)
    <3>1. /\ x \in Events
          /\ \A r \in Partitions \ {PartitionOf[x]} : topic'[r] = topic[r]
          /\ \/ topic'[PartitionOf[x]] = Append(topic[PartitionOf[x]], x)
             \/ topic'[PartitionOf[x]] = Append(Append(topic[PartitionOf[x]], x), x)
             \/ topic'[PartitionOf[x]] = topic[PartitionOf[x]]
      BY <1>1, TopicNext, Zenon
    <3>2. CASE PartitionOf[x] # p
      BY <2>0, <3>1, <3>2
    <3>3. CASE PartitionOf[x] = p
      BY <3>1, <3>3, Zenon
    <3> QED
      BY <3>1, <3>2, <3>3
  <2> DEFINE a == Append(q, x)
             b == Append(a, x)
             r == topic'[p]
  <2> HIDE DEF q, n, s
  <2>5. a \in Seq(Events)
    BY <2>0, <2>4, AppendFacts
  <2>6. Count(q, e) \in Nat /\ Count(a, e) \in Nat /\ Count(b, e) \in Nat
        /\ Count(q, e) <= Count(a, e) /\ Count(a, e) <= Count(b, e)
    <3>1. Count(q, e) \in Nat /\ Is(x, e) \in Nat /\ Count(a, e) = Count(q, e) + Is(x, e)
      BY <2>0, <2>4, CountFacts, IsFacts
    <3> HIDE DEF a
    <3>2. Count(b, e) = Count(a, e) + Is(x, e)
      BY <2>4, <2>5, CountFacts
    <3> HIDE DEF b
    <3> QED
      BY <3>1, <3>2
  <2>7. CASE n = None
    <3>1. Cardinality(Ahead(s, e)) = 0 /\ Cardinality(Ahead(s, e)') = 0
      BY <2>1, <2>7, FS_EmptySet
    <3>2. Count(q, e) <= Count(r, e) /\ Count(r, e) \in Nat
      <4>1. r = q \/ r = a \/ r = b
        BY <2>4
      <4> HIDE DEF r, a, b
      <4> QED
        BY <2>6, <4>1
    <3> HIDE DEF r
    <3>3. There(e)' = Count(r, e)
      BY <2>2 DEF r
    <3> QED
      BY <2>2, <2>3, <2>6, <3>1, <3>2, <3>3
  <2>8. CASE n # None
    <3>1. n \in Nat
      BY <2>0, <2>8
    <3>2. /\ Cardinality(Later(q, n, e)) \in Nat
          /\ Cardinality(Later(a, n, e)) \in Nat
          /\ Cardinality(Later(a, n, e)) + Count(q, e) <= Cardinality(Later(q, n, e)) + Count(a, e)
      BY <2>0, <2>4, <3>1, LaterAppend, LaterFacts
    <3>3. /\ Cardinality(Later(b, n, e)) \in Nat
          /\ Cardinality(Later(b, n, e)) + Count(a, e) <= Cardinality(Later(a, n, e)) + Count(b, e)
      <4> HIDE DEF a
      <4> QED
        BY <2>4, <2>5, <3>1, LaterAppend
    <3>4. r = q \/ r = a \/ r = b
      BY <2>4
    <3> HIDE DEF r, a, b
    <3>5. /\ Cardinality(Later(r, n, e)) \in Nat /\ Count(r, e) \in Nat
          /\ Cardinality(Later(r, n, e)) + Count(q, e) <= Cardinality(Later(q, n, e)) + Count(r, e)
      <4>1. CASE r = q
        BY <2>6, <3>2, <4>1
      <4>2. CASE r = a
        BY <2>6, <3>2, <4>2
      <4>3. CASE r = b
        BY <2>6, <3>2, <3>3, <4>3
      <4> QED
        BY <3>4, <4>1, <4>2, <4>3
    <3>6. Ahead(s, e) = Later(q, n, e) /\ Ahead(s, e)' = Later(r, n, e)
      BY <2>1, <2>8 DEF r
    <3>7. There(e)' = Count(r, e)
      BY <2>2 DEF r
    <3> QED
      BY <2>2, <2>3, <2>6, <3>2, <3>5, <3>6, <3>7
  <2> QED
    BY <2>7, <2>8
<1> QED
  BY <1>5, <1>6

LEMMA PublishedBalanced ==
  ASSUME TypeOK, TypeOK', NEW x \in Events, Published(x), NEW l \in Listeners, NEW e \in Events
  PROVE  Balanced(l, e)
<1> DEFINE s == ListenerAt[l]
           t == PublisherOf[x]
<1>0. /\ Arrived(l, e) \in Nat /\ Coming(s, e) \in Nat /\ There(e) \in Nat
      /\ Coming(s, e)' \in Nat /\ There(e)' \in Nat
  BY BalanceTypes
<1>1. /\ x \in publishing /\ published' = published \cup {x}
      /\ pub' = [pub EXCEPT ![t] = Append(@, x)]
      /\ UNCHANGED <<kafka, topic, position, sub, handling, channel, repeats, delivered>>
  BY DEF Published, consumer
<1>2. x \notin published
  BY <1>1 DEF TypeOK
<1>3. Arrived(l, e)' = Arrived(l, e)
  BY <1>1, Same
<1>4. SUFFICES Coming(s, e)' + There(e) <= Coming(s, e) + There(e)'
  <2> HIDE DEF s
  <2> QED
    BY <1>0, <1>3, <1>4 DEF Balanced, s
<1>5. CASE kafka
  <2>1. There(e)' = There(e)
    BY <1>1, <1>5 DEF There, InTopic, Count
  <2>2. Ahead(s, e)' = Ahead(s, e)
    BY <1>1, Same
  <2>3. /\ Coming(s, e) = Count(sub[s], e) + Cardinality(Ahead(s, e))
        /\ Coming(s, e)' = Count(sub[s], e) + Cardinality(Ahead(s, e)')
    BY <1>1, <1>5 DEF Coming, Count
  <2> QED
    BY <1>0, <2>1, <2>2, <2>3
<1>6. CASE ~kafka
  <2> DEFINE q == pub[s]
  <2>1. /\ There(e) = Sent(e) /\ There(e)' = Sent(e)'
        /\ Coming(s, e) = Count(q, e) /\ Coming(s, e)' = Count(pub'[s], e)
    BY <1>1, <1>6 DEF There, Coming, Count
  <2>2. pub'[s] = q \/ pub'[s] = Append(q, x)
    BY <1>1 DEF TypeOK
  <2>3. q \in Seq(Events)
    BY DEF TypeOK
  <2> HIDE DEF q, s
  <2>4. CASE x # e
    <3>1. Sent(e)' = Sent(e)
      BY <1>1, <2>4 DEF Sent
    <3>2. Count(Append(q, x), e) = Count(q, e)
      BY <2>3, <2>4, CountOther
    <3>3. Coming(s, e)' = Coming(s, e) /\ There(e)' = There(e)
      BY <2>1, <2>2, <3>1, <3>2
    <3> QED
      BY <1>0, <3>3
  <2>5. CASE x = e
    <3>1. Sent(e) = 0
      BY <1>2, <2>5 DEF Sent
    <3>2. Sent(e)' >= 1
      <4>1. repeats'[e] \in Nat
        BY DEF TypeOK
      <4>2. Sent(e)' = 1 + repeats'[e]
        BY <1>1, <2>5 DEF Sent
      <4> QED
        BY <4>1, <4>2
    <3>3. Count(Append(q, x), e) = Count(q, e) + 1
      BY <2>3, <2>5, CountSame
    <3>4. Coming(s, e)' = Coming(s, e) \/ Coming(s, e)' = Coming(s, e) + 1
      BY <2>1, <2>2, <3>3
    <3>5. There(e) = 0 /\ There(e)' >= 1
      BY <2>1, <3>1, <3>2
    <3> QED
      BY <1>0, <3>4, <3>5
  <2> QED
    BY <2>4, <2>5
<1> QED
  BY <1>5, <1>6

LEMMA HandleBalanced ==
  ASSUME TypeOK, TypeOK', NEW t \in Servers, Handle(t), NEW l \in Listeners, NEW e \in Events
  PROVE  Balanced(l, e)
<1> DEFINE s == ListenerAt[l]
           source == IF kafka THEN sub[t] ELSE pub[t]
           x == Head(source)
           h == [event |-> x, to |-> ListenersOf(t, x)]
<1>0. /\ Arrived(l, e) \in Nat /\ Coming(s, e) \in Nat /\ There(e) \in Nat
      /\ Arrived(l, e)' \in Nat /\ Coming(s, e)' \in Nat
  BY BalanceTypes
<1>1. /\ source # <<>>
      /\ IF kafka THEN sub' = [sub EXCEPT ![t] = Tail(@)] /\ UNCHANGED pub
         ELSE pub' = [pub EXCEPT ![t] = Tail(@)] /\ UNCHANGED sub
      /\ handling' = [handling EXCEPT ![t] = IF h.to = {} THEN @ ELSE Append(@, h)]
      /\ UNCHANGED <<kafka, topic, position, channel, published, repeats, delivered>>
  BY DEF Handle
<1>2. There(e)' = There(e)
  BY <1>1, Same
<1>3. /\ handling \in [Servers -> Seq(Task)] /\ s \in Servers
      /\ sub \in [Servers -> Seq(Events)] /\ pub \in [Servers -> Seq(Events)]
  BY DEF TypeOK, Task
<1>4. source \in Seq(Events) /\ x \in Events
  <2>1. source \in Seq(Events)
    BY <1>3
  <2> HIDE DEF source
  <2> QED
    BY <1>1, <2>1, QueueSets
<1>5. h \in Task /\ h.event = x
  <2> HIDE DEF x
  <2> QED
    BY <1>4 DEF ListenersOf, Task, TypeOK
<1>6. CASE t # s
  <2>1. sub'[s] = sub[s] /\ pub'[s] = pub[s] /\ handling'[s] = handling[s]
    <3> HIDE DEF h, source, s
    <3> QED
      BY <1>1, <1>3, <1>6
  <2>2. Arrived(l, e)' = Arrived(l, e) /\ Coming(s, e)' = Coming(s, e)
    BY <1>1, <2>1, Same
  <2> QED
    BY <1>0, <1>2, <2>2 DEF Balanced
<1>7. CASE t = s
  <2>1. Coming(s, e) = Coming(s, e)' + Is(x, e)
    <3>1. Ahead(s, e)' = Ahead(s, e)
      BY <1>1, Same
    <3>2. CASE kafka
      <4> DEFINE q == sub[s]
      <4>1. q \in Seq(Events) /\ q # <<>> /\ Head(q) = x /\ sub'[s] = Tail(q)
        BY <1>1, <1>3, <1>7, <3>2
      <4> HIDE DEF q, x, source, h
      <4>2. Count(q, e) = Count(sub'[s], e) + Is(x, e) /\ Count(sub'[s], e) \in Nat /\ Is(x, e) \in Nat
        BY <4>1, CountFacts, IsFacts
      <4>3. /\ Coming(s, e) = Count(q, e) + Cardinality(Ahead(s, e))
            /\ Coming(s, e)' = Count(sub'[s], e) + Cardinality(Ahead(s, e)')
            /\ Cardinality(Ahead(s, e)) \in Nat
        <5>1. Cardinality(Ahead(s, e)) \in Nat
          BY ReadTypes DEF Counted
        <5> QED
          BY <1>1, <3>2, <5>1 DEF Coming, Count, q
      <4> QED
        BY <3>1, <4>2, <4>3
    <3>3. CASE ~kafka
      <4> DEFINE q == pub[s]
      <4>1. q \in Seq(Events) /\ q # <<>> /\ Head(q) = x /\ pub'[s] = Tail(q)
        BY <1>1, <1>3, <1>7, <3>3
      <4> HIDE DEF q, x, source, h
      <4>2. Count(q, e) = Count(pub'[s], e) + Is(x, e)
        BY <4>1, CountFacts
      <4>3. Coming(s, e) = Count(q, e) /\ Coming(s, e)' = Count(pub'[s], e)
        BY <1>1, <3>3 DEF Coming, Count, q
      <4> QED
        BY <4>2, <4>3
    <3> QED
      BY <3>2, <3>3
  <2> DEFINE q == handling[s]
             E == TaskFor(l, e)
             T == Cardinality(PlacesIn(handling'[s], E))
  <2>2. q \in Seq(Task) /\ (handling'[s] = q \/ handling'[s] = Append(q, h))
    <3> HIDE DEF h, source
    <3> QED
      BY <1>1, <1>3, <1>7
  <2>3. x # e => h \notin E
    BY <1>5 DEF TaskFor
  <2>4. Arrived(l, e) = delivered[l][e] + Count(channel[l], e) + Cardinality(PlacesIn(q, E))
    BY ReadForm DEF Arrived, Formed
  <2>5. Arrived(l, e)' = delivered[l][e] + Count(channel[l], e) + T
    <3>1. Tasks(l, e)' = PlacesIn(handling'[s], E)
      BY ReadFormNext DEF Formed
    <3>2. Arrived(l, e)' = delivered'[l][e] + Count(channel'[l], e) + Cardinality(Tasks(l, e)')
      BY DEF Arrived, Count
    <3> HIDE DEF h, x, source
    <3> QED
      BY <1>1, <3>1, <3>2
  <2>6. delivered[l][e] \in Nat /\ Count(channel[l], e) \in Nat
    BY ReadTypes DEF Counted
  <2>7. T \in Nat
    <3>1. handling'[s] \in Seq(Task)
      BY <1>3, ReadFormNext DEF Formed
    <3> QED
      BY <3>1, PlacesInType
  <2>8. Is(x, e) \in Nat
    BY IsFacts
  <2> HIDE DEF h, x, source, q, E, s
  <2>9. T <= Cardinality(PlacesIn(q, E)) + Is(x, e)
    <3>1. CASE handling'[s] = q
      BY <2>2, <2>8, <3>1, TaskFacts
    <3>2. CASE handling'[s] = Append(q, h) /\ x # e
      BY <1>5, <2>2, <2>3, <2>8, <3>2, TaskFacts, IsFacts
    <3>3. CASE handling'[s] = Append(q, h) /\ x = e
      <4>1. Is(x, e) = 1
        BY <3>3, IsFacts
      <4> QED
        BY <1>5, <2>2, <3>3, <4>1, TaskFacts
    <3> QED
      BY <2>2, <3>1, <3>2, <3>3
  <2> HIDE DEF T
  <2>10. Cardinality(PlacesIn(q, E)) \in Nat
    BY <2>2, PlacesInType
  <2>11. Arrived(l, e)' <= Arrived(l, e) + Is(x, e)
    BY <2>4, <2>5, <2>6, <2>7, <2>8, <2>9, <2>10
  <2> QED
    BY <1>0, <1>2, <2>1, <2>8, <2>11 DEF Balanced, s
<1> QED
  BY <1>6, <1>7

LEMMA BroadcastBalanced ==
  ASSUME TypeOK, TypeOK', Wanted, NEW t \in Servers, NEW i \in DOMAIN handling[t],
         NEW k \in handling[t][i].to, Broadcast(t, i, k), NEW l \in Listeners, NEW e \in Events
  PROVE  Balanced(l, e)
<1> DEFINE s == ListenerAt[l]
           h == handling[t][i]
           g == [h EXCEPT !.to = @ \ {k}]
           q == handling[t]
           E == TaskFor(l, e)
<1>0. /\ Arrived(l, e) \in Nat /\ Coming(s, e) \in Nat /\ There(e) \in Nat
      /\ Arrived(l, e)' \in Nat
  BY BalanceTypes
<1>1. /\ channel' = [channel EXCEPT ![k] = Append(@, h.event)]
      /\ handling' = [handling EXCEPT ![t] = IF h.to = {k} THEN RemoveAt(@, i) ELSE ReplaceAt(@, i, g)]
      /\ UNCHANGED <<kafka, pub, sub, topic, position, published, repeats, delivered>>
  BY DEF Broadcast, consumer
<1>2. There(e)' = There(e) /\ Coming(s, e)' = Coming(s, e)
  BY <1>1, Same
<1>3. /\ handling \in [Servers -> Seq(Task)] /\ channel \in [Listeners -> Seq(Events)]
      /\ q \in Seq(Task) /\ s \in Servers
  BY DEF TypeOK, Task
<1>4. h \in Task /\ h \in ToSet(q)
  <2> HIDE DEF q
  <2>1. q[i] \in Task /\ q[i] \in ToSet(q)
    BY <1>3, SeqFacts DEF ToSet, q
  <2> QED
    BY <2>1 DEF q
<1>5. k \in Listeners /\ ListenerAt[k] = t /\ h.event \in Events /\ g \in Task
      /\ g.event = h.event /\ g.to = h.to \ {k}
  BY <1>4 DEF Task, Wanted
<1>6. SUFFICES Arrived(l, e)' <= Arrived(l, e)
  <2> HIDE DEF s
  <2> QED
    BY <1>0, <1>2, <1>6 DEF Balanced, s
<1>7. CASE t # s
  <2>1. k # l
    BY <1>5, <1>7
  <2>2. handling'[s] = handling[s] /\ channel'[l] = channel[l] /\ delivered'[l][e] = delivered[l][e]
    <3> HIDE DEF g, h, s, q
    <3> QED
      BY <1>1, <1>3, <1>7, <2>1
  <2>3. Arrived(l, e)' = Arrived(l, e)
    BY <1>1, <2>2, Same
  <2> QED
    BY <1>0, <2>3
<1>8. CASE t = s
  <2> DEFINE T == Cardinality(PlacesIn(handling'[s], E))
             P == Cardinality(PlacesIn(q, E))
             C == Count(channel'[l], e)
             D == Count(channel[l], e)
  <2>1. Arrived(l, e) = delivered[l][e] + D + P
    BY <1>8, ReadForm DEF Arrived, Formed
  <2>2. Arrived(l, e)' = delivered[l][e] + C + T
    <3>1. Tasks(l, e)' = PlacesIn(handling'[s], E)
      BY ReadFormNext DEF Formed
    <3>2. Arrived(l, e)' = delivered'[l][e] + Count(channel'[l], e) + Cardinality(Tasks(l, e)')
      BY DEF Arrived, Count
    <3> HIDE DEF g, h, q
    <3> QED
      BY <1>1, <3>1, <3>2
  <2>3. delivered[l][e] \in Nat /\ D \in Nat /\ T \in Nat /\ P \in Nat /\ C \in Nat
    <3>1. delivered[l][e] \in Nat /\ D \in Nat
      BY ReadTypes DEF Counted
    <3>2. handling'[s] \in Seq(Task) /\ channel'[l] \in Seq(Events)
      BY <1>3, ReadFormNext DEF Formed
    <3>3. T \in Nat /\ C \in Nat
      BY <3>2, PlacesInType, CountFacts
    <3> HIDE DEF q, E
    <3>4. P \in Nat
      BY <1>3, PlacesInType
    <3> QED
      BY <3>1, <3>3, <3>4
  <2>4. handling'[s] = RemoveAt(q, i) \/ handling'[s] = ReplaceAt(q, i, g)
    <3> HIDE DEF g, h
    <3> QED
      BY <1>1, <1>3, <1>8
  <2>5. (g \in E => q[i] \in E) /\ (k = l => g \notin E) /\ (k = l /\ h.event = e => q[i] \in E)
    BY <1>4, <1>5 DEF TaskFor
  <2>6. i \in DOMAIN q
    OBVIOUS
  <2>7. channel'[l] = IF k = l THEN Append(channel[l], h.event) ELSE channel[l]
    <3> HIDE DEF h, g, s, q
    <3> QED
      BY <1>1, <1>3, <1>5
  <2> DEFINE x == h.event
             c == channel[l]
  <2>8. c \in Seq(Events) /\ x \in Events
    BY <1>3, <1>5
  <2> HIDE DEF g, q, E, s, x, c, h
  <2>9. T <= P
    <3>1. CASE handling'[s] = RemoveAt(q, i)
      BY <1>3, <2>6, <3>1, TaskFacts
    <3>2. CASE handling'[s] = ReplaceAt(q, i, g)
      BY <1>3, <1>5, <2>5, <2>6, <3>2, TaskFacts
    <3> QED
      BY <2>4, <3>1, <3>2
  <2>10. CASE k # l
    <3>1. C = D
      BY <2>7, <2>10
    <3> HIDE DEF T, P, C, D
    <3> QED
      BY <2>1, <2>2, <2>3, <2>9, <3>1
  <2>11. CASE k = l /\ x # e
    <3>1. C = D
      <4>1. Count(Append(c, x), e) = Count(c, e)
        BY <2>8, <2>11, CountOther
      <4> QED
        BY <2>7, <2>11, <4>1 DEF c, x
    <3> HIDE DEF T, P, C, D
    <3> QED
      BY <2>1, <2>2, <2>3, <2>9, <3>1
  <2>12. CASE k = l /\ x = e
    <3>1. C = D + 1
      <4>1. Count(Append(c, x), e) = Count(c, e) + 1
        BY <2>8, <2>12, CountSame
      <4> QED
        BY <2>7, <2>12, <4>1 DEF c, x
    <3>2. g \notin E /\ q[i] \in E
      BY <2>5, <2>12 DEF x
    <3>3. T + 1 <= P
      <4>1. CASE handling'[s] = RemoveAt(q, i)
        BY <1>3, <2>6, <3>2, <4>1, TaskFacts
      <4>2. CASE handling'[s] = ReplaceAt(q, i, g)
        BY <1>3, <1>5, <2>6, <3>2, <4>2, TaskFacts
      <4> QED
        BY <2>4, <4>1, <4>2
    <3> HIDE DEF T, P, C, D
    <3> QED
      BY <2>1, <2>2, <2>3, <3>1, <3>3
  <2> QED
    BY <2>10, <2>11, <2>12
<1> QED
  BY <1>7, <1>8

LEMMA ReadNext ==
  TypeOK /\ TypeOK' /\ InPartition /\ Wanted /\ [Next]_vars =>
    \A l \in Listeners, e \in Events : Balanced(l, e)
<1> SUFFICES ASSUME TypeOK, TypeOK', InPartition, Wanted, [Next]_vars,
                    NEW l \in Listeners, NEW e \in Events
             PROVE  Balanced(l, e)
  OBVIOUS
<1>1. ASSUME UNCHANGED <<kafka, pub, published, topic, sub, position, handling, channel,
                         repeats, delivered>>
      PROVE  Balanced(l, e)
  <2>1. /\ Arrived(l, e)' = Arrived(l, e) /\ There(e)' = There(e)
        /\ Coming(ListenerAt[l], e)' = Coming(ListenerAt[l], e)
    BY <1>1, Same
  <2> QED
    BY <2>1, BalanceTypes DEF Balanced
<1>2. ASSUME NEW s \in Servers, Input(s)
      PROVE  UNCHANGED <<kafka, pub, published, topic, sub, position, handling, channel,
                         repeats, delivered>>
  BY <1>2 DEF Input, consumer
<1>3. ASSUME NEW s \in Servers, TakePub(s) PROVE Balanced(l, e)
  <2>1. /\ kafka
        /\ UNCHANGED <<kafka, published, topic, sub, position, handling, channel, repeats, delivered>>
    BY <1>3 DEF TakePub, consumer
  <2>2. /\ Arrived(l, e)' = Arrived(l, e) /\ There(e)' = There(e)
        /\ Ahead(ListenerAt[l], e)' = Ahead(ListenerAt[l], e)
    BY <2>1, Same
  <2>3. Coming(ListenerAt[l], e)' = Coming(ListenerAt[l], e)
    BY <2>1, <2>2 DEF Coming, Count
  <2>4. Arrived(l, e) \in Nat /\ Coming(ListenerAt[l], e) \in Nat /\ There(e) \in Nat
    BY BalanceTypes
  <2> QED
    BY <2>2, <2>3, <2>4 DEF Balanced
<1>4. ASSUME NEW s \in Servers, Spread(s) PROVE Balanced(l, e)
  BY <1>4, BroadcastBalanced DEF Spread
<1>5. kafka' = kafka
  BY OtherSteps
<1> QED
  BY <1>1, <1>2, <1>3, <1>4, <1>5, OtherSteps, RestartBalanced, HandleBalanced, TransmitBalanced,
     ReceiveBalanced, DeliverBalanced, PublishedBalanced

-----------------------------------------------------------------------------
(* The invariant, and what follows from it.                                *)

LEMMA InitInv == Init => IInv
<1> SUFFICES ASSUME Init PROVE IInv
  OBVIOUS
<1>1. TypeOK
  BY InitType
<1>2. /\ pub = [s \in Servers |-> <<>>] /\ input = [s \in Servers |-> <<>>]
      /\ sending = [s \in Servers |-> None] /\ sub = [s \in Servers |-> <<>>]
      /\ handling = [s \in Servers |-> <<>>] /\ topic = [p \in Partitions |-> <<>>]
      /\ position = [s \in Servers |-> [p \in Partitions |-> None]]
      /\ channel = [l \in Listeners |-> <<>>] /\ repeats = [e \in Events |-> 0]
      /\ delivered = [l \in Listeners |-> [e \in Events |-> 0]] /\ published = {}
  BY DEF Init
<1>3. ToSet(<<>>) = {}
  BY EmptyFacts
<1>4. InPlace
  BY <1>2, <1>3 DEF InPlace
<1>5. \A e : Count(<<>>, e) = 0
  <2>1. <<>> \in Seq(Events)
    BY EmptyFacts
  <2> QED
    BY <2>1, CountFacts
<1>6. ASSUME NEW e \in Events
      PROVE  InTopic(e) = 0 /\ Queued(e) = 0 /\ Sent(e) = 0 /\ There(e) = 0
  <2>1. InTopic(e) = 0
    BY <1>2, <1>5 DEF InTopic
  <2>2. Queued(e) = 0
    <3>1. pub[PublisherOf[e]] = <<>> /\ input[PublisherOf[e]] = <<>> /\ sending[PublisherOf[e]] # e
      BY <1>2
    <3> QED
      BY <1>5, <3>1 DEF Queued
  <2>3. Sent(e) = 0
    BY <1>2 DEF Sent
  <2> QED
    BY <2>1, <2>2, <2>3 DEF There
<1>7. NotWrittenOften
  BY <1>6 DEF NotWrittenOften
<1>8. NotReadOften
  <2> SUFFICES ASSUME NEW l \in Listeners, NEW e \in Events
               PROVE  Arrived(l, e) + Coming(ListenerAt[l], e) <= There(e)
    BY <1>1, ReadParts
  <2> DEFINE s == ListenerAt[l]
  <2>1. /\ delivered[l][e] = 0 /\ channel[l] = <<>> /\ handling[s] = <<>>
        /\ sub[s] = <<>> /\ pub[s] = <<>> /\ position[s][PartitionOf[e]] = None
    BY <1>2
  <2>2. Tasks(l, e) = {} /\ Ahead(s, e) = {}
    BY <2>1 DEF Tasks, Ahead
  <2> HIDE DEF s
  <2>3. Arrived(l, e) = 0
    BY <1>5, <2>1, <2>2, FS_EmptySet DEF Arrived
  <2>4. Coming(s, e) = 0
    BY <1>5, <2>1, <2>2, FS_EmptySet DEF Coming
  <2> QED
    BY <1>6, <2>3, <2>4 DEF s
<1> QED
  BY <1>1, <1>4, <1>7, <1>8 DEF IInv

LEMMA Inductive == IInv /\ [Next]_vars => IInv'
<1> SUFFICES ASSUME IInv, [Next]_vars PROVE IInv'
  OBVIOUS
<1>1. TypeOK /\ AtPublisher /\ NoneRepeated /\ InPartition /\ Wanted
  BY InPlaceParts DEF IInv
<1>2. TypeOK'
  BY <1>1, TypeNext
<1>3. InPlace'
  <2>1. AtPublisher' /\ NoneRepeated' /\ InPartition' /\ Wanted'
    BY <1>1, AtPublisherNext, InPartitionNext, WantedNext
  <2> QED
    BY <2>1 DEF InPlace, AtPublisher, NoneRepeated, InPartition, Wanted
<1>4. kafka' = kafka
  BY OtherSteps
<1>5. NotWrittenOften'
  <2> SUFFICES ASSUME kafka, NEW e \in Events
               PROVE  InTopic(e)' + Queued(e)' <= Sent(e)'
    BY <1>4 DEF NotWrittenOften
  <2>1. InTopic(e) + Queued(e) <= Sent(e)
    BY DEF IInv, NotWrittenOften
  <2>2. InTopic(e)' + Queued(e)' + Sent(e) <= InTopic(e) + Queued(e) + Sent(e)'
    BY <1>1, <1>2, WrittenNext
  <2>3. /\ InTopic(e) \in Nat /\ Queued(e) \in Nat /\ Sent(e) \in Nat
        /\ InTopic(e)' \in Nat /\ Queued(e)' \in Nat /\ Sent(e)' \in Nat
    BY <1>1, <1>2, WrittenCounts, WrittenCountsNext DEF Written
  <2> QED
    BY <2>1, <2>2, <2>3
<1>6. \A l \in Listeners, e \in Events :
        Arrived(l, e)' + Coming(ListenerAt[l], e)' <= There(e)'
  <2> SUFFICES ASSUME NEW l \in Listeners, NEW e \in Events
               PROVE  Arrived(l, e)' + Coming(ListenerAt[l], e)' <= There(e)'
    OBVIOUS
  <2>1. Arrived(l, e) + Coming(ListenerAt[l], e) <= There(e)
    BY <1>1, ReadParts DEF IInv
  <2>2. Balanced(l, e)
    BY <1>1, <1>2, ReadNext
  <2> QED
    BY <1>1, <1>2, <2>1, <2>2, BalanceTypes DEF Balanced
<1>7. NotReadOften'
  BY <1>2, <1>6, ReadPartsNext
<1> QED
  BY <1>2, <1>3, <1>5, <1>7 DEF IInv

\* No step of the system leads out of the invariant.
THEOREM Invariance == Spec => []IInv
<1>1. Init => IInv
  BY InitInv
<1>2. IInv /\ [Next]_vars => IInv'
  BY Inductive
<1> QED
  BY <1>1, <1>2, PTL DEF Spec

\* Every variable keeps its type and every channel its bound; a consumer is
\* never ahead of the topic.
THEOREM TypeCorrect == Spec => []TypeOK
<1>1. IInv => TypeOK
  BY DEF IInv
<1> QED
  BY <1>1, Invariance, PTL

-----------------------------------------------------------------------------
(* The bus implements EventDelivery.                                       *)

\* What a listener takes from its channel it had been sent, and did not have.
LEMMA TakenWasSent ==
  ASSUME IInv, NEW l \in Listeners, channel[l] # <<>>, NEW x, x = Head(channel[l])
  PROVE  x \in Events /\ x \in Wants[l] /\ delivered[l][x] < Sent(x)
<1>1. TypeOK /\ Wanted
  BY InPlaceParts DEF IInv
<1>2. channel[l] \in Seq(Events)
  BY <1>1 DEF TypeOK
<1>3. x \in Events /\ x \in ToSet(channel[l])
  BY <1>2, QueueSets
<1>4. x \in Wants[l]
  BY <1>1, <1>3 DEF Wanted
<1>5. Count(channel[l], x) >= 1
  <2>1. Count(channel[l], x) = Count(Tail(channel[l]), x) + 1
    BY <1>2, <1>3, CountSame
  <2>2. Count(Tail(channel[l]), x) \in Nat
    BY <1>2, CountFacts
  <2> QED
    BY <2>1, <2>2
<1>6. /\ delivered[l][x] \in Nat /\ Count(channel[l], x) \in Nat
      /\ Cardinality(Tasks(l, x)) \in Nat /\ Arrived(l, x) \in Nat
      /\ Coming(ListenerAt[l], x) \in Nat /\ There(x) \in Nat
      /\ InTopic(x) \in Nat /\ Sent(x) \in Nat /\ Queued(x) \in Nat
  BY <1>1, <1>3, ReadTypes, WrittenCounts DEF Counted, Written
<1>7. delivered[l][x] < Arrived(l, x)
  BY <1>5, <1>6 DEF Arrived
<1>8. Arrived(l, x) <= There(x)
  <2>1. Arrived(l, x) + Coming(ListenerAt[l], x) <= There(x)
    BY <1>1, <1>3, ReadParts DEF IInv
  <2> QED
    BY <1>6, <2>1
<1>9. There(x) <= Sent(x)
  <2>1. CASE kafka
    <3>1. InTopic(x) + Queued(x) <= Sent(x)
      BY <1>3, <2>1 DEF IInv, NotWrittenOften
    <3>2. There(x) = InTopic(x)
      BY <2>1 DEF There
    <3> QED
      BY <1>6, <3>1, <3>2
  <2>2. CASE ~kafka
    BY <1>6, <2>2 DEF There
  <2> QED
    BY <2>1, <2>2
<1> QED
  BY <1>3, <1>4, <1>6, <1>7, <1>8, <1>9

Copies == [e \in Events |-> Sent(e)]

LEMMA RefineInit == Init => Delivery!Init
<1> SUFFICES ASSUME Init PROVE Delivery!Init
  OBVIOUS
<1>1. \A e \in Events : Sent(e) = 0
  BY DEF Init, Sent
<1>2. delivered = [l \in Listeners |-> [e \in Events |-> 0]]
  BY DEF Init
<1> QED
  BY <1>1, <1>2 DEF Delivery!Init

LEMMA RefineNext == IInv /\ IInv' /\ [Next]_vars => [Delivery!Next]_(Delivery!vars)
<1> SUFFICES ASSUME IInv, IInv', [Next]_vars
             PROVE  Delivery!Next \/ UNCHANGED <<Copies, delivered>>
  BY DEF Delivery!vars, Copies
<1>1. TypeOK /\ TypeOK' /\ AtPublisher /\ NoneRepeated
  BY InPlaceParts DEF IInv
<1>2. ASSUME UNCHANGED <<published, repeats>> PROVE Copies' = Copies
  BY <1>2 DEF Copies, Sent
<1>3. ASSUME NEW x \in Events, Published(x) PROVE Delivery!Next
  <2>1. /\ x \in publishing /\ published' = published \cup {x}
        /\ UNCHANGED <<repeats, delivered>>
    BY <1>3 DEF Published
  <2>2. x \notin published /\ repeats[x] = 0
    BY <1>1, <2>1 DEF TypeOK, NoneRepeated
  <2>3. Sent(x) = 0 /\ Sent(x)' = 1 /\ \A e \in Events \ {x} : Sent(e)' = Sent(e)
    BY <2>1, <2>2 DEF Sent
  <2>4. Copies[x] = 0 /\ Copies' = [Copies EXCEPT ![x] = 1]
    BY <2>3 DEF Copies
  <2> QED
    BY <2>1, <2>4 DEF Delivery!Next, Delivery!Publish, Copies
<1>4. ASSUME NEW s \in Servers, NEW outcome \in {"once", "twice", "lost"}, Transmit(s, outcome)
      PROVE  Delivery!Next \/ UNCHANGED <<Copies, delivered>>
  <2>1. PICK e : e = Head(input[s])
    OBVIOUS
  <2>2. /\ input[s] # <<>> /\ UNCHANGED <<published, delivered>>
        /\ repeats' = repeats \/ repeats' = [repeats EXCEPT ![e] = @ + 1]
    BY <1>4, <2>1, TransmitParts
  <2>3. CASE repeats' = repeats
    BY <1>2, <2>2, <2>3
  <2>4. CASE repeats' = [repeats EXCEPT ![e] = @ + 1]
    <3>1. e \in Events /\ e \in ToSet(input[s])
      <4>1. input[s] \in Seq(Events)
        BY <1>1 DEF TypeOK
      <4> QED
        BY <2>1, <2>2, <4>1, QueueSets
    <3>2. e \in published
      BY <1>1, <3>1 DEF AtPublisher
    <3>3. repeats \in [Events -> Nat]
      BY <1>1 DEF TypeOK
    <3>4. Sent(e) = 1 + repeats[e] /\ Sent(e)' = 1 + (repeats[e] + 1)
      BY <2>2, <2>4, <3>1, <3>2, <3>3 DEF Sent
    <3>5. \A f \in Events \ {e} : Sent(f)' = Sent(f)
      BY <2>2, <2>4, <3>1, <3>3 DEF Sent
    <3>6. Sent(e) > 0 /\ Sent(e)' = Sent(e) + 1
      <4>1. repeats[e] \in Nat
        BY <3>1, <3>3
      <4> QED
        BY <3>4, <4>1
    <3>7. Copies[e] > 0 /\ Copies' = [Copies EXCEPT ![e] = @ + 1]
      BY <3>1, <3>5, <3>6 DEF Copies
    <3> QED
      BY <2>2, <3>1, <3>7 DEF Delivery!Next, Delivery!Repeat, Copies
  <2> QED
    BY <2>2, <2>3, <2>4
<1>5. ASSUME NEW l \in Listeners, Deliver(l) PROVE Delivery!Next
  <2> DEFINE x == Head(channel[l])
  <2>1. /\ channel[l] # <<>> /\ delivered' = [delivered EXCEPT ![l][x] = @ + 1]
        /\ UNCHANGED <<published, repeats>>
    BY <1>5 DEF Deliver
  <2>2. x \in Events /\ x \in Wants[l] /\ delivered[l][x] < Sent(x)
    BY <2>1, TakenWasSent
  <2> HIDE DEF x
  <2>3. delivered[l][x] < Copies[x] /\ Copies' = Copies
    BY <1>2, <2>1, <2>2 DEF Copies
  <2> QED
    BY <2>1, <2>2, <2>3 DEF Delivery!Next, Delivery!Deliver, Copies
<1>6. ASSUME \/ \E s \in Servers : \/ Restart(s) \/ TakePub(s) \/ Input(s) \/ Handle(s) \/ Spread(s)
                                   \/ \E p \in Partitions : ConsumePartition(s, p) \/ Receive(s, p)
             \/ UNCHANGED <<published, repeats, delivered>>
      PROVE  UNCHANGED <<Copies, delivered>>
  <2>1. UNCHANGED <<published, repeats, delivered>>
    BY <1>6 DEF Restart, TakePub, Input, Handle, Spread, Broadcast, ConsumePartition, Receive
  <2> QED
    BY <1>2, <2>1
<1> QED
  BY <1>3, <1>4, <1>5, <1>6, OtherSteps

\* An event arrives only after its Publish has returned, only where somebody
\* asked for it, and at each listener no more often than it was sent, with
\* Kafka and without, through restarts, lost sends and repeated ones.
THEOREM Implements == Spec => DeliverySpec
<1>1. Init => Delivery!Init
  BY RefineInit
<1>2. IInv /\ IInv' /\ [Next]_vars => [Delivery!Next]_(Delivery!vars)
  BY RefineNext
<1> QED
  BY <1>1, <1>2, Invariance, PTL DEF Spec, DeliverySpec, Delivery!Spec
=============================================================================
