------------------------------ MODULE EventBus ------------------------------
(***************************************************************************)
(* How an event gets from Publish to the channels of those who subscribed: *)
(* through a channel to goroutines in the same server or, with Kafka,      *)
(* through the producer of one server, a partition of the topic and a      *)
(* consumer in every server.                                               *)
(*                                                                         *)
(* Channels are bounded and everything that writes to one waits.  Publish  *)
(* is called inside transactions.  The library that talks to Kafka is      *)
(* external: it sends one message at a time here, and needs room in the    *)
(* channel of its answers before it goes on.                               *)
(***************************************************************************)
EXTENDS Naturals, Sequences, FiniteSets, SequencesExt

CONSTANTS
    Servers, Listeners, Partitions,
    Events,        \* numbered in the order they are written to pubChan (bound)
    PublisherOf,   \* the server that publishes an event
    PartitionOf,   \* by its id
    ListenerAt,    \* the server of a listener
    Wants,         \* the events it subscribes to: those of its types, or "*"
    PubSize,       \* capacities: pubChan, 100
    InSize,        \* Input of the producer, 256
    AckSize,       \* Successes and Errors of the producer, 256 each
    SubSize,       \* subChan, 10
    ChanSize,      \* the channel of a listener, 100
    None,
    MaxFaults      \* bound: crashes, sends that fail or are repeated

ASSUME BusAssumption ==
    /\ PublisherOf \in [Events -> Servers]
    /\ PartitionOf \in [Events -> Partitions]
    /\ ListenerAt \in [Listeners -> Servers]
    /\ Wants \in [Listeners -> SUBSET Events]
    /\ Events \subseteq Nat /\ None \notin Nat
    /\ {PubSize, InSize, AckSize, SubSize, ChanSize} \subseteq Nat \ {0}
    /\ MaxFaults \in Nat

VARIABLES
    kafka,       \* how the servers are configured
    subscribed,  \* handlers.Listeners
    publishing,  \* calls of Publish that wait
    pub,         \* pubChan
    sending,     \* the message for which produce waits at Input
    input,
    answer,      \* what the library is about to report: of which event, how
    successes, errors, \* how many answers wait for produce
    topic,
    position,    \* of each server's consumer of a partition, None before
    sub,         \* subChan
    handling,    \* goroutines of handleMessages: event, listeners to go
    channel,     \* of each listener
    faults,
    published,   \* history: events whose Publish has returned
    repeats,     \* history: how often an event is in the topic once more
    delivered    \* history: how often a listener has taken an event

producer == <<sending, input, answer, successes, errors>>
consumer == <<position, sub>>
vars == <<kafka, subscribed, publishing, pub, producer, topic, consumer,
          handling, channel, faults, published, repeats, delivered>>

TypeOK ==
    /\ kafka \in BOOLEAN
    /\ subscribed \subseteq Listeners
    /\ publishing \subseteq Events /\ published \subseteq Events \ publishing
    /\ \A s \in Servers : /\ Len(pub[s]) <= PubSize
                          /\ Len(input[s]) <= InSize
                          /\ Len(sub[s]) <= SubSize
    /\ pub \in [Servers -> Seq(Events)]
    /\ input \in [Servers -> Seq(Events)]
    /\ sub \in [Servers -> Seq(Events)]
    /\ sending \in [Servers -> Events \cup {None}]
    /\ answer \in [Servers -> {"none", "success", "error"}]
    /\ successes \in [Servers -> 0 .. AckSize]
    /\ errors \in [Servers -> 0 .. AckSize]
    /\ topic \in [Partitions -> Seq(Events)]
    /\ position \in [Servers -> [Partitions -> Nat \cup {None}]]
    /\ \A s \in Servers, p \in Partitions :
         position[s][p] # None => position[s][p] <= Len(topic[p])
    /\ handling \in [Servers -> Seq([event : Events, to : SUBSET Listeners])]
    /\ channel \in [Listeners -> Seq(Events)]
    /\ \A l \in Listeners : Len(channel[l]) <= ChanSize
    /\ faults \in 0 .. MaxFaults
    /\ repeats \in [Events -> Nat]
    /\ delivered \in [Listeners -> [Events -> Nat]]

Fault == faults < MaxFaults /\ faults' = faults + 1

-----------------------------------------------------------------------------
(* Publish and Subscribe.                                                  *)

Subscribe(l) ==
    /\ l \notin subscribed
    /\ subscribed' = subscribed \cup {l}
    /\ UNCHANGED <<kafka, publishing, pub, producer, topic, consumer,
                   handling, channel, faults, published, repeats, delivered>>

Publish(e) ==
    /\ e \notin publishing \cup published
    /\ \A f \in Events : f < e => f \in publishing \cup published
    /\ publishing' = publishing \cup {e}
    /\ UNCHANGED <<kafka, subscribed, pub, producer, topic, consumer,
                   handling, channel, faults, published, repeats, delivered>>

\* Mutant: a slice instead of a channel.
PublishedAnyway(e) ==
    /\ e \in publishing
    /\ publishing' = publishing \ {e}
    /\ published' = published \cup {e}
    /\ pub' = [pub EXCEPT ![PublisherOf[e]] = Append(@, e)]
    /\ UNCHANGED <<kafka, subscribed, producer, topic, consumer, handling,
                   channel, faults, repeats, delivered>>

\* case pubChan <- msg
Published(e) ==
    LET s == PublisherOf[e] IN
    /\ e \in publishing
    /\ \A f \in publishing : e <= f
    /\ Len(pub[s]) < PubSize
    /\ publishing' = publishing \ {e}
    /\ published' = published \cup {e}
    /\ pub' = [pub EXCEPT ![s] = Append(@, e)]
    /\ UNCHANGED <<kafka, subscribed, producer, topic, consumer, handling,
                   channel, faults, repeats, delivered>>

-----------------------------------------------------------------------------
(* produce, and the library behind it.                                     *)

\* case msg := <-pub
TakePub(s) ==
    /\ kafka
    /\ sending[s] = None
    /\ pub[s] # <<>>
    /\ sending' = [sending EXCEPT ![s] = Head(pub[s])]
    /\ pub' = [pub EXCEPT ![s] = Tail(@)]
    /\ UNCHANGED <<kafka, subscribed, publishing, input, answer, successes,
                   errors, topic, consumer, handling, channel, faults,
                   published, repeats, delivered>>

\* input <- pm: nothing else is looked at meanwhile.
Input(s) ==
    /\ sending[s] # None
    /\ Len(input[s]) < InSize
    /\ input' = [input EXCEPT ![s] = Append(@, sending[s])]
    /\ sending' = [sending EXCEPT ![s] = None]
    /\ UNCHANGED <<kafka, subscribed, publishing, pub, answer, successes,
                   errors, topic, consumer, handling, channel, faults,
                   published, repeats, delivered>>

\* The library sends the oldest message: it arrives, or all attempts fail, or
\* it arrives twice, as an attempt of which the answer was lost is repeated.
Transmit(s, outcome) ==
    LET e == Head(input[s])
        p == PartitionOf[e] IN
    /\ input[s] # <<>>
    /\ answer[s] = "none"
    /\ input' = [input EXCEPT ![s] = Tail(@)]
    /\ answer' = [answer EXCEPT ![s] =
                    IF outcome = "lost" THEN "error" ELSE "success"]
    /\ topic' = [topic EXCEPT ![p] = CASE outcome = "once" -> @ \o <<e>>
                                       [] outcome = "twice" -> @ \o <<e, e>>
                                       [] outcome = "lost" -> @]
    /\ repeats' = IF outcome = "twice" THEN [repeats EXCEPT ![e] = @ + 1]
                  ELSE repeats
    /\ IF outcome = "once" THEN UNCHANGED faults ELSE Fault
    /\ UNCHANGED <<kafka, subscribed, publishing, pub, sending, successes,
                   errors, consumer, handling, channel, published, delivered>>

Answer(s) ==
    /\ answer[s] # "none"
    /\ IF answer[s] = "success"
       THEN /\ successes[s] < AckSize
            /\ successes' = [successes EXCEPT ![s] = @ + 1]
            /\ UNCHANGED errors
       ELSE /\ errors[s] < AckSize
            /\ errors' = [errors EXCEPT ![s] = @ + 1]
            /\ UNCHANGED successes
    /\ answer' = [answer EXCEPT ![s] = "none"]
    /\ UNCHANGED <<kafka, subscribed, publishing, pub, sending, input,
                   topic, consumer, handling, channel, faults, published,
                   repeats, delivered>>


\* case pm := <-success, case pe := <-errors: the event of an error is lost.
TakeAnswer(s) ==
    /\ sending[s] = None
    /\ \/ /\ successes[s] > 0
          /\ successes' = [successes EXCEPT ![s] = @ - 1]
          /\ UNCHANGED errors
       \/ /\ errors[s] > 0
          /\ errors' = [errors EXCEPT ![s] = @ - 1]
          /\ UNCHANGED successes
    /\ UNCHANGED <<kafka, subscribed, publishing, pub, sending, input,
                   answer, topic, consumer, handling, channel, faults,
                   published, repeats, delivered>>

-----------------------------------------------------------------------------
(* consumePartition and handleMessages.                                    *)

\* Mutant: OffsetOldest.
ConsumePartitionOldest(s, p) ==
    /\ kafka
    /\ position[s][p] = None
    /\ position' = [position EXCEPT ![s][p] = 0]
    /\ UNCHANGED <<kafka, subscribed, publishing, pub, producer, topic,
                   sub, handling, channel, faults, published, repeats,
                   delivered>>

\* OffsetNewest: what is in the topic already is not for this server.
ConsumePartition(s, p) ==
    /\ kafka
    /\ position[s][p] = None
    /\ position' = [position EXCEPT ![s][p] = Len(topic[p])]
    /\ UNCHANGED <<kafka, subscribed, publishing, pub, producer, topic,
                   sub, handling, channel, faults, published, repeats,
                   delivered>>


\* sub <- Message
Receive(s, p) ==
    /\ position[s][p] # None
    /\ position[s][p] < Len(topic[p])
    /\ Len(sub[s]) < SubSize
    /\ position' = [position EXCEPT ![s][p] = @ + 1]
    /\ sub' = [sub EXCEPT ![s] = Append(@, topic[p][position[s][p] + 1])]
    /\ UNCHANGED <<kafka, subscribed, publishing, pub, producer, topic,
                   handling, channel, faults, published, repeats, delivered>>

\* GetListeners.
ListenersOf(s, e) == {l \in subscribed : ListenerAt[l] = s /\ e \in Wants[l]}

\* handleMessages starts a goroutine, which looks up the listeners.
Handle(s) ==
    LET source == IF kafka THEN sub[s] ELSE pub[s] IN
    /\ source # <<>>
    /\ IF kafka THEN sub' = [sub EXCEPT ![s] = Tail(@)] /\ UNCHANGED pub
       ELSE pub' = [pub EXCEPT ![s] = Tail(@)] /\ UNCHANGED sub
    /\ handling' = [handling EXCEPT ![s] =
         IF ListenersOf(s, Head(source)) = {} THEN @
         ELSE Append(@, [event |-> Head(source),
                         to |-> ListenersOf(s, Head(source))])]
    /\ UNCHANGED <<kafka, subscribed, publishing, producer, topic,
                   position, channel, faults, published, repeats, delivered>>

\* ch <- e, in any order of goroutines and listeners.
Broadcast(s, i, l) ==
    LET h == handling[s][i] IN
    /\ l \in h.to
    /\ Len(channel[l]) < ChanSize
    /\ channel' = [channel EXCEPT ![l] = Append(@, h.event)]
    /\ handling' = [handling EXCEPT ![s] =
         IF h.to = {l} THEN RemoveAt(@, i)
         ELSE ReplaceAt(@, i, [h EXCEPT !.to = @ \ {l}])]
    /\ UNCHANGED <<kafka, subscribed, publishing, pub, producer, topic,
                   consumer, faults, published, repeats, delivered>>

\* eventConsumer takes it.
Deliver(l) ==
    /\ channel[l] # <<>>
    /\ channel' = [channel EXCEPT ![l] = Tail(@)]
    /\ delivered' = [delivered EXCEPT ![l][Head(channel[l])] = @ + 1]
    /\ UNCHANGED <<kafka, subscribed, publishing, pub, producer, topic,
                   consumer, handling, faults, published, repeats>>

-----------------------------------------------------------------------------
\* A server stops and starts: what is in memory is gone, the topic stays.
\* It neither consumes nor listens until it gets round to it, as at first.
Restart(s) ==
    /\ Fault
    /\ subscribed' = {l \in subscribed : ListenerAt[l] # s}
    /\ publishing' = {e \in publishing : PublisherOf[e] # s}
    /\ pub' = [pub EXCEPT ![s] = <<>>]
    /\ sending' = [sending EXCEPT ![s] = None]
    /\ input' = [input EXCEPT ![s] = <<>>]
    /\ answer' = [answer EXCEPT ![s] = "none"]
    /\ successes' = [successes EXCEPT ![s] = 0]
    /\ errors' = [errors EXCEPT ![s] = 0]
    /\ position' = [position EXCEPT ![s] = [p \in Partitions |-> None]]
    /\ sub' = [sub EXCEPT ![s] = <<>>]
    /\ handling' = [handling EXCEPT ![s] = <<>>]
    /\ channel' = [l \in Listeners |-> IF ListenerAt[l] = s THEN <<>>
                                       ELSE channel[l]]
    /\ UNCHANGED <<kafka, topic, published, repeats, delivered>>

Init ==
    /\ kafka \in BOOLEAN /\ subscribed = {}
    /\ publishing = {} /\ published = {}
    /\ pub = [s \in Servers |-> <<>>] /\ input = [s \in Servers |-> <<>>]
    /\ sending = [s \in Servers |-> None]
    /\ answer = [s \in Servers |-> "none"]
    /\ successes = [s \in Servers |-> 0] /\ errors = [s \in Servers |-> 0]
    /\ topic = [p \in Partitions |-> <<>>]
    /\ position = [s \in Servers |-> [p \in Partitions |-> None]]
    /\ sub = [s \in Servers |-> <<>>]
    /\ handling = [s \in Servers |-> <<>>]
    /\ channel = [l \in Listeners |-> <<>>]
    /\ faults = 0
    /\ repeats = [e \in Events |-> 0]
    /\ delivered = [l \in Listeners |-> [e \in Events |-> 0]]

Produce(s) == TakePub(s) \/ Input(s) \/ TakeAnswer(s)
Send(s) == Answer(s) \/ \E outcome \in {"once", "twice", "lost"} :
                          Transmit(s, outcome)
Consume(s) == \E p \in Partitions : ConsumePartition(s, p) \/ Receive(s, p)
Spread(s) ==
    \E i \in DOMAIN handling[s] : \E l \in handling[s][i].to : Broadcast(s, i, l)

Next ==
    \/ \E s \in Servers : Restart(s)
    \/ \E l \in Listeners : Subscribe(l) \/ Deliver(l)
    \/ \E e \in Events : Publish(e) \/ Published(e)
    \/ \E s \in Servers : Produce(s) \/ Send(s) \/ Consume(s) \/ Handle(s)
                            \/ Spread(s)

Spec == Init /\ [][Next]_vars

\* Goroutines run and Kafka answers.
Fairness ==
    /\ \A e \in Events : WF_vars(Published(e))
    /\ \A s \in Servers : /\ WF_vars(Produce(s)) /\ WF_vars(Send(s))
                          /\ WF_vars(Consume(s)) /\ WF_vars(Handle(s))
                          /\ WF_vars(Spread(s))
    /\ \A l \in Listeners : WF_vars(Deliver(l))

FairSpec == Spec /\ Fairness

-----------------------------------------------------------------------------
(* Properties.                                                             *)

\* The bus implements EventDelivery: an event was sent when its Publish had
\* returned, and once more for every time it is repeated.
Sent(e) == IF e \in published THEN 1 + repeats[e] ELSE 0
Delivery == INSTANCE EventDelivery WITH copies <- [e \in Events |-> Sent(e)]
DeliverySpec == Delivery!Spec

\* The invariant by which this is proved.  Events are only where they belong,
InPlace ==
    /\ \A s \in Servers : \A e \in ToSet(pub[s]) \cup ToSet(input[s]) \cup {sending[s]} :
         e # None => PublisherOf[e] = s /\ e \in published
    /\ \A e \in Events \ published : repeats[e] = 0
    /\ \A p \in Partitions : \A e \in ToSet(topic[p]) : PartitionOf[e] = p
    /\ \A l \in Listeners : ToSet(channel[l]) \subseteq Wants[l]
    /\ \A s \in Servers : \A h \in ToSet(handling[s]) : \A l \in h.to :
         ListenerAt[l] = s /\ h.event \in Wants[l]
\* none is written to the topic more often than it was sent,
Count(q, e) == Cardinality({i \in DOMAIN q : q[i] = e})
InTopic(e) == Count(topic[PartitionOf[e]], e)
Queued(e) ==
    LET s == PublisherOf[e] IN
    Count(pub[s], e) + Count(input[s], e) + (IF sending[s] = e THEN 1 ELSE 0)
NotWrittenOften == kafka => \A e \in Events : InTopic(e) + Queued(e) <= Sent(e)
\* and none has come to a listener, or will come, more often than it is there.
Tasks(l, e) == {i \in DOMAIN handling[ListenerAt[l]] :
                  LET h == handling[ListenerAt[l]][i] IN h.event = e /\ l \in h.to}
Arrived(l, e) == delivered[l][e] + Count(channel[l], e) + Cardinality(Tasks(l, e))
Ahead(s, e) ==
    LET p == PartitionOf[e] IN
    IF position[s][p] = None THEN {}
    ELSE {i \in DOMAIN topic[p] : i > position[s][p] /\ topic[p][i] = e}
NotReadOften ==
    \A l \in Listeners, e \in Events :
        LET s == ListenerAt[l] IN
        IF kafka
        THEN Arrived(l, e) + Count(sub[s], e) + Cardinality(Ahead(s, e)) <= InTopic(e)
        ELSE Arrived(l, e) + Count(pub[s], e) <= Sent(e)

IInv == TypeOK /\ InPlace /\ NotWrittenOften /\ NotReadOften

\* Event e waits in its server for room to get on.
Waits(e) ==
    LET s == PublisherOf[e] IN
    \/ e \in publishing \/ sending[s] = e
    \/ Contains(pub[s], e) \/ Contains(input[s], e)


\* Where event e is on its way to listener l.
UnderWay(l, e) ==
    LET s == ListenerAt[l] IN
    \/ ~kafka /\ PublisherOf[e] = s /\ Contains(pub[s], e)
    \/ Contains(sub[s], e)
    \/ LET p == PartitionOf[e] IN
       position[s][p] # None /\ \E i \in DOMAIN topic[p] :
                                   i > position[s][p] /\ topic[p][i] = e
    \/ \E i \in DOMAIN handling[s] :
         handling[s][i].event = e /\ l \in handling[s][i].to
    \/ Contains(channel[l], e)

=============================================================================
