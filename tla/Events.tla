------------------------------- MODULE Events -------------------------------
(***************************************************************************)
(* Events between services: svc::EventPublisher on a zmq::Publisher at one *)
(* end, svc::EventProcessor with its zmq::Subscriber sockets and the       *)
(* handlers of an svc::EventSubscriptionMap at the other.                  *)
(*                                                                         *)
(* The subscriber has one local source, subscribed to by subscribeLocal,   *)
(* and one peer, added and removed with addPeer and removePeer.  A topic   *)
(* is a sequence of characters (<<>> stands for all topics), a message a   *)
(* sequence of frames.  ZeroMQ filters on a prefix of the first frame and  *)
(* loses a message for a subscriber that is not connected yet or too slow. *)
(* A message makes the descriptor readable only if the reader has found    *)
(* its pipe empty; the descriptor stays so until a receive that finds      *)
(* nothing to take processes the commands behind it.                       *)
(***************************************************************************)
EXTENDS Integers, Sequences, FiniteSets, Functions

CONSTANTS
    Topics,         \* what is published
    Types,          \* the types of the messages published
    Handlers,       \* Handlers[s]: the type that each topic's handler expects
    ServerKey,      \* ServerKey[s]: the private key of the publisher, <<>> for none
    PeerKeys,       \* the public keys that addPeer may be given
    MaxEvents,      \* MaxEvents[s]: how many events are published
    MaxTries        \* MaxTries[s]: how often a subscription is tried

Sources == {"local", "peer"}

ASSUME BoundsAssumption == MaxTries \in [Sources -> Nat]

VARIABLES
    pub,        \* pub[s]: the publisher's socket, [open, matched, torn]
    frames,     \* frames[s]: those it was given of a message not yet ended
    events,     \* the events published, [source, topic, type] each
    conn,       \* conn[s]: the subscriber's socket, [state, key, reading]
    queue,      \* queue[s]: the frames in its pipe
    active,     \* active[s]: the reader did not find the pipe empty since it was signalled
    readable,   \* readable[s]: so is the socket's descriptor
    posted,     \* handlers posted to the scheduler: [source, handler, event]
    handled,    \* those that ran
    tries       \* tries[s]: how often a subscription was tried

pipe == <<queue, active, readable>>
vars == <<pub, frames, events, conn, pipe, posted, handled, tries>>

-----------------------------------------------------------------------------
\* setupServerCurve: the public half of the server's key, if it has one.
setupServerCurve(key) == IF key = <<>> THEN <<>> ELSE <<"public", key>>

\* External: CurveMQ lets in a client that was given the server's key, and an
\* unprotected socket one that was given none.
connects(s, key) == key = setupServerCurve(ServerKey[s])

\* matched: the message not yet ended goes to the subscriber; torn: a message
\* was left unended.
unbound == [open |-> FALSE, matched |-> FALSE, torn |-> FALSE]

\* state: "none", "connected" (inside addPeer or subscribeLocal) or
\* "listening"; reading: a callback waits for the descriptor.
noSocket == [state |-> "none", key |-> <<>>, reading |-> FALSE]

Init ==
    /\ pub = [s \in Sources |-> unbound]
    /\ frames = [s \in Sources |-> <<>>]
    /\ events = <<>>
    /\ conn = [s \in Sources |-> noSocket]
    /\ queue = [s \in Sources |-> <<>>]
    /\ active = [s \in Sources |-> FALSE]
    /\ readable = [s \in Sources |-> FALSE]
    /\ posted = <<>>
    /\ handled = <<>>
    /\ tries = [s \in Sources |-> 0]

\* Creating, securing or binding the socket may fail; it is closed then.
bindSocket == {[unbound EXCEPT !.open = TRUE], unbound}

openPort(s) ==
    /\ ~pub[s].open
    /\ \E socket \in bindSocket : pub' = [pub EXCEPT ![s] = socket]
    /\ UNCHANGED <<frames, events, conn, pipe, posted, handled, tries>>

-----------------------------------------------------------------------------
\* The JSON of the envelope around event e; reading it back.
toJson(e) == <<"{", e>>

isJson(data) == Len(data) = 2 /\ data[1] = "{"

nullFrame == <<>>

ASSUME TopicsAssumption == \A t \in Topics : ~isJson(t)

\* External: a subscription to t lets frames through that begin with t.
startsWith(frame, t) == Len(t) <= Len(frame) /\ SubSeq(frame, 1, Len(t)) = t

\* External: the publisher sends to a subscriber whose filter matches.
matches(s, frame) ==
    /\ conn[s].state # "none"
    /\ connects(s, conn[s].key)
    /\ \E t \in DOMAIN Handlers[s] : startsWith(frame, t)

\* External: a whole message reaches the subscriber's pipe.
arrive(s, message) ==
    /\ queue' = [queue EXCEPT ![s] = @ \o message]
    /\ readable' = [readable EXCEPT ![s] = @ \/ (~active[s] /\ queue[s] = <<>>)]
    /\ UNCHANGED active

\* The two sends: the first fails, or the second, or none; what goes out, and
\* whether that ends a message.
send(topic, data) ==
    {[out |-> <<>>, ended |-> FALSE, torn |-> FALSE],
     [out |-> <<topic>>, ended |-> FALSE, torn |-> FALSE],
     [out |-> <<topic, data>>, ended |-> TRUE, torn |-> FALSE]}

\* A defect: the missing frame is not sent.
sendMissingFrameNever(r) == {r}

\* A message of which only the topic was sent gets a null frame, unless that
\* send fails too.
sendMissingFrame(r) ==
    IF Len(r.out) = 1
    THEN {[out |-> <<r.out[1], nullFrame>>, ended |-> TRUE, torn |-> FALSE],
          [out |-> r.out, ended |-> FALSE, torn |-> TRUE]}
    ELSE {r}

\* EventPublisher::publish.  A message that is ended leaves, and reaches the
\* subscriber or is lost.
publish(s, topic, type) ==
    /\ Cardinality({e \in DOMAIN events : events[e].source = s}) < MaxEvents[s]
    /\ pub[s].open
    /\ topic # <<>>
    /\ events' = Append(events, [source |-> s, topic |-> topic, type |-> type])
    /\ \E r \in send(topic, toJson(Len(events) + 1)) : \E m \in sendMissingFrame(r) :
          LET matched == IF frames[s] = <<>> THEN matches(s, topic) ELSE pub[s].matched
              message == frames[s] \o m.out
          IN  /\ frames' = [frames EXCEPT ![s] = IF m.ended THEN <<>> ELSE message]
              /\ pub' = [pub EXCEPT ![s].matched = matched /\ ~m.ended /\ message # <<>>,
                                    ![s].torn = @ \/ m.torn]
              /\ \/ UNCHANGED pipe
                 \/ m.ended /\ matched /\ arrive(s, message)
    /\ UNCHANGED <<conn, posted, handled, tries>>

-----------------------------------------------------------------------------
\* A defect: the handler of all topics is looked for first.
getServiceHandlerAllFirst(topic) ==
    LET handlers == DOMAIN Handlers["local"]
    IN  IF <<>> \in handlers THEN {<<>>} ELSE {topic} \cap handlers

\* The handler of the topic, or else the one of all topics.
getServiceHandler(topic) ==
    LET handlers == DOMAIN Handlers["local"]
    IN  IF topic \in handlers THEN {topic} ELSE {<<>>} \cap handlers

getPeerHandler(topic) == {topic} \cap DOMAIN Handlers["peer"]

getHandler(s, topic) ==
    IF s = "local" THEN getServiceHandler(topic) ELSE getPeerHandler(topic)

\* A defect: the frames are looked at and not taken.
rest2Peek(q) == q

\* The frames behind the two that are taken.
rest2(q) == SubSeq(q, 3, Len(q))

\* Subscriber::recv: a topic frame and a data frame, or nothing.  A topic
\* without data is an error.  A receive that finds nothing to take at once
\* processes the pending commands.
recv(s) ==
    LET q == queue[s]
    IN  IF Len(q) < 2
        THEN [ok |-> q = <<>>, got |-> <<>>, rest |-> <<>>]
        ELSE [ok |-> TRUE, got |-> <<q[1], q[2]>>, rest |-> rest2(q)]

\* What the callback of queueRead makes of a receive: the handlers to post (at
\* most one), and whether all went well.
dispatch(s, r) ==
    LET topic == r.got[1]
        data == r.got[2]
    IN  IF ~r.ok \/ r.got = <<>>
        THEN [ok |-> r.ok, post |-> <<>>]
        ELSE IF data = nullFrame \/ topic = <<>> \/ ~isJson(data) \/ getHandler(s, topic) = {}
             THEN [ok |-> FALSE, post |-> <<>>]
             ELSE [ok |-> TRUE,
                   post |-> <<[source |-> s, event |-> data[2],
                               handler |-> CHOOSE h \in getHandler(s, topic) : TRUE]>>]

\* A defect: the read is queued again only if the event was dealt with.
requeueIfOk(ok) == ok

\* The read is queued again, whatever became of the event.
requeue(ok) == TRUE

Busy == \E s \in Sources : conn[s].state = "connected"

\* The callback, as far as the pipe and the scheduler go.
callback(s) ==
    LET r == recv(s)
    IN  /\ posted' = posted \o dispatch(s, r).post
        /\ queue' = [queue EXCEPT ![s] = r.rest]
        /\ active' = [active EXCEPT ![s] = r.got # <<>>]
        /\ readable' = [readable EXCEPT ![s] = @ /\ active[s] /\ r.got # <<>>]

\* queueRead: the descriptor is readable and the scheduler runs the callback.
queueRead(s) ==
    /\ ~Busy
    /\ conn[s].state = "listening"
    /\ conn[s].reading /\ readable[s]
    /\ callback(s)
    /\ conn' = [conn EXCEPT ![s].reading = requeue(dispatch(s, recv(s)).ok)]
    /\ UNCHANGED <<pub, frames, events, handled, tries>>

\* A posted handler runs; the event's message must have the type it expects.
runHandler ==
    /\ ~Busy
    /\ posted # <<>>
    /\ posted' = Tail(posted)
    /\ LET p == Head(posted)
       IN  handled' = IF events[p.event].type = Handlers[p.source][p.handler]
                      THEN Append(handled, p) ELSE handled
    /\ UNCHANGED <<pub, frames, events, conn, pipe, tries>>

-----------------------------------------------------------------------------
\* Subscriber::connect and subscribe: any of the calls may fail, and the socket
\* is closed then.  Whether the connection succeeds is not known here.
connectSocket(key) == {[state |-> "connected", key |-> key, reading |-> FALSE], noSocket}

subscribe(s, key) ==
    /\ ~Busy
    /\ conn[s].state = "none"
    /\ tries[s] < MaxTries[s]
    /\ tries' = [tries EXCEPT ![s] = @ + 1]
    /\ \E c \in connectSocket(key) : conn' = [conn EXCEPT ![s] = c]
    /\ UNCHANGED <<pub, frames, events, pipe, posted, handled>>

subscribeLocal == DOMAIN Handlers["local"] # {} /\ subscribe("local", <<>>)

addPeer(key) == DOMAIN Handlers["peer"] # {} /\ subscribe("peer", key)

\* A defect: the pipe outlives its socket.
closeNot(s) ==
    /\ conn' = [conn EXCEPT ![s] = noSocket]
    /\ pub' = [pub EXCEPT ![s].matched = FALSE]
    /\ UNCHANGED pipe

\* Subscriber::close: what is in the pipe is lost.
close(s) ==
    /\ conn' = [conn EXCEPT ![s] = noSocket]
    /\ pub' = [pub EXCEPT ![s].matched = FALSE]
    /\ queue' = [queue EXCEPT ![s] = <<>>]
    /\ active' = [active EXCEPT ![s] = FALSE]
    /\ readable' = [readable EXCEPT ![s] = FALSE]

\* The new reader is called back at once, with the Details of the caller: an
\* event that came already and is refused fails the whole subscription.
startListening(s) ==
    /\ conn[s].state = "connected"
    /\ \/ /\ dispatch(s, recv(s)).ok
          /\ callback(s)
          /\ conn' = [conn EXCEPT ![s].state = "listening", ![s].reading = TRUE]
          /\ UNCHANGED pub
       \/ /\ ~dispatch(s, recv(s)).ok
          /\ close(s)
          /\ UNCHANGED posted
    /\ UNCHANGED <<frames, events, handled, tries>>

removePeer ==
    /\ ~Busy
    /\ conn["peer"].state # "none"
    /\ close("peer")
    /\ UNCHANGED <<frames, events, posted, handled, tries>>

\* External: other commands of ZeroMQ, a connection coming about for one, make
\* the descriptor readable too.
otherCommand(s) ==
    /\ conn[s].state = "listening"
    /\ ~readable[s]
    /\ readable' = [readable EXCEPT ![s] = TRUE]
    /\ UNCHANGED <<pub, frames, events, conn, queue, active, posted, handled, tries>>

Next ==
    \/ \E s \in Sources : openPort(s) \/ queueRead(s) \/ startListening(s) \/ otherCommand(s)
    \/ \E s \in Sources, topic \in Topics, type \in Types : publish(s, topic, type)
    \/ runHandler
    \/ subscribeLocal
    \/ \E key \in PeerKeys : addPeer(key)
    \/ removePeer

\* The scheduler's thread runs while the service does: a callback that is due
\* and a handler that is posted run, and a call of addPeer goes on.
Fairness ==
    /\ \A s \in Sources : WF_vars(queueRead(s)) /\ WF_vars(startListening(s))
    /\ WF_vars(runHandler)

Spec == Init /\ [][Next]_vars /\ Fairness

-----------------------------------------------------------------------------
\* The types of the state; a subscriber that is gone has nothing in its pipe,
\* and one whose descriptor is not readable missed no message that came to an
\* empty pipe (zmq/Subscriber.cpp, svc/events/EventProcessor.cpp).
ETypeOK ==
    /\ \A s \in Sources :
          /\ pub[s].open \in BOOLEAN /\ pub[s].torn \in BOOLEAN
          /\ pub[s].matched => frames[s] # <<>> /\ conn[s].state # "none"
          /\ conn[s].state \in {"none", "connected", "listening"}
          /\ conn[s].state = "none" => queue[s] = <<>> /\ ~readable[s]
          /\ queue[s] # <<>> => active[s] \/ readable[s]
          /\ tries[s] \in 0 .. MaxTries[s]
    /\ \A p \in Range(posted) \cup Range(handled) : p.event \in DOMAIN events

\* An event only reaches a handler that was registered for its source, with its
\* own topic if there is such a handler and with all topics otherwise; and a
\* peer's only the one with its topic.  A subscription by prefix, a publish
\* that failed half-way and a reader that lost count of the frames never lead
\* an event to another handler (EventSubscriptionMap.cpp:6-30,
\* EventProcessor.cpp:37-85).
RightHandler ==
    \A p \in Range(posted) \cup Range(handled) :
       LET e == events[p.event]
       IN  /\ p.source = e.source
           /\ p.handler \in DOMAIN Handlers[p.source]
           /\ \/ p.handler = e.topic
              \/ /\ p.source = "local"
                 /\ p.handler = <<>>
                 /\ e.topic \notin DOMAIN Handlers["local"]

\* The handlers of a source run in the order in which its events were
\* published, at most once per event, over removals and renewed subscriptions
\* of the peer (EventProcessor.cpp:79-84, 112-176).
InOrderOnce ==
    LET all == handled \o posted
    IN  \A i, j \in DOMAIN all :
           i < j /\ all[i].source = all[j].source => all[i].event < all[j].event

\* As long as the missing frame of a half-sent message goes out, a failed
\* publish costs its own event only: the frames in the pipe are pairs of a
\* topic and the data of an event with that topic, or of a topic and the null
\* frame (Publisher.cpp:153-161, Subscriber.cpp:148-191).
FramesPaired ==
    \A s \in Sources :
       LET q == queue[s]
       IN  ~pub[s].torn =>
              /\ Len(q) % 2 = 0
              /\ \A i \in 1 .. Len(q) \div 2 :
                    /\ q[2 * i - 1] \in Topics
                    /\ \/ q[2 * i] = nullFrame
                       \/ isJson(q[2 * i]) /\ events[q[2 * i][2]].topic = q[2 * i - 1]

\* A waiting event is the first in the pipe of a reader whose descriptor is
\* readable.
Waiting(e) ==
    /\ e \in DOMAIN events
    /\ LET s == events[e].source
       IN  /\ conn[s].state = "listening" /\ readable[s]
           /\ Len(queue[s]) >= 2
           /\ queue[s][1] = events[e].topic /\ queue[s][2] = toJson(e)

\* It was handled, the peer was removed, or nobody handles such an event.
Settled(e) ==
    LET s == events[e].source
    IN  \/ \E p \in Range(handled) : p.event = e
        \/ conn[s].state = "none"
        \/ \A h \in getHandler(s, events[e].topic) : Handlers[s][h] # events[e].type

\* An event that comes to a reader which had found its pipe empty is handled,
\* whatever was wrong with the ones before it, unless the peer is removed or
\* nobody handles such an event (EventProcessor.cpp:87-89).
WaitingEventHandled ==
    \A e \in 1 .. MaxEvents["local"] + MaxEvents["peer"] :
       Waiting(e) ~> (e \in DOMAIN events /\ Settled(e))
=============================================================================
