---------------------------- MODULE EventsProofs ----------------------------
(***************************************************************************)
(* Events for any topics, handlers, keys and numbers of events: an event   *)
(* only reaches the handler it is meant for, even if a publisher left      *)
(* messages unended and readers take the frames in the wrong pairs; the    *)
(* handlers of a source are called in the order of its events, once each;  *)
(* the pipe holds whole messages while none was left unended; and no message *)
(* lies unnoticed in a pipe that its reader had found empty.               *)
(***************************************************************************)
EXTENDS Events, SequenceTheorems, TLAPS

\* Leaves that name no prover are left to Zenon.
USE Zenon

Frame == Topics \cup {nullFrame} \cup {toJson(e) : e \in Nat}

\* A frame of data comes behind the topic of its event.
Announces(ev, t, d, s) ==
    isJson(d) => /\ d[2] \in DOMAIN ev
                 /\ ev[d[2]].topic = t
                 /\ ev[d[2]].source = s

Follows(ev, q, s) == \A i \in 1 .. Len(q) - 1 : Announces(ev, q[i], q[i + 1], s)

EventSet == [source : Sources, topic : Topics, type : Types]

HandlerSet == UNION {DOMAIN Handlers[s] : s \in Sources}

PostSet == [source : Sources, event : Nat, handler : HandlerSet]

Fits(ev, p) ==
    /\ p.event \in DOMAIN ev
    /\ p.source = ev[p.event].source
    /\ p.handler \in DOMAIN Handlers[p.source]
    /\ \/ p.handler = ev[p.event].topic
       \/ /\ p.source = "local"
          /\ p.handler = <<>>
          /\ ev[p.event].topic \notin DOMAIN Handlers["local"]

\* The pending frames of a publisher are topics; in a pipe every frame of data
\* comes behind its topic, wherever a reader that lost count may look.
EInv ==
    /\ events \in Seq(EventSet)
    /\ frames \in [Sources -> Seq(Topics)]
    /\ queue \in [Sources -> Seq(Frame)]
    /\ posted \in Seq(PostSet)
    /\ handled \in Seq(PostSet)
    /\ \A s \in Sources : Follows(events, queue[s], s)
    /\ \A i \in DOMAIN posted : Fits(events, posted[i])
    /\ \A i \in DOMAIN handled : Fits(events, handled[i])

\* The invariant holds at the start.
LEMMA InitEInv == Init => EInv
BY SMT DEF Init, EInv, Follows, Sources

\* It implies that events reach their handlers only.
LEMMA EInvRight == EInv => RightHandler
BY SMT DEF EInv, Fits, RightHandler, Range

\* The frames behind the two that are taken.
LEMMA RestFrames ==
    ASSUME NEW q \in Seq(Frame), Len(q) >= 2
    PROVE  /\ rest2(q) \in Seq(Frame)
           /\ Len(rest2(q)) = Len(q) - 2
           /\ \A i \in 1 .. Len(q) - 2 : rest2(q)[i] = q[i + 2]
<1> DEFINE z == SubSeq(q, 3, Len(q))
           n == Len(q)
<1>1. \A i \in 3 .. Len(q) : q[i] \in Frame
  BY ElementOfSeq, SMT
<1>2. /\ z \in Seq(Frame)
      /\ Len(z) = IF 3 <= Len(q) THEN Len(q) - 3 + 1 ELSE 0
      /\ \A i \in 1 .. Len(q) - 3 + 1 : z[i] = q[3 + i - 1]
  BY <1>1, SubSeqProperties, LenProperties, SMT
<1>3. n \in Nat /\ n >= 2
  BY SMT
<1>4. /\ Len(z) = IF 3 <= n THEN n - 3 + 1 ELSE 0
      /\ \A i \in 1 .. n - 3 + 1 : z[i] = q[3 + i - 1]
  BY <1>2
<1> HIDE DEF n, z
<1>5. Len(z) = n - 2
  BY <1>3, <1>4, SMT
<1>6. ASSUME NEW i \in 1 .. n - 2 PROVE z[i] = q[i + 2]
  <2>1. i \in 1 .. n - 3 + 1 /\ 3 + i - 1 = i + 2
    BY <1>3, SMT
  <2> QED BY <1>4, <2>1
<1> QED
  BY <1>2, <1>5, <1>6 DEF n, z, rest2

\* z is q with the topics m, the topic t and the frame d behind it.
Arrived(z, q, m, t, d) ==
    /\ z \in Seq(Frame) /\ Len(z) = Len(q) + (Len(m) + 2)
    /\ \A i \in 1 .. Len(q) : z[i] = q[i]
    /\ \A i \in Len(q) + 1 .. Len(z) - 1 : z[i] \in Topics
    /\ z[Len(z) - 1] = t
    /\ z[Len(z)] = d

\* A pipe behind which a message comes: topics, then the last frame.
LEMMA ArriveFrames ==
    ASSUME NEW q \in Seq(Frame), NEW m \in Seq(Topics), NEW t \in Topics, NEW d \in Frame
    PROVE  Arrived(q \o (m \o <<t, d>>), q, m, t, d)
<1> DEFINE w == m \o <<t, d>>
           z == q \o w
<1>1. w \in Seq(Frame) /\ Len(w) = Len(m) + 2 /\ w[Len(m) + 1] = t /\ w[Len(m) + 2] = d
      /\ \A i \in 1 .. Len(m) : w[i] = m[i]
  BY SMT DEF Frame
<1>2. \A i \in 1 .. Len(m) + 1 : w[i] \in Topics
  BY <1>1, SMT
<1>3. z \in Seq(Frame) /\ Len(z) = Len(q) + Len(w)
      /\ (\A i \in 1 .. Len(q) : z[i] = q[i])
      /\ (\A i \in 1 .. Len(w) : z[Len(q) + i] = w[i])
  BY <1>1, SMT
<1> DEFINE lq == Len(q)
           lm == Len(m)
           lz == Len(z)
<1> lq \in Nat /\ lm \in Nat /\ lz = lq + (lm + 2) /\ Len(w) = lm + 2
  BY <1>1, <1>3, SMT
<1>4. /\ (\A i \in 1 .. lm + 1 : w[i] \in Topics) /\ w[lm + 1] = t /\ w[lm + 2] = d
      /\ \A i \in 1 .. lm + 2 : z[lq + i] = w[i]
  BY <1>1, <1>2, <1>3
<1> HIDE DEF w, z, lq, lm, lz
<1>5. ASSUME NEW i \in lq + 1 .. lz - 1 PROVE z[i] \in Topics
  <2> DEFINE k == i - lq
  <2>1. k \in 1 .. lm + 1 /\ k \in 1 .. lm + 2 /\ i = lq + k
    BY SMT
  <2> HIDE DEF k
  <2> QED BY <1>4, <2>1
<1>6. z[lz - 1] = t /\ z[lz] = d
  <2>1. /\ lm + 1 \in 1 .. lm + 2 /\ lm + 2 \in 1 .. lm + 2
        /\ lz - 1 = lq + (lm + 1) /\ lz = lq + (lm + 2)
    BY SMT
  <2> QED BY <1>4, <2>1
<1>7. /\ z \in Seq(Frame) /\ lz = lq + (lm + 2)
      /\ \A i \in 1 .. lq : z[i] = q[i]
  BY <1>3 DEF lq
<1> QED
  BY <1>5, <1>6, <1>7 DEF Arrived, w, z, lq, lm, lz

\* A message behind the frames of a pipe.
LEMMA FollowsArrive ==
    ASSUME NEW ev, NEW q \in Seq(Frame), NEW m \in Seq(Topics), NEW t \in Topics, NEW d \in Frame,
           NEW s \in Sources, Follows(ev, q, s), Announces(ev, t, d, s)
    PROVE  Follows(ev, q \o (m \o <<t, d>>), s) /\ q \o (m \o <<t, d>>) \in Seq(Frame)
<1> DEFINE z == q \o (m \o <<t, d>>)
           lq == Len(q)
           lz == Len(z)
<1>0. Arrived(z, q, m, t, d)
  BY ArriveFrames
<1>1. /\ z \in Seq(Frame) /\ lz = lq + (Len(m) + 2)
      /\ \A i \in 1 .. lq : z[i] = q[i]
      /\ \A i \in lq + 1 .. lz - 1 : z[i] \in Topics
      /\ z[lz - 1] = t /\ z[lz] = d
  BY <1>0 DEF Arrived
<1>2. lq \in Nat /\ lz \in Nat
  BY <1>1, SMT
<1> HIDE DEF z, lq, lz
<1>3. ASSUME NEW i \in 1 .. lz - 1
      PROVE  Announces(ev, z[i], z[i + 1], s)
  <2>1. CASE i + 1 <= lq
    <3>1. i \in 1 .. lq /\ i + 1 \in 1 .. lq /\ i \in 1 .. lq - 1
      BY <1>2, <2>1, SMT
    <3>2. z[i] = q[i] /\ z[i + 1] = q[i + 1]
      BY <1>1, <3>1
    <3> QED
      BY <3>1, <3>2 DEF Follows, lq
  <2>2. CASE i + 1 > lq /\ i + 1 # lz
    <3>1. i + 1 \in lq + 1 .. lz - 1
      BY <1>2, <2>2, SMT
    <3>2. z[i + 1] \in Topics
      BY <1>1, <3>1
    <3> QED
      BY <3>2, TopicsAssumption DEF Announces
  <2>3. CASE i + 1 = lz
    <3>1. i = lz - 1
      BY <1>2, <2>3, SMT
    <3> QED
      BY <1>1, <2>3, <3>1
  <2> QED
    BY <1>2, <2>1, <2>2, <2>3, SMT
<1> QED
  BY <1>1, <1>3 DEF Follows, z, lz

\* Taking two frames leaves the rest in order.
LEMMA FollowsRest ==
    ASSUME NEW ev, NEW q \in Seq(Frame), NEW s \in Sources, Follows(ev, q, s), Len(q) >= 2
    PROVE  /\ rest2(q) \in Seq(Frame)
           /\ Follows(ev, rest2(q), s)
           /\ Announces(ev, q[1], q[2], s)
<1> DEFINE z == rest2(q)
<1>1. /\ z \in Seq(Frame) /\ Len(z) = Len(q) - 2 /\ Len(q) \in Nat
      /\ \A i \in 1 .. Len(q) - 2 : z[i] = q[i + 2]
  BY RestFrames, SMT
<1> HIDE DEF z
<1>2. ASSUME NEW i \in 1 .. Len(z) - 1 PROVE Announces(ev, z[i], z[i + 1], s)
  <2>1. z[i] = q[i + 2] /\ z[i + 1] = q[(i + 2) + 1] /\ i + 2 \in 1 .. Len(q) - 1
    BY <1>1, SMT
  <2> QED
    BY <2>1 DEF Follows
<1>3. Announces(ev, q[1], q[2], s)
  <2>1. 1 \in 1 .. Len(q) - 1 /\ 1 + 1 = 2
    BY <1>1, SMT
  <2> QED
    BY <2>1 DEF Follows
<1>4. Follows(ev, z, s)
  BY <1>2 DEF Follows
<1> QED
  BY <1>1, <1>3, <1>4 DEF z

\* What a callback leaves in the pipe, and what it posts.
LEMMA ReceiveFits ==
    ASSUME EInv, NEW s \in Sources
    PROVE  /\ recv(s).rest \in Seq(Frame)
           /\ Follows(events, recv(s).rest, s)
           /\ dispatch(s, recv(s)).post \in Seq(PostSet)
           /\ \A i \in DOMAIN dispatch(s, recv(s)).post : Fits(events, dispatch(s, recv(s)).post[i])
<1> DEFINE q == queue[s]
<1>1. q \in Seq(Frame) /\ Follows(events, q, s)
  BY DEF EInv
<1>2. CASE Len(q) < 2
  <2>1. recv(s).rest = <<>> /\ recv(s).got = <<>>
    BY <1>2 DEF recv
  <2>2. dispatch(s, recv(s)).post = <<>>
    BY <2>1 DEF dispatch
  <2> QED
    BY <2>1, <2>2, SMT DEF Follows
<1>3. CASE Len(q) >= 2
  <2>1. recv(s) = [ok |-> TRUE, got |-> <<q[1], q[2]>>, rest |-> rest2(q)]
    BY <1>1, <1>3, SMT DEF recv
  <2>2. /\ rest2(q) \in Seq(Frame)
        /\ Follows(events, rest2(q), s)
        /\ Announces(events, q[1], q[2], s)
    BY <1>1, <1>3, FollowsRest
  <2> DEFINE d == dispatch(s, recv(s)).post
             h == CHOOSE x \in getHandler(s, q[1]) : TRUE
             p == [source |-> s, event |-> q[2][2], handler |-> h]
  <2>3. d = <<>> \/ (isJson(q[2]) /\ getHandler(s, q[1]) # {} /\ d = <<p>>)
    <3>1. /\ recv(s).ok /\ recv(s).got # <<>>
          /\ recv(s).got[1] = q[1] /\ recv(s).got[2] = q[2]
      BY <2>1, SMT
    <3>2. dispatch(s, recv(s)) =
            IF q[2] = nullFrame \/ q[1] = <<>> \/ ~isJson(q[2]) \/ getHandler(s, q[1]) = {}
            THEN [ok |-> FALSE, post |-> <<>>]
            ELSE [ok |-> TRUE, post |-> <<p>>]
      BY <3>1 DEF dispatch
    <3> HIDE DEF p
    <3> QED
      BY <3>2, SMT
  <2>4. ASSUME isJson(q[2]), getHandler(s, q[1]) # {} PROVE p \in PostSet /\ Fits(events, p)
    <3>1. h \in getHandler(s, q[1])
      BY <2>4
    <3> HIDE DEF h
    <3>2. q[2][2] \in DOMAIN events /\ events[q[2][2]].topic = q[1] /\ events[q[2][2]].source = s
      BY <2>2, <2>4 DEF Announces
    <3>3. h \in DOMAIN Handlers[s] /\ (h = q[1] \/ (s = "local" /\ h = <<>> /\ q[1] \notin DOMAIN Handlers["local"]))
      BY <3>1 DEF getHandler, getServiceHandler, getPeerHandler, Sources
    <3>4. q[2][2] \in Nat
      BY <3>2, SMT DEF EInv
    <3> QED
      BY <3>2, <3>3, <3>4 DEF PostSet, HandlerSet, Fits
  <2> HIDE DEF p, d
  <2>5. d \in Seq(PostSet) /\ \A i \in DOMAIN d : Fits(events, d[i])
    <3>1. CASE d = <<>>
      BY <3>1, SMT
    <3>2. CASE d = <<p>> /\ p \in PostSet /\ Fits(events, p)
      <4>1. d \in Seq(PostSet) /\ DOMAIN d = {1} /\ d[1] = p
        BY <3>2, SMT
      <4> QED
        BY <3>2, <4>1
    <3> QED
      BY <2>3, <2>4, <3>1, <3>2
  <2>6. recv(s).rest = rest2(q)
    BY <2>1, SMT
  <2> QED
    BY <2>2, <2>5, <2>6 DEF d
<1> QED
  BY <1>1, <1>2, <1>3, SMT

\* The callback keeps the invariant.
LEMMA CallbackEInv ==
    ASSUME EInv, NEW s \in Sources, callback(s), UNCHANGED <<frames, events, handled>>
    PROVE  EInv'
<1> DEFINE d == dispatch(s, recv(s)).post
           rest == recv(s).rest
<1>1. /\ rest \in Seq(Frame)
      /\ Follows(events, rest, s)
      /\ d \in Seq(PostSet)
      /\ \A i \in DOMAIN d : Fits(events, d[i])
  BY ReceiveFits
<1>2. posted' = posted \o d /\ queue' = [queue EXCEPT ![s] = rest]
  BY DEF callback
<1> HIDE DEF d, rest
<1>3. queue' \in [Sources -> Seq(Frame)] /\ \A r \in Sources : Follows(events, queue'[r], r)
  BY <1>1, <1>2 DEF EInv
<1>4. posted' \in Seq(PostSet) /\ \A i \in DOMAIN posted' : Fits(events, posted'[i])
  <2>1. posted \in Seq(PostSet) /\ \A i \in DOMAIN posted : Fits(events, posted[i])
    BY DEF EInv
  <2> QED
    BY <1>1, <1>2, <2>1, SMT
<1> QED
  BY <1>3, <1>4 DEF EInv

\* More events leave what is known of the others.
LEMMA MoreEvents ==
    ASSUME EInv, NEW x \in EventSet, events' = Append(events, x)
    PROVE  /\ events' \in Seq(EventSet)
           /\ Len(events) + 1 \in DOMAIN events' /\ events'[Len(events) + 1] = x
           /\ \A e \in DOMAIN events : e \in DOMAIN events' /\ events'[e] = events[e]
           /\ \A t, d, s : Announces(events, t, d, s) => Announces(events', t, d, s)
           /\ \A p : Fits(events, p) => Fits(events', p)
<1>1. events \in Seq(EventSet)
  BY DEF EInv
<1>2. /\ events' \in Seq(EventSet)
      /\ Len(events) + 1 \in DOMAIN events' /\ events'[Len(events) + 1] = x
      /\ \A e \in DOMAIN events : e \in DOMAIN events' /\ events'[e] = events[e]
  BY <1>1, SMT
<1> QED
  BY <1>2 DEF Announces, Fits

\* What goes out of a publish: nothing, a topic, or a topic and a last frame.
LEMMA SendOut ==
    ASSUME NEW t \in Topics, NEW data, NEW r \in send(t, data), NEW m \in sendMissingFrame(r)
    PROVE  \/ ~m.ended /\ m.out = <<>>
           \/ ~m.ended /\ m.out = <<t>>
           \/ m.ended /\ m.out = <<t, data>>
           \/ m.ended /\ m.out = <<t, nullFrame>>
BY SMT DEF send, sendMissingFrame

\* Publishing keeps the invariant.
LEMMA PublishEInv ==
    ASSUME EInv, NEW s \in Sources, NEW topic \in Topics, NEW type \in Types,
           publish(s, topic, type)
    PROVE  EInv'
<1> DEFINE x == [source |-> s, topic |-> topic, type |-> type]
           data == toJson(Len(events) + 1)
<1>1. x \in EventSet /\ events' = Append(events, x)
  BY DEF publish, EventSet
<1>2. /\ events' \in Seq(EventSet)
      /\ Len(events) + 1 \in DOMAIN events' /\ events'[Len(events) + 1] = x
      /\ \A t, d, r : Announces(events, t, d, r) => Announces(events', t, d, r)
      /\ \A p : Fits(events, p) => Fits(events', p)
  BY <1>1, MoreEvents
<1>11. PICK r \in send(topic, data) : \E m \in sendMissingFrame(r) :
         /\ frames' = [frames EXCEPT ![s] = IF m.ended THEN <<>> ELSE frames[s] \o m.out]
         /\ \/ UNCHANGED queue
            \/ m.ended /\ queue' = [queue EXCEPT ![s] = queue[s] \o (frames[s] \o m.out)]
  BY DEF publish, arrive, pipe
<1>3. PICK m \in sendMissingFrame(r) :
         /\ frames' = [frames EXCEPT ![s] = IF m.ended THEN <<>> ELSE frames[s] \o m.out]
         /\ \/ UNCHANGED queue
            \/ m.ended /\ queue' = [queue EXCEPT ![s] = queue[s] \o (frames[s] \o m.out)]
  BY <1>11
<1>4. \/ ~m.ended /\ m.out = <<>>
      \/ ~m.ended /\ m.out = <<topic>>
      \/ m.ended /\ m.out = <<topic, data>>
      \/ m.ended /\ m.out = <<topic, nullFrame>>
  BY SendOut
<1>5. data \in Frame /\ nullFrame \in Frame
  <2>1. Len(events) + 1 \in Nat
    BY SMT DEF EInv
  <2> QED
    BY <2>1 DEF Frame
<1>6. Announces(events', topic, data, s) /\ Announces(events', topic, nullFrame, s)
  <2>1. ~isJson(nullFrame)
    BY SMT DEF isJson, nullFrame
  <2>2. data[2] = Len(events) + 1
    BY DEF toJson
  <2>3. x.topic = topic /\ x.source = s
    OBVIOUS
  <2> HIDE DEF x, data
  <2> QED
    BY <1>2, <2>1, <2>2, <2>3 DEF Announces
<1> HIDE DEF x, data
<1>7. frames' \in [Sources -> Seq(Topics)]
  <2>1. frames[s] \in Seq(Topics) /\ frames[s] \o <<>> \in Seq(Topics)
        /\ frames[s] \o <<topic>> \in Seq(Topics) /\ <<>> \in Seq(Topics)
    BY SMT DEF EInv
  <2>2. (IF m.ended THEN <<>> ELSE frames[s] \o m.out) \in Seq(Topics)
    BY <1>4, <2>1
  <2> QED
    BY <1>3, <2>2 DEF EInv
<1>8. \A u \in Sources : Follows(events', queue[u], u)
  BY <1>2 DEF EInv, Follows
<1>9. queue' \in [Sources -> Seq(Frame)] /\ \A u \in Sources : Follows(events', queue'[u], u)
  <2>1. CASE UNCHANGED queue
    BY <1>8, <2>1 DEF EInv
  <2>2. ASSUME NEW d \in Frame, Announces(events', topic, d, s),
               queue' = [queue EXCEPT ![s] = queue[s] \o (frames[s] \o <<topic, d>>)]
        PROVE  queue' \in [Sources -> Seq(Frame)] /\ \A u \in Sources : Follows(events', queue'[u], u)
    <3>1. queue[s] \in Seq(Frame) /\ frames[s] \in Seq(Topics) /\ Follows(events', queue[s], s)
      BY <1>8 DEF EInv
    <3> DEFINE z == queue[s] \o (frames[s] \o <<topic, d>>)
    <3>2. z \in Seq(Frame) /\ Follows(events', z, s)
      BY <2>2, <3>1, FollowsArrive
    <3> HIDE DEF z
    <3> QED
      BY <1>8, <2>2, <3>2 DEF EInv, z
  <2> QED
    BY <1>3, <1>4, <1>5, <1>6, <2>1, <2>2
<1>10. UNCHANGED <<posted, handled>>
  BY DEF publish
<1> QED
  BY <1>2, <1>7, <1>9, <1>10 DEF EInv

\* Running a handler keeps the invariant.
LEMMA RunHandlerEInv == EInv /\ runHandler => EInv'
<1> SUFFICES ASSUME EInv, runHandler PROVE EInv'
  OBVIOUS
<1> DEFINE p == Head(posted)
<1>1. /\ posted \in Seq(PostSet) /\ posted # <<>> /\ handled \in Seq(PostSet)
      /\ \A i \in DOMAIN posted : Fits(events, posted[i])
      /\ \A i \in DOMAIN handled : Fits(events, handled[i])
  BY DEF EInv, runHandler
<1>2. p \in PostSet /\ Fits(events, p)
  BY <1>1, SMT
<1>3. posted' \in Seq(PostSet) /\ \A i \in DOMAIN posted' : Fits(events, posted'[i])
  BY <1>1, SMT DEF runHandler
<1>4. handled' = Append(handled, p) \/ handled' = handled
  BY DEF runHandler
<1> HIDE DEF p
<1>5. handled' \in Seq(PostSet) /\ \A i \in DOMAIN handled' : Fits(events, handled'[i])
  <2>1. CASE handled' = Append(handled, p)
    <3>1. /\ handled' \in Seq(PostSet)
          /\ \A i \in DOMAIN handled' : handled'[i] = p \/ (i \in DOMAIN handled /\ handled'[i] = handled[i])
      BY <1>1, <1>2, <2>1, SMT
    <3> QED
      BY <1>1, <1>2, <3>1
  <2>2. CASE handled' = handled
    BY <1>1, <2>2
  <2> QED
    BY <1>4, <2>1, <2>2
<1> QED
  BY <1>3, <1>5 DEF EInv, runHandler, pipe

\* Giving up a socket keeps the invariant.
LEMMA CloseEInv ==
    ASSUME EInv, NEW s \in Sources, close(s), UNCHANGED <<frames, events, posted, handled>>
    PROVE  EInv'
<1>1. queue' = [queue EXCEPT ![s] = <<>>]
  BY DEF close
<1>2. Follows(events, <<>>, s)
  BY SMT DEF Follows
<1> QED
  BY <1>1, <1>2, SMT DEF EInv

\* Every step keeps the invariant.
LEMMA NextEInv == EInv /\ [Next]_vars => EInv'
<1> SUFFICES ASSUME EInv, [Next]_vars PROVE EInv'
  OBVIOUS
<1>1. CASE UNCHANGED <<frames, events, queue, posted, handled>>
  BY <1>1 DEF EInv
<1>2. ASSUME NEW s \in Sources, openPort(s) \/ otherCommand(s) PROVE EInv'
  BY <1>1, <1>2 DEF openPort, otherCommand, pipe
<1>3. ASSUME NEW s \in Sources, queueRead(s) PROVE EInv'
  BY <1>3, CallbackEInv DEF queueRead
<1>4. ASSUME NEW s \in Sources, startListening(s) PROVE EInv'
  BY <1>4, CallbackEInv, CloseEInv DEF startListening
<1>5. ASSUME subscribeLocal \/ \E key \in PeerKeys : addPeer(key) PROVE EInv'
  BY <1>1, <1>5 DEF subscribeLocal, addPeer, subscribe, pipe
<1>6. ASSUME removePeer PROVE EInv'
  BY <1>6, CloseEInv DEF removePeer, Sources
<1>7. CASE UNCHANGED vars
  BY <1>1, <1>7 DEF vars, pipe
<1> QED
  BY <1>2, <1>3, <1>4, <1>5, <1>6, <1>7, PublishEInv, RunHandlerEInv DEF Next

\* Whatever is published, lost or left unended, and however often the peer is
\* added and removed, an event only reaches the handler registered for its
\* source and topic (EventSubscriptionMap.cpp:6-30, EventProcessor.cpp:37-85).
THEOREM EventsReachTheirHandlers == Spec => []RightHandler
BY InitEInv, NextEInv, EInvRight, PTL DEF Spec
-----------------------------------------------------------------------------
(* The order of events. *)

Ordered(sq) ==
    \A i, j \in DOMAIN sq :
       i < j /\ sq[i].source = sq[j].source => sq[i].event < sq[j].event

Precedes(sq, tq) ==
    \A i \in DOMAIN sq, j \in DOMAIN tq :
       sq[i].source = tq[j].source => sq[i].event < tq[j].event

\* The events whose data is in a pipe are in the order of their publication.
Rising(q) ==
    \A i, j \in DOMAIN q : i < j /\ isJson(q[i]) /\ isJson(q[j]) => q[i][2] < q[j][2]

\* They come after everything their source had handled or posted.
Ahead(sq, q, s) ==
    \A i \in DOMAIN sq, j \in DOMAIN q :
       sq[i].source = s /\ isJson(q[j]) => sq[i].event < q[j][2]

Published(q) == \A i \in DOMAIN q : isJson(q[i]) => q[i][2] \in DOMAIN events

OrderInv ==
    /\ Ordered(handled) /\ Ordered(posted) /\ Precedes(handled, posted)
    /\ \A s \in Sources :
          /\ Rising(queue[s]) /\ Published(queue[s])
          /\ Ahead(handled, queue[s], s) /\ Ahead(posted, queue[s], s)

\* A publisher that left no message unended has none pending, and what is in
\* the pipe are whole messages.
Paired(q) ==
    \E k \in Nat :
       /\ Len(q) = 2 * k
       /\ \A i \in 1 .. k : q[2 * i - 1] \in Topics /\ (q[2 * i] = nullFrame \/ isJson(q[2 * i]))

PairInv ==
    /\ pub \in [Sources -> [open : BOOLEAN, matched : BOOLEAN, torn : BOOLEAN]]
    /\ \A s \in Sources :
          /\ ~pub[s].open => ~pub[s].torn
          /\ ~pub[s].torn => frames[s] = <<>> /\ Paired(queue[s])

\* What publish does: no frame goes out, or a topic alone, or a whole message.
LEMMA PublishStep ==
    ASSUME NEW s \in Sources, NEW topic \in Topics, NEW type \in Types,
           publish(s, topic, type)
    PROVE  \E m :
             /\ \/ ~m.ended /\ ~m.torn /\ m.out = <<>>
                \/ ~m.ended /\ m.torn /\ m.out = <<topic>>
                \/ m.ended /\ ~m.torn /\ m.out = <<topic, toJson(Len(events) + 1)>>
                \/ m.ended /\ ~m.torn /\ m.out = <<topic, nullFrame>>
             /\ frames' = [frames EXCEPT ![s] = IF m.ended THEN <<>> ELSE frames[s] \o m.out]
             /\ LET matched == IF frames[s] = <<>> THEN matches(s, topic) ELSE pub[s].matched
                    message == frames[s] \o m.out
                IN  /\ pub' = [pub EXCEPT ![s].matched = matched /\ ~m.ended /\ message # <<>>,
                                          ![s].torn = @ \/ m.torn]
                    /\ \/ UNCHANGED pipe
                       \/ m.ended /\ matched /\ arrive(s, message)
<1> DEFINE E(m) ==
             /\ frames' = [frames EXCEPT ![s] = IF m.ended THEN <<>> ELSE frames[s] \o m.out]
             /\ LET matched == IF frames[s] = <<>> THEN matches(s, topic) ELSE pub[s].matched
                    message == frames[s] \o m.out
                IN  /\ pub' = [pub EXCEPT ![s].matched = matched /\ ~m.ended /\ message # <<>>,
                                          ![s].torn = @ \/ m.torn]
                    /\ \/ UNCHANGED pipe
                       \/ m.ended /\ matched /\ arrive(s, message)
           data == toJson(Len(events) + 1)
<1>1. \E r \in send(topic, data) : \E m \in sendMissingFrame(r) : E(m)
  BY DEF publish
<1>2. ASSUME NEW r \in send(topic, data), NEW m \in sendMissingFrame(r)
      PROVE  \/ ~m.ended /\ ~m.torn /\ m.out = <<>>
             \/ ~m.ended /\ m.torn /\ m.out = <<topic>>
             \/ m.ended /\ ~m.torn /\ m.out = <<topic, data>>
             \/ m.ended /\ ~m.torn /\ m.out = <<topic, nullFrame>>
  BY <1>2, SMT DEF send, sendMissingFrame
<1> HIDE DEF E
<1>3. \E m : /\ \/ ~m.ended /\ ~m.torn /\ m.out = <<>>
                \/ ~m.ended /\ m.torn /\ m.out = <<topic>>
                \/ m.ended /\ ~m.torn /\ m.out = <<topic, data>>
                \/ m.ended /\ ~m.torn /\ m.out = <<topic, nullFrame>>
             /\ E(m)
  BY <1>1, <1>2
<1> QED
  BY <1>3 DEF E

\* At the start there is nothing to order.
LEMMA InitOrder == Init => OrderInv
BY SMT DEF Init, OrderInv, Ordered, Precedes, Rising, Published, Ahead, Sources

\* It implies the order that handlers see.
LEMMA OrderInvInOrder == EInv /\ OrderInv => InOrderOnce
<1> SUFFICES ASSUME EInv, OrderInv PROVE InOrderOnce
  OBVIOUS
<1> DEFINE all == handled \o posted
           lh == Len(handled)
           lp == Len(posted)
<1>1. handled \in Seq(PostSet) /\ posted \in Seq(PostSet)
  BY DEF EInv
<1>2. /\ lh \in Nat /\ lp \in Nat /\ DOMAIN all = 1 .. lh + lp
      /\ DOMAIN handled = 1 .. lh /\ DOMAIN posted = 1 .. lp
      /\ \A i \in 1 .. lh + lp : all[i] = IF i <= lh THEN handled[i] ELSE posted[i - lh]
  BY <1>1, SMT
<1> HIDE DEF all, lh, lp
<1>2a. \A i \in 1 .. lh + lp :
          /\ i <= lh => i \in 1 .. lh /\ all[i] = handled[i]
          /\ i > lh => i - lh \in 1 .. lp /\ all[i] = posted[i - lh]
  BY <1>2, SMT
<1>3. ASSUME NEW i \in 1 .. lh + lp, NEW j \in 1 .. lh + lp, i < j,
             all[i].source = all[j].source
      PROVE  all[i].event < all[j].event
  <2>1. CASE j <= lh
    <3>1. i \in 1 .. lh /\ j \in 1 .. lh /\ all[i] = handled[i] /\ all[j] = handled[j]
      BY <1>2, <1>2a, <1>3, <2>1, SMT
    <3> QED BY <1>2, <1>3, <3>1 DEF OrderInv, Ordered
  <2>2. CASE i <= lh /\ j > lh
    <3>1. i \in 1 .. lh /\ j - lh \in 1 .. lp /\ all[i] = handled[i] /\ all[j] = posted[j - lh]
      BY <1>2, <1>2a, <1>3, <2>2
    <3> QED BY <1>2, <1>3, <3>1 DEF OrderInv, Precedes
  <2>3. CASE i > lh
    <3>1. /\ i - lh \in 1 .. lp /\ j - lh \in 1 .. lp /\ i - lh < j - lh
          /\ all[i] = posted[i - lh] /\ all[j] = posted[j - lh]
      BY <1>2, <1>2a, <1>3, <2>3, SMT
    <3>2. Ordered(posted)
      BY DEF OrderInv
    <3> DEFINE a == i - lh
               b == j - lh
    <3>3. /\ a \in DOMAIN posted /\ b \in DOMAIN posted /\ a < b
          /\ all[i] = posted[a] /\ all[j] = posted[b]
      BY <1>2, <3>1
    <3> HIDE DEF a, b
    <3> QED BY <1>3, <3>2, <3>3 DEF Ordered
  <2> QED BY <1>2, <2>1, <2>2, <2>3, SMT
<1> QED
  BY <1>2, <1>3 DEF InOrderOnce, all

\* What a receive takes from a pipe comes before what it leaves there.
LEMMA RestOrder ==
    ASSUME NEW q \in Seq(Frame), Len(q) >= 2, Rising(q), Published(q), NEW s
    PROVE  /\ Rising(rest2(q)) /\ Published(rest2(q))
           /\ \A sq : Ahead(sq, q, s) => Ahead(sq, rest2(q), s)
           /\ isJson(q[2]) => \A i \in DOMAIN rest2(q) :
                                 isJson(rest2(q)[i]) => q[2][2] < rest2(q)[i][2]
<1> DEFINE z == rest2(q)
           n == Len(q)
<1>1. /\ z \in Seq(Frame) /\ Len(z) = n - 2 /\ n \in Nat /\ n >= 2
      /\ \A i \in 1 .. n - 2 : z[i] = q[i + 2]
  BY RestFrames, SMT
<1>2. DOMAIN z = 1 .. n - 2 /\ DOMAIN q = 1 .. n
  BY <1>1, SMT
<1> HIDE DEF z, n
<1>3. \A i \in DOMAIN z : i + 2 \in DOMAIN q /\ z[i] = q[i + 2] /\ i \in Nat /\ 2 < i + 2
  BY <1>1, <1>2, SMT
<1>4. Rising(z)
  <2> SUFFICES ASSUME NEW i \in DOMAIN z, NEW j \in DOMAIN z, i < j,
                      isJson(z[i]), isJson(z[j])
               PROVE  z[i][2] < z[j][2]
    BY DEF Rising
  <2>1. i + 2 < j + 2
    BY <1>3, SMT
  <2> QED BY <1>3, <2>1 DEF Rising
<1>5. Published(z)
  BY <1>3 DEF Published
<1>6. \A sq : Ahead(sq, q, s) => Ahead(sq, z, s)
  BY <1>3 DEF Ahead
<1>7. isJson(q[2]) => \A i \in DOMAIN z : isJson(z[i]) => q[2][2] < z[i][2]
  <2>1. 2 \in DOMAIN q
    BY <1>1, <1>2, SMT
  <2> QED BY <1>3, <2>1 DEF Rising
<1> QED
  BY <1>4, <1>5, <1>6, <1>7 DEF z

\* What a callback posts: nothing, or the event of the second frame.
LEMMA CallbackPosts ==
    ASSUME EInv, NEW s \in Sources
    PROVE  LET q == queue[s]
               d == dispatch(s, recv(s)).post
           IN  \/ Len(q) < 2 /\ d = <<>> /\ recv(s).rest = <<>> /\ recv(s).got = <<>>
               \/ /\ Len(q) >= 2 /\ recv(s).rest = rest2(q) /\ recv(s).got # <<>>
                  /\ \/ d = <<>>
                     \/ /\ isJson(q[2])
                        /\ \E p : d = <<p>> /\ p.source = s /\ p.event = q[2][2]
<1> DEFINE q == queue[s]
           d == dispatch(s, recv(s)).post
<1>1. q \in Seq(Frame) /\ Len(q) \in Nat
  BY SMT DEF EInv
<1>2. CASE Len(q) < 2
  <2>1. recv(s).rest = <<>> /\ recv(s).got = <<>>
    BY <1>2 DEF recv
  <2>2. dispatch(s, recv(s)).post = <<>>
    BY <2>1 DEF dispatch
  <2> QED
    BY <1>2, <2>1, <2>2
<1>3. CASE Len(q) >= 2
  <2>1. recv(s) = [ok |-> TRUE, got |-> <<q[1], q[2]>>, rest |-> rest2(q)]
    BY <1>1, <1>3, SMT DEF recv
  <2> DEFINE h == CHOOSE x \in getHandler(s, q[1]) : TRUE
             p == [source |-> s, event |-> q[2][2], handler |-> h]
  <2>2. /\ recv(s).ok /\ recv(s).got # <<>> /\ recv(s).rest = rest2(q)
        /\ recv(s).got[1] = q[1] /\ recv(s).got[2] = q[2]
    BY <2>1, SMT
  <2>3. dispatch(s, recv(s)) =
          IF q[2] = nullFrame \/ q[1] = <<>> \/ ~isJson(q[2]) \/ getHandler(s, q[1]) = {}
          THEN [ok |-> FALSE, post |-> <<>>]
          ELSE [ok |-> TRUE, post |-> <<p>>]
    BY <2>2 DEF dispatch
  <2>4. p.source = s /\ p.event = q[2][2]
    OBVIOUS
  <2> HIDE DEF p
  <2>5. d = <<>> \/ (isJson(q[2]) /\ d = <<p>>)
    BY <2>3, SMT
  <2> QED
    BY <1>3, <2>2, <2>4, <2>5
<1> QED
  BY <1>1, <1>2, <1>3, SMT

\* A callback posts an event after those its source posted before, and before
\* those left in the pipe.
LEMMA CallbackOrder ==
    ASSUME EInv, OrderInv, NEW s \in Sources, callback(s), UNCHANGED <<events, handled>>
    PROVE  OrderInv'
<1> DEFINE q == queue[s]
           d == dispatch(s, recv(s)).post
           rest == recv(s).rest
           lp == Len(posted)
<1>1. /\ q \in Seq(Frame) /\ Rising(q) /\ Published(q)
      /\ Ahead(handled, q, s) /\ Ahead(posted, q, s)
      /\ posted \in Seq(PostSet) /\ handled \in Seq(PostSet) /\ lp \in Nat
      /\ queue \in [Sources -> Seq(Frame)]
  BY SMT DEF EInv, OrderInv
<1>2. posted' = posted \o d /\ queue' = [queue EXCEPT ![s] = rest]
  BY DEF callback
<1>3. \/ Len(q) < 2 /\ d = <<>> /\ rest = <<>>
      \/ /\ Len(q) >= 2 /\ rest = rest2(q)
         /\ \/ d = <<>>
            \/ isJson(q[2]) /\ \E p : d = <<p>> /\ p.source = s /\ p.event = q[2][2]
  BY CallbackPosts
<1>4. /\ Rising(rest) /\ Published(rest)
      /\ Ahead(handled, rest, s) /\ Ahead(posted, rest, s)
  <2>1. CASE rest = <<>>
    BY <2>1, SMT DEF Rising, Published, Ahead
  <2>2. CASE Len(q) >= 2 /\ rest = rest2(q)
    BY <1>1, <2>2, RestOrder
  <2> QED BY <1>3, <2>1, <2>2
<1>5. \A u \in Sources : /\ queue'[u] = IF u = s THEN rest ELSE queue[u]
  BY <1>1, <1>2
<1>6. \A u \in Sources :
         Rising(queue'[u]) /\ Published(queue'[u]) /\ Ahead(handled, queue'[u], u)
  BY <1>4, <1>5 DEF OrderInv
<1>6a. \A u \in Sources : Published(queue[u])'
  BY <1>6 DEF Published
<1>7. CASE d = <<>>
  <2>1. posted' = posted
    BY <1>1, <1>2, <1>7, SMT
  <2>2. \A u \in Sources : Ahead(posted, queue'[u], u)
    BY <1>4, <1>5 DEF OrderInv
  <2> QED BY <1>6, <1>6a, <2>1, <2>2 DEF OrderInv
<1>8. ASSUME NEW p, d = <<p>>, p.source = s, p.event = q[2][2], isJson(q[2]),
             Len(q) >= 2, rest = rest2(q)
      PROVE  OrderInv'
  <2>1. /\ DOMAIN posted = 1 .. lp /\ DOMAIN posted' = 1 .. lp + 1
        /\ \A i \in 1 .. lp : posted'[i] = posted[i]
        /\ posted'[lp + 1] = p
    BY <1>1, <1>2, <1>8, SMT
  <2>2. 2 \in DOMAIN q
    BY <1>1, <1>8, SMT
  <2> HIDE DEF q, d, rest, lp
  <2>3. \A i \in DOMAIN posted : posted[i].source = s => posted[i].event < p.event
    BY <1>1, <1>8, <2>2 DEF Ahead
  <2>4. \A i \in DOMAIN handled : handled[i].source = s => handled[i].event < p.event
    BY <1>1, <1>8, <2>2 DEF Ahead
  <2>5. \A i \in DOMAIN posted' : i = lp + 1 \/ (i \in DOMAIN posted /\ i <= lp)
    BY <1>1, <2>1, SMT
  <2>6. Ordered(posted')
    <3> SUFFICES ASSUME NEW i \in DOMAIN posted', NEW j \in DOMAIN posted', i < j,
                        posted'[i].source = posted'[j].source
                 PROVE  posted'[i].event < posted'[j].event
      BY DEF Ordered
    <3>1. i \in DOMAIN posted /\ posted'[i] = posted[i]
      BY <1>1, <2>1, <2>5, SMT
    <3>2. CASE j = lp + 1
      BY <1>8, <2>1, <2>3, <3>1, <3>2
    <3>3. CASE j \in DOMAIN posted
      BY <2>1, <3>1, <3>3 DEF OrderInv, Ordered
    <3> QED BY <2>5, <3>2, <3>3
  <2>7. Precedes(handled, posted')
    BY <1>8, <2>1, <2>4, <2>5 DEF OrderInv, Precedes
  <2>8. \A u \in Sources : Ahead(posted', queue'[u], u)
    <3>1. \A i \in DOMAIN rest : isJson(rest[i]) => p.event < rest[i][2]
      BY <1>1, <1>8, RestOrder
    <3> SUFFICES ASSUME NEW u \in Sources, NEW i \in DOMAIN posted', NEW j \in DOMAIN queue'[u],
                        posted'[i].source = u, isJson(queue'[u][j])
                 PROVE  posted'[i].event < queue'[u][j][2]
      BY DEF Ahead
    <3>2. CASE i = lp + 1
      BY <1>5, <1>8, <2>1, <3>1, <3>2
    <3>3. CASE i \in DOMAIN posted
      <4>1. posted'[i] = posted[i]
        BY <2>1, <3>3
      <4>2. Ahead(posted, queue'[u], u)
        BY <1>4, <1>5 DEF OrderInv
      <4> QED BY <3>3, <4>1, <4>2 DEF Ahead
    <3> QED BY <2>5, <3>2, <3>3
  <2> QED BY <1>6, <1>6a, <2>6, <2>7, <2>8 DEF OrderInv
<1> QED
  BY <1>3, <1>7, <1>8

\* The data of a new event comes behind that of all others.
LEMMA ArriveOrder ==
    ASSUME NEW q \in Seq(Frame), NEW m \in Seq(Topics), NEW t \in Topics, NEW d \in Frame,
           Rising(q), isJson(d) => \A i \in DOMAIN q : isJson(q[i]) => q[i][2] < d[2]
    PROVE  LET z == q \o (m \o <<t, d>>)
           IN  /\ Rising(z)
               /\ \A i \in DOMAIN z : isJson(z[i]) => z[i] = d \/ (i \in DOMAIN q /\ z[i] = q[i])
<1> DEFINE z == q \o (m \o <<t, d>>)
           lq == Len(q)
           lz == Len(z)
<1>0. Arrived(z, q, m, t, d)
  BY ArriveFrames
<1>1. /\ z \in Seq(Frame) /\ lz = lq + (Len(m) + 2)
      /\ \A i \in 1 .. lq : z[i] = q[i]
      /\ \A i \in lq + 1 .. lz - 1 : z[i] \in Topics
      /\ z[lz - 1] = t /\ z[lz] = d
  BY <1>0 DEF Arrived
<1>2. lq \in Nat /\ lz \in Nat /\ DOMAIN z = 1 .. lz /\ DOMAIN q = 1 .. lq /\ lq < lz
  BY <1>1, SMT
<1> HIDE DEF z, lq, lz
<1>3. \A i \in DOMAIN z : isJson(z[i]) => i = lz \/ i \in DOMAIN q
  <2> SUFFICES ASSUME NEW i \in DOMAIN z, isJson(z[i]), i # lz, i \notin DOMAIN q PROVE FALSE
    OBVIOUS
  <2>1. i \in lq + 1 .. lz - 1
    BY <1>2, SMT
  <2>2. z[i] \in Topics
    BY <1>1, <2>1
  <2> QED BY <2>2, TopicsAssumption
<1>4. \A i \in DOMAIN q : z[i] = q[i] /\ i < lz
  BY <1>1, <1>2, SMT
<1>5. Rising(z)
  <2> SUFFICES ASSUME NEW i \in DOMAIN z, NEW j \in DOMAIN z, i < j, isJson(z[i]), isJson(z[j])
               PROVE  z[i][2] < z[j][2]
    BY DEF Rising
  <2>1. i # lz
    BY <1>2, SMT
  <2>2. i \in DOMAIN q /\ z[i] = q[i]
    BY <1>3, <1>4, <2>1
  <2>3. CASE j = lz
    BY <1>1, <2>2, <2>3
  <2>4. CASE j \in DOMAIN q
    BY <1>4, <2>2, <2>4 DEF Rising
  <2> QED BY <1>3, <2>3, <2>4
<1>6. \A i \in DOMAIN z : isJson(z[i]) => z[i] = d \/ (i \in DOMAIN q /\ z[i] = q[i])
  BY <1>1, <1>3, <1>4
<1> QED
  BY <1>5, <1>6 DEF z

\* A pipe only changes by a whole message, whose data is that of the new event.
LEMMA PublishQueue ==
    ASSUME EInv, NEW s \in Sources, NEW topic \in Topics, NEW type \in Types,
           publish(s, topic, type)
    PROVE  \/ UNCHANGED queue
           \/ \E d \in Frame :
                /\ d = nullFrame \/ d = toJson(Len(events) + 1)
                /\ queue' = [queue EXCEPT ![s] = queue[s] \o (frames[s] \o <<topic, d>>)]
<1> DEFINE data == toJson(Len(events) + 1)
<1>1. data \in Frame /\ nullFrame \in Frame
  <2>1. Len(events) + 1 \in Nat
    BY SMT DEF EInv
  <2> QED BY <2>1 DEF Frame
<1>2. \E m : /\ \/ ~m.ended /\ m.out = <<>>
                \/ ~m.ended /\ m.out = <<topic>>
                \/ m.ended /\ m.out = <<topic, data>>
                \/ m.ended /\ m.out = <<topic, nullFrame>>
             /\ \/ UNCHANGED queue
                \/ m.ended /\ queue' = [queue EXCEPT ![s] = queue[s] \o (frames[s] \o m.out)]
  <2>1. PICK m :
           /\ \/ ~m.ended /\ ~m.torn /\ m.out = <<>>
              \/ ~m.ended /\ m.torn /\ m.out = <<topic>>
              \/ m.ended /\ ~m.torn /\ m.out = <<topic, data>>
              \/ m.ended /\ ~m.torn /\ m.out = <<topic, nullFrame>>
           /\ LET matched == IF frames[s] = <<>> THEN matches(s, topic) ELSE pub[s].matched
                  message == frames[s] \o m.out
              IN  \/ UNCHANGED pipe
                  \/ m.ended /\ matched /\ arrive(s, message)
    BY PublishStep
  <2>2. \/ UNCHANGED queue
        \/ m.ended /\ queue' = [queue EXCEPT ![s] = queue[s] \o (frames[s] \o m.out)]
    BY <2>1 DEF arrive, pipe
  <2> HIDE DEF data
  <2> QED BY <2>1, <2>2
<1> HIDE DEF data
<1> QED
  BY <1>1, <1>2 DEF data

\* Publishing an event keeps the order.
LEMMA PublishOrder ==
    ASSUME EInv, OrderInv, NEW s \in Sources, NEW topic \in Topics, NEW type \in Types,
           publish(s, topic, type)
    PROVE  OrderInv'
<1> DEFINE x == [source |-> s, topic |-> topic, type |-> type]
           n == Len(events) + 1
<1>1. x \in EventSet /\ events' = Append(events, x) /\ UNCHANGED <<posted, handled>>
  BY DEF publish, EventSet
<1>2. /\ n \in DOMAIN events'
      /\ \A e \in DOMAIN events : e \in DOMAIN events' /\ e < n
  <2>1. events \in Seq(EventSet)
    BY DEF EInv
  <2> QED BY <1>1, <2>1, SMT
<1>3. \A u \in Sources : Published(queue[u]) /\ \A i \in DOMAIN queue[u] :
         isJson(queue[u][i]) => queue[u][i][2] < n /\ queue[u][i][2] \in DOMAIN events'
  BY <1>2 DEF OrderInv, Published
<1>4. /\ \A i \in DOMAIN posted : posted[i].event < n
      /\ \A i \in DOMAIN handled : handled[i].event < n
  BY <1>2 DEF EInv, Fits
<1> HIDE DEF n, x
<1>5. CASE UNCHANGED queue
  <2>1. \A u \in Sources : Published(queue[u])'
    BY <1>3, <1>5 DEF Published
  <2> QED BY <1>1, <1>5, <2>1 DEF OrderInv
<1>6. ASSUME NEW d \in Frame, d = nullFrame \/ d = toJson(n),
             queue' = [queue EXCEPT ![s] = queue[s] \o (frames[s] \o <<topic, d>>)]
      PROVE  OrderInv'
  <2> DEFINE q == queue[s]
             z == q \o (frames[s] \o <<topic, d>>)
  <2>1. isJson(d) => d[2] = n
    <3>1. ~isJson(nullFrame)
      BY SMT DEF isJson, nullFrame
    <3>2. toJson(n)[2] = n
      BY DEF toJson
    <3> QED BY <1>6, <3>1, <3>2
  <2>2. /\ q \in Seq(Frame) /\ frames[s] \in Seq(Topics) /\ Rising(q)
        /\ isJson(d) => \A i \in DOMAIN q : isJson(q[i]) => q[i][2] < d[2]
    BY <1>3, <2>1 DEF EInv, OrderInv
  <2>3. /\ Rising(z)
        /\ \A i \in DOMAIN z : isJson(z[i]) => z[i] = d \/ (i \in DOMAIN q /\ z[i] = q[i])
    BY <1>6, <2>2, ArriveOrder
  <2>4. \A u \in Sources : queue'[u] = IF u = s THEN z ELSE queue[u]
    BY <1>6 DEF EInv
  <2> HIDE DEF q, z
  <2>5. \A i \in DOMAIN z : isJson(z[i]) => z[i][2] \in DOMAIN events'
    BY <1>2, <1>3, <2>1, <2>3 DEF q
  <2>6. Ahead(posted, z, s) /\ Ahead(handled, z, s)
    BY <1>4, <2>1, <2>3 DEF OrderInv, Ahead, q
  <2>7. \A u \in Sources : Published(queue[u])'
    BY <1>3, <2>4, <2>5 DEF Published
  <2>8. \A u \in Sources : /\ Rising(queue'[u]) /\ Ahead(posted, queue'[u], u)
                           /\ Ahead(handled, queue'[u], u)
    BY <2>3, <2>4, <2>6 DEF OrderInv
  <2> QED BY <1>1, <2>7, <2>8 DEF OrderInv
<1> QED
  BY <1>5, <1>6, PublishQueue DEF n

\* So does running the first of the posted handlers.
LEMMA RunHandlerOrder == EInv /\ OrderInv /\ runHandler => OrderInv'
<1> SUFFICES ASSUME EInv, OrderInv, runHandler PROVE OrderInv'
  OBVIOUS
<1> DEFINE p == Head(posted)
           lp == Len(posted)
           lh == Len(handled)
<1>1. /\ posted \in Seq(PostSet) /\ posted # <<>> /\ handled \in Seq(PostSet)
      /\ posted' = Tail(posted)
      /\ handled' = Append(handled, p) \/ handled' = handled
  BY DEF EInv, runHandler
<1>2. /\ lp \in Nat /\ lp > 0 /\ DOMAIN posted = 1 .. lp
      /\ DOMAIN posted' = 1 .. lp - 1 /\ \A i \in 1 .. lp - 1 : posted'[i] = posted[i + 1]
      /\ p = posted[1] /\ lh \in Nat /\ DOMAIN handled = 1 .. lh
  BY <1>1, SMT
<1>3. UNCHANGED <<queue, events>>
  BY DEF runHandler, pipe
<1>4. handled' = Append(handled, p) => /\ DOMAIN handled' = 1 .. lh + 1
                                       /\ \A i \in 1 .. lh : handled'[i] = handled[i]
                                       /\ handled'[lh + 1] = p
  BY <1>1, SMT
<1> HIDE DEF p, lp, lh
<1>5. /\ 1 \in DOMAIN posted
      /\ \A i \in DOMAIN posted' : /\ i + 1 \in DOMAIN posted /\ 1 < i + 1 /\ i \in Nat
                                   /\ posted'[i] = posted[i + 1]
  BY <1>2, SMT
<1>6. /\ Ordered(posted')
      /\ \A i \in DOMAIN posted' : p.source = posted'[i].source => p.event < posted'[i].event
      /\ \A sq : Precedes(sq, posted) => Precedes(sq, posted')
      /\ \A sq, u : Ahead(posted, sq, u) => Ahead(posted', sq, u)
  <2>1. Ordered(posted')
    <3> SUFFICES ASSUME NEW i \in DOMAIN posted', NEW j \in DOMAIN posted', i < j,
                        posted'[i].source = posted'[j].source
                 PROVE  posted'[i].event < posted'[j].event
      BY DEF Ordered
    <3>1. i + 1 < j + 1
      BY <1>5, SMT
    <3> QED BY <1>5, <3>1 DEF OrderInv, Ordered
  <2>2. \A i \in DOMAIN posted' : p.source = posted'[i].source => p.event < posted'[i].event
    BY <1>2, <1>5 DEF OrderInv, Ordered
  <2>3. \A sq : Precedes(sq, posted) => Precedes(sq, posted')
    BY <1>5 DEF Precedes
  <2>4. \A sq, u : Ahead(posted, sq, u) => Ahead(posted', sq, u)
    BY <1>5, SMT DEF Ahead
  <2> QED BY <2>1, <2>2, <2>3, <2>4
<1>7. CASE handled' = handled
  BY <1>3, <1>6, <1>7 DEF OrderInv, Published
<1>8. CASE handled' = Append(handled, p)
  <2>1. \A i \in DOMAIN handled' : \/ i = lh + 1 /\ handled'[i] = p
                                   \/ i \in DOMAIN handled /\ i < lh + 1 /\ handled'[i] = handled[i]
    BY <1>2, <1>4, <1>8, SMT
  <2>2. Ordered(handled')
    <3> SUFFICES ASSUME NEW i \in DOMAIN handled', NEW j \in DOMAIN handled', i < j,
                        handled'[i].source = handled'[j].source
                 PROVE  handled'[i].event < handled'[j].event
      BY DEF Ordered
    <3>0. DOMAIN handled' \subseteq Nat /\ \A k \in DOMAIN handled' : k <= lh + 1
      BY <1>2, <1>4, <1>8, SMT
    <3>1. i \in DOMAIN handled /\ handled'[i] = handled[i]
      BY <1>2, <2>1, <3>0, SMT
    <3>2. CASE handled'[j] = p
      BY <1>2, <1>5, <3>1, <3>2, SMT DEF OrderInv, Precedes
    <3>3. CASE j \in DOMAIN handled /\ handled'[j] = handled[j]
      BY <3>1, <3>3 DEF OrderInv, Ordered
    <3> QED BY <2>1, <3>2, <3>3
  <2>3. Precedes(handled', posted')
    <3>1. Precedes(handled, posted')
      BY <1>6 DEF OrderInv
    <3> QED BY <1>6, <2>1, <3>1 DEF Precedes
  <2>4. \A u \in Sources : Ahead(handled', queue[u], u)
    BY <1>2, <1>5, <2>1, SMT DEF OrderInv, Ahead
  <2> QED BY <1>3, <1>6, <2>2, <2>3, <2>4 DEF OrderInv, Published
<1> QED
  BY <1>1, <1>7, <1>8

\* So does giving up a socket.
LEMMA CloseOrder ==
    ASSUME EInv, OrderInv, NEW s \in Sources, close(s), UNCHANGED <<events, posted, handled>>
    PROVE  OrderInv'
<1>1. \A u \in Sources : queue'[u] = IF u = s THEN <<>> ELSE queue[u]
  BY DEF close, EInv
<1>2. \A sq : Rising(<<>>) /\ Published(<<>>) /\ Ahead(sq, <<>>, s)
  BY SMT DEF Rising, Published, Ahead
<1>3. \A u \in Sources : /\ Rising(queue'[u]) /\ Published(queue'[u])
                         /\ Ahead(handled, queue'[u], u) /\ Ahead(posted, queue'[u], u)
  BY <1>1, <1>2 DEF OrderInv
<1>4. \A u \in Sources : Published(queue[u])'
  BY <1>3 DEF Published
<1> QED
  BY <1>3, <1>4 DEF OrderInv

\* Every step keeps the order.
LEMMA NextOrder == EInv /\ OrderInv /\ [Next]_vars => OrderInv'
<1> SUFFICES ASSUME EInv, OrderInv, [Next]_vars PROVE OrderInv'
  OBVIOUS
<1>1. CASE UNCHANGED <<events, queue, posted, handled>>
  BY <1>1 DEF OrderInv, Published
<1>2. ASSUME NEW s \in Sources, openPort(s) \/ otherCommand(s) PROVE OrderInv'
  BY <1>1, <1>2 DEF openPort, otherCommand, pipe
<1>3. ASSUME NEW s \in Sources, queueRead(s) PROVE OrderInv'
  BY <1>3, CallbackOrder DEF queueRead
<1>4. ASSUME NEW s \in Sources, startListening(s) PROVE OrderInv'
  BY <1>4, CallbackOrder, CloseOrder DEF startListening
<1>5. ASSUME subscribeLocal \/ \E key \in PeerKeys : addPeer(key) PROVE OrderInv'
  BY <1>1, <1>5 DEF subscribeLocal, addPeer, subscribe, pipe
<1>6. ASSUME removePeer PROVE OrderInv'
  BY <1>6, CloseOrder DEF removePeer, Sources
<1>7. CASE UNCHANGED vars
  BY <1>1, <1>7 DEF vars, pipe
<1> QED
  BY <1>2, <1>3, <1>4, <1>5, <1>6, <1>7, PublishOrder, RunHandlerOrder DEF Next

\* Whatever is lost, left unended or misread, and however often the peer is
\* removed and added again, the handlers of a source are posted and run in the
\* order in which its events were published, and at most once per event
\* (EventProcessor.cpp:79-84, 112-176).
THEOREM HandledInOrder == Spec => []InOrderOnce
<1>1. EInv /\ OrderInv /\ [Next]_vars => (EInv /\ OrderInv)'
  BY NextEInv, NextOrder
<1> QED
  BY <1>1, InitEInv, InitOrder, OrderInvInOrder, PTL DEF Spec
-----------------------------------------------------------------------------
(* The pairs of frames. *)

\* A pipe of whole messages stays one when a message comes behind them.
LEMMA PairedArrive ==
    ASSUME NEW q \in Seq(Frame), NEW m \in Seq(Topics), NEW t \in Topics, NEW d \in Frame
    PROVE  Paired(q) /\ Len(m) = 0 /\ (d = nullFrame \/ isJson(d)) => Paired(q \o (m \o <<t, d>>))
<1> DEFINE z == q \o (m \o <<t, d>>)
           lq == Len(q)
           lz == Len(z)
<1>0. Arrived(z, q, m, t, d)
  BY ArriveFrames
<1>2. /\ z \in Seq(Frame) /\ lz = lq + (Len(m) + 2)
      /\ \A i \in 1 .. lq : z[i] = q[i]
      /\ z[lz - 1] = t /\ z[lz] = d
  BY <1>0 DEF Arrived
<1> SUFFICES ASSUME Paired(q), Len(m) = 0, d = nullFrame \/ isJson(d)
             PROVE  Paired(z)
  OBVIOUS
<1>3. PICK k \in Nat :
         /\ lq = 2 * k
         /\ \A i \in 1 .. k : q[2 * i - 1] \in Topics /\ (q[2 * i] = nullFrame \/ isJson(q[2 * i]))
  BY DEF Paired
<1> HIDE DEF z, lq, lz
<1>4. lz = 2 * (k + 1) /\ k + 1 \in Nat
  BY <1>2, <1>3, SMT
<1>5. ASSUME NEW i \in 1 .. k + 1
      PROVE  z[2 * i - 1] \in Topics /\ (z[2 * i] = nullFrame \/ isJson(z[2 * i]))
  <2>1. CASE i = k + 1
    <3>1. 2 * i - 1 = lz - 1 /\ 2 * i = lz
      BY <1>4, <2>1
    <3> QED BY <1>2, <3>1
  <2>2. CASE i # k + 1
    <3>1. i \in 1 .. k /\ 2 * i - 1 \in 1 .. lq /\ 2 * i \in 1 .. lq
      BY <1>3, <2>2, SMT
    <3>2. z[2 * i - 1] = q[2 * i - 1] /\ z[2 * i] = q[2 * i]
      BY <1>2, <3>1
    <3> QED BY <1>3, <3>1, <3>2
  <2> QED BY <2>1, <2>2
<1>6. \E j \in Nat : /\ lz = 2 * j
                     /\ \A i \in 1 .. j : z[2 * i - 1] \in Topics /\ (z[2 * i] = nullFrame \/ isJson(z[2 * i]))
  BY <1>4, <1>5
<1> QED
  BY <1>6 DEF Paired, lz

\* It stays one when two frames are taken, and a shorter one is empty.
LEMMA PairedRest ==
    ASSUME NEW q \in Seq(Frame), Paired(q)
    PROVE  /\ Len(q) >= 2 => Paired(rest2(q))
           /\ Len(q) < 2 => q = <<>>
<1> DEFINE lq == Len(q)
           z == rest2(q)
           lz == Len(z)
<1>1. PICK k \in Nat :
         /\ lq = 2 * k
         /\ \A i \in 1 .. k : q[2 * i - 1] \in Topics /\ (q[2 * i] = nullFrame \/ isJson(q[2 * i]))
  BY DEF Paired
<1>2. lq < 2 => q = <<>>
  <2>1. lq < 2 => lq = 0
    BY <1>1, SMT
  <2> QED BY <2>1, SMT
<1>3. ASSUME lq >= 2 PROVE Paired(z)
  <2>1. lz = lq - 2 /\ \A i \in 1 .. lq - 2 : z[i] = q[i + 2]
    BY <1>3, RestFrames
  <2> HIDE DEF lq, z, lz
  <2>2. k - 1 \in Nat /\ lz = 2 * (k - 1)
    BY <1>1, <1>3, <2>1, SMT
  <2>3. ASSUME NEW i \in 1 .. k - 1
        PROVE  z[2 * i - 1] \in Topics /\ (z[2 * i] = nullFrame \/ isJson(z[2 * i]))
    <3>1. /\ i + 1 \in 1 .. k /\ 2 * i - 1 \in 1 .. lq - 2 /\ 2 * i \in 1 .. lq - 2
          /\ (2 * i - 1) + 2 = 2 * (i + 1) - 1 /\ 2 * i + 2 = 2 * (i + 1)
      BY <1>1, SMT
    <3> DEFINE j == i + 1
    <3>2. z[2 * i - 1] = q[2 * j - 1] /\ z[2 * i] = q[2 * j]
      BY <2>1, <3>1
    <3> HIDE DEF j
    <3>3. j \in 1 .. k
      BY <3>1 DEF j
    <3> QED BY <1>1, <3>2, <3>3
  <2>4. \E j \in Nat : /\ lz = 2 * j
                       /\ \A i \in 1 .. j : z[2 * i - 1] \in Topics /\ (z[2 * i] = nullFrame \/ isJson(z[2 * i]))
    BY <2>2, <2>3
  <2> QED
    BY <2>4 DEF Paired, lz
<1> QED
  BY <1>2, <1>3

\* An empty pipe holds no message.
LEMMA PairedEmpty == Paired(<<>>)
<1>1. Len(<<>>) = 2 * 0 /\ 0 \in Nat /\ 1 .. 0 = {}
  BY SMT
<1> QED
  BY <1>1 DEF Paired

\* Whole messages whose data comes behind its topic are the pairs meant.
LEMMA PairInvPairs == EInv /\ PairInv => FramesPaired
<1> SUFFICES ASSUME EInv, PairInv, NEW s \in Sources, ~pub[s].torn
             PROVE  LET q == queue[s]
                    IN  /\ Len(q) % 2 = 0
                        /\ \A i \in 1 .. Len(q) \div 2 :
                              /\ q[2 * i - 1] \in Topics
                              /\ \/ q[2 * i] = nullFrame
                                 \/ isJson(q[2 * i]) /\ events[q[2 * i][2]].topic = q[2 * i - 1]
  BY DEF FramesPaired
<1> DEFINE q == queue[s]
           lq == Len(q)
<1>1. q \in Seq(Frame) /\ Paired(q) /\ Follows(events, q, s)
  BY DEF EInv, PairInv
<1>2. PICK k \in Nat :
         /\ lq = 2 * k
         /\ \A i \in 1 .. k : q[2 * i - 1] \in Topics /\ (q[2 * i] = nullFrame \/ isJson(q[2 * i]))
  BY <1>1 DEF Paired
<1>3. \A i \in 1 .. lq - 1 : Announces(events, q[i], q[i + 1], s)
  BY <1>1 DEF Follows
<1> HIDE DEF q, lq
<1>4. lq % 2 = 0 /\ lq \div 2 = k
  BY <1>2, SMT
<1>5. ASSUME NEW i \in 1 .. k, isJson(q[2 * i])
      PROVE  events[q[2 * i][2]].topic = q[2 * i - 1]
  <2>1. 2 * i - 1 \in 1 .. lq - 1 /\ (2 * i - 1) + 1 = 2 * i
    BY <1>2, SMT
  <2>2. Announces(events, q[2 * i - 1], q[2 * i], s)
    BY <1>3, <2>1
  <2> QED BY <1>5, <2>2 DEF Announces
<1>6. /\ lq % 2 = 0
      /\ \A i \in 1 .. lq \div 2 :
            /\ q[2 * i - 1] \in Topics
            /\ \/ q[2 * i] = nullFrame
               \/ isJson(q[2 * i]) /\ events[q[2 * i][2]].topic = q[2 * i - 1]
  BY <1>2, <1>4, <1>5
<1> QED
  BY <1>6 DEF q, lq

\* At the start no message was left unended, and the pipes are empty.
LEMMA InitPairs == Init => PairInv
BY PairedEmpty, SMT DEF Init, PairInv, unbound

\* Opening the port.
LEMMA OpenPairs ==
    ASSUME PairInv, NEW s \in Sources, openPort(s)
    PROVE  PairInv'
<1>1. PICK c \in bindSocket : pub' = [pub EXCEPT ![s] = c]
  BY DEF openPort
<1>2. c \in [open : BOOLEAN, matched : BOOLEAN, torn : BOOLEAN] /\ ~c.torn
  <2>1. \/ c = [open |-> TRUE, matched |-> FALSE, torn |-> FALSE]
        \/ c = [open |-> FALSE, matched |-> FALSE, torn |-> FALSE]
    BY <1>1 DEF bindSocket, unbound
  <2>2. \A a, b, d \in BOOLEAN : [open |-> a, matched |-> b, torn |-> d]
                                    \in [open : BOOLEAN, matched : BOOLEAN, torn : BOOLEAN]
    OBVIOUS
  <2>3. c \in [open : BOOLEAN, matched : BOOLEAN, torn : BOOLEAN]
    BY <2>1, <2>2
  <2>4. c.torn = FALSE
    BY <2>1, SMT
  <2> QED BY <2>3, <2>4
<1>3. ~pub[s].torn /\ UNCHANGED <<frames, queue>>
  BY DEF PairInv, openPort, pipe
<1>4. /\ pub' \in [Sources -> [open : BOOLEAN, matched : BOOLEAN, torn : BOOLEAN]]
      /\ \A u \in Sources : pub'[u] = IF u = s THEN c ELSE pub[u]
  BY <1>1, <1>2 DEF PairInv
<1> QED
  BY <1>2, <1>3, <1>4 DEF PairInv

\* A publish that leaves no message unended adds a whole one, or nothing.
LEMMA PublishPairs ==
    ASSUME EInv, PairInv, NEW s \in Sources, NEW topic \in Topics, NEW type \in Types,
           publish(s, topic, type)
    PROVE  PairInv'
<1> DEFINE data == toJson(Len(events) + 1)
           SocketSet == [open : BOOLEAN, matched : BOOLEAN, torn : BOOLEAN]
<1>1. PICK m :
         /\ \/ ~m.ended /\ ~m.torn /\ m.out = <<>>
            \/ ~m.ended /\ m.torn /\ m.out = <<topic>>
            \/ m.ended /\ ~m.torn /\ m.out = <<topic, data>>
            \/ m.ended /\ ~m.torn /\ m.out = <<topic, nullFrame>>
         /\ frames' = [frames EXCEPT ![s] = IF m.ended THEN <<>> ELSE frames[s] \o m.out]
         /\ LET matched == IF frames[s] = <<>> THEN matches(s, topic) ELSE pub[s].matched
                message == frames[s] \o m.out
            IN  /\ pub' = [pub EXCEPT ![s].matched = matched /\ ~m.ended /\ message # <<>>,
                                      ![s].torn = @ \/ m.torn]
                /\ \/ UNCHANGED pipe
                   \/ m.ended /\ matched /\ arrive(s, message)
  BY PublishStep
<1>2. /\ pub[s].open /\ pub[s].open \in BOOLEAN
      /\ queue[s] \in Seq(Frame) /\ frames[s] \in Seq(Topics)
  BY DEF publish, EInv, PairInv
<1>3. /\ pub' \in [Sources -> SocketSet]
      /\ pub'[s].open
      /\ pub'[s].torn <=> pub[s].torn \/ m.torn
      /\ \A u \in Sources \ {s} : pub'[u] = pub[u]
  <2>1. PICK b \in BOOLEAN, c \in BOOLEAN :
           /\ pub' = [pub EXCEPT ![s].matched = b, ![s].torn = c]
           /\ c <=> pub[s].torn \/ m.torn
    BY <1>1
  <2> QED BY <1>2, <2>1, ZenonT(30) DEF PairInv
<1>4. /\ data \in Frame /\ nullFrame \in Frame /\ isJson(data)
  <2>1. Len(events) + 1 \in Nat
    BY SMT DEF EInv
  <2> QED BY <2>1 DEF Frame, isJson, toJson
<1>5. /\ \A u \in Sources : frames'[u] = IF u # s THEN frames[u]
                                         ELSE IF m.ended THEN <<>> ELSE frames[s] \o m.out
      /\ \/ UNCHANGED queue
         \/ m.ended /\ queue' = [queue EXCEPT ![s] = queue[s] \o (frames[s] \o m.out)]
  <2>1. frames' = [frames EXCEPT ![s] = IF m.ended THEN <<>> ELSE frames[s] \o m.out]
    BY <1>1
  <2>2. \/ UNCHANGED queue
        \/ m.ended /\ queue' = [queue EXCEPT ![s] = queue[s] \o (frames[s] \o m.out)]
    BY <1>1 DEF arrive, pipe
  <2> QED BY <2>1, <2>2 DEF EInv
<1> HIDE DEF data
<1>6. \A u \in Sources \ {s} : queue'[u] = queue[u] /\ frames'[u] = frames[u]
  BY <1>5 DEF EInv
<1>7. ASSUME ~pub'[s].torn PROVE frames'[s] = <<>> /\ Paired(queue'[s])
  <2>1. ~pub[s].torn /\ ~m.torn
    BY <1>3, <1>7
  <2>2. frames[s] = <<>> /\ Paired(queue[s]) /\ Len(frames[s]) = 0
    BY <2>1, SMT DEF PairInv
  <2>3. CASE ~m.ended
    <3>1. m.out = <<>>
      BY <1>1, <2>1, <2>3
    <3>2. frames'[s] = <<>> \o <<>>
      BY <1>5, <2>2, <2>3, <3>1
    <3>3. frames'[s] = <<>>
      BY <3>2, SMT
    <3>4. UNCHANGED queue
      BY <1>5, <2>3
    <3> QED BY <2>2, <3>3, <3>4
  <2>4. CASE m.ended
    <3>1. m.out = <<topic, data>> \/ m.out = <<topic, nullFrame>>
      BY <1>1, <2>4 DEF data
    <3>2. PICK d \in Frame : m.out = <<topic, d>> /\ (d = nullFrame \/ isJson(d))
      BY <1>4, <3>1
    <3>3. Paired(queue[s] \o (frames[s] \o <<topic, d>>))
      BY <1>2, <2>2, <3>2, PairedArrive
    <3>4. Paired(queue'[s])
      <4>1. CASE UNCHANGED queue
        BY <2>2, <4>1
      <4>2. CASE queue' = [queue EXCEPT ![s] = queue[s] \o (frames[s] \o m.out)]
        <5>1. queue'[s] = queue[s] \o (frames[s] \o m.out)
          BY <4>2 DEF EInv
        <5>2. queue'[s] = queue[s] \o (frames[s] \o <<topic, d>>)
          BY <3>2, <5>1
        <5> QED BY <3>3, <5>2
      <4> QED BY <1>5, <4>1, <4>2
    <3> QED BY <1>5, <2>4, <3>4
  <2> QED BY <2>3, <2>4
<1> QED
  BY <1>3, <1>6, <1>7 DEF PairInv

\* A callback takes a whole message, or finds the pipe empty.
LEMMA CallbackPairs ==
    ASSUME EInv, PairInv, NEW s \in Sources, callback(s), UNCHANGED <<pub, frames>>
    PROVE  PairInv'
<1> DEFINE rest == recv(s).rest
<1>1. \/ Len(queue[s]) < 2 /\ rest = <<>>
      \/ Len(queue[s]) >= 2 /\ rest = rest2(queue[s])
  BY CallbackPosts
<1>2. \A u \in Sources : queue'[u] = IF u = s THEN rest ELSE queue[u]
  BY DEF callback, EInv
<1>3. queue[s] \in Seq(Frame)
  BY DEF EInv
<1> HIDE DEF rest
<1>4. Paired(queue[s]) => Paired(rest)
  BY <1>1, <1>3, PairedRest, PairedEmpty
<1> QED
  BY <1>2, <1>4 DEF PairInv

\* A socket that is given up leaves an empty pipe.
LEMMA ClosePairs ==
    ASSUME EInv, PairInv, NEW s \in Sources, close(s), UNCHANGED frames
    PROVE  PairInv'
<1>1. \A u \in Sources : queue'[u] = IF u = s THEN <<>> ELSE queue[u]
  BY DEF close, EInv
<1>2. /\ pub' \in [Sources -> [open : BOOLEAN, matched : BOOLEAN, torn : BOOLEAN]]
      /\ \A u \in Sources : pub'[u].open = pub[u].open /\ pub'[u].torn = pub[u].torn
  BY DEF close, PairInv
<1> QED
  BY <1>1, <1>2, PairedEmpty DEF PairInv

\* Every step keeps the pairs.
LEMMA NextPairs == EInv /\ PairInv /\ [Next]_vars => PairInv'
<1> SUFFICES ASSUME EInv, PairInv, [Next]_vars PROVE PairInv'
  OBVIOUS
<1>1. CASE UNCHANGED <<pub, frames, queue>>
  BY <1>1 DEF PairInv
<1>2. ASSUME NEW s \in Sources, otherCommand(s) PROVE PairInv'
  BY <1>1, <1>2 DEF otherCommand
<1>3. ASSUME NEW s \in Sources, queueRead(s) PROVE PairInv'
  BY <1>3, CallbackPairs DEF queueRead
<1>4. ASSUME NEW s \in Sources, startListening(s) PROVE PairInv'
  BY <1>4, CallbackPairs, ClosePairs DEF startListening
<1>5. ASSUME subscribeLocal \/ \E key \in PeerKeys : addPeer(key) PROVE PairInv'
  BY <1>1, <1>5 DEF subscribeLocal, addPeer, subscribe, pipe
<1>6. ASSUME removePeer PROVE PairInv'
  BY <1>6, ClosePairs DEF removePeer, Sources
<1>7. CASE runHandler
  BY <1>1, <1>7 DEF runHandler, pipe
<1>8. CASE UNCHANGED vars
  BY <1>1, <1>8 DEF vars, pipe
<1> QED
  BY <1>2, <1>3, <1>4, <1>5, <1>6, <1>7, <1>8, OpenPairs, PublishPairs DEF Next

\* While no message of a publisher is left unended its subscriber never loses
\* count: the pipe holds pairs of a topic and its data or the null frame, however
\* many publishes failed (Publisher.cpp:153-161, Subscriber.cpp:148-191).
THEOREM FramesStayPaired == Spec => []FramesPaired
<1>1. EInv /\ PairInv /\ [Next]_vars => (EInv /\ PairInv)'
  BY NextEInv, NextPairs
<1> QED
  BY <1>1, InitEInv, InitPairs, PairInvPairs, PTL DEF Spec
-----------------------------------------------------------------------------
(* The sockets. *)

\* The state of a connection, its pipe and its descriptor, and
\* whether an unended message of its publisher goes to the subscriber.
SocketOK(c, q, a, r, m, fr) ==
    /\ a \in BOOLEAN /\ r \in BOOLEAN
    /\ c.state = "none" => q = <<>> /\ ~r
    /\ q # <<>> => a \/ r
    /\ m => fr # <<>> /\ c.state # "none"

ConnSet == [state : {"none", "connected", "listening"},
            key : PeerKeys \cup {<<>>}, reading : BOOLEAN]

SocketInv ==
    /\ conn \in [Sources -> ConnSet]
    /\ active \in [Sources -> BOOLEAN] /\ readable \in [Sources -> BOOLEAN]
    /\ tries \in [Sources -> Nat]
    /\ \A s \in Sources :
          /\ SocketOK(conn[s], queue[s], active[s], readable[s], pub[s].matched, frames[s])
          /\ tries[s] <= MaxTries[s]

\* At the start there is no socket.
LEMMA InitSockets == Init => SocketInv
<1> SUFFICES ASSUME Init PROVE SocketInv
  OBVIOUS
<1>1. conn \in [Sources -> ConnSet]
  <2>1. noSocket \in ConnSet
    BY DEF noSocket, ConnSet
  <2> QED BY <2>1 DEF Init
<1>2. /\ active \in [Sources -> BOOLEAN] /\ readable \in [Sources -> BOOLEAN]
      /\ \A s \in Sources : readable[s] = FALSE /\ active[s] = FALSE
  BY DEF Init
<1>3. tries \in [Sources -> Nat] /\ \A s \in Sources : tries[s] <= MaxTries[s]
  BY BoundsAssumption, SMT DEF Init
<1>4. \A s \in Sources : queue[s] = <<>> /\ pub[s].matched = FALSE
  BY DEF Init, unbound
<1> QED
  BY <1>1, <1>2, <1>3, <1>4 DEF SocketInv, SocketOK

\* With what is known of the frames it gives the types of the state.
LEMMA SocketTypes == EInv /\ PairInv /\ SocketInv => ETypeOK
<1> SUFFICES ASSUME EInv, PairInv, SocketInv PROVE ETypeOK
  OBVIOUS
<1>1. \A s \in Sources :
        /\ pub[s].open \in BOOLEAN /\ pub[s].torn \in BOOLEAN
        /\ conn[s].state \in {"none", "connected", "listening"}
        /\ tries[s] \in 0 .. MaxTries[s]
  BY BoundsAssumption, SMT DEF PairInv, SocketInv, ConnSet
<1>2. \A s \in Sources :
        /\ pub[s].matched => frames[s] # <<>> /\ conn[s].state # "none"
        /\ conn[s].state = "none" => queue[s] = <<>> /\ ~readable[s]
        /\ queue[s] # <<>> => active[s] \/ readable[s]
  BY DEF SocketInv, SocketOK
<1>3. \A p \in Range(posted) \cup Range(handled) : p.event \in DOMAIN events
  BY DEF EInv, Fits, Range
<1> QED
  BY <1>1, <1>2, <1>3 DEF ETypeOK

\* A step that leaves the sockets of the other source, and those of s in order.
LEMMA OneSocket ==
    ASSUME SocketInv, NEW s \in Sources, NEW c \in ConnSet, NEW a \in BOOLEAN, NEW r \in BOOLEAN,
           conn' = [conn EXCEPT ![s] = c],
           active' = [active EXCEPT ![s] = a], readable' = [readable EXCEPT ![s] = r],
           UNCHANGED tries,
           SocketOK(c, queue'[s], a, r, pub'[s].matched, frames'[s]),
           \A u \in Sources \ {s} : /\ queue'[u] = queue[u] /\ frames'[u] = frames[u]
                                    /\ pub'[u].matched = pub[u].matched
    PROVE  SocketInv'
<1>1. /\ conn' \in [Sources -> ConnSet] /\ conn'[s] = c
      /\ \A u \in Sources \ {s} : conn'[u] = conn[u]
  BY DEF SocketInv
<1>2. /\ active' \in [Sources -> BOOLEAN] /\ active'[s] = a
      /\ \A u \in Sources \ {s} : active'[u] = active[u]
  BY DEF SocketInv
<1>3. /\ readable' \in [Sources -> BOOLEAN] /\ readable'[s] = r
      /\ \A u \in Sources \ {s} : readable'[u] = readable[u]
  BY DEF SocketInv
<1>4. \A u \in Sources :
         SocketOK(conn'[u], queue'[u], active'[u], readable'[u], pub'[u].matched, frames'[u])
  <2> SUFFICES ASSUME NEW u \in Sources
               PROVE  SocketOK(conn'[u], queue'[u], active'[u], readable'[u],
                               pub'[u].matched, frames'[u])
    OBVIOUS
  <2>1. CASE u = s
    BY <1>1, <1>2, <1>3, <2>1
  <2>2. CASE u # s
    BY <1>1, <1>2, <1>3, <2>2 DEF SocketInv
  <2> QED BY <2>1, <2>2
<1>5. tries' \in [Sources -> Nat] /\ \A u \in Sources : tries'[u] <= MaxTries[u]
  BY DEF SocketInv
<1> QED
  BY <1>1, <1>2, <1>3, <1>4, <1>5 DEF SocketInv

\* A callback whose receive finds something leaves the pipe active; one that
\* finds nothing leaves it empty.
LEMMA CallbackSockets ==
    ASSUME EInv, SocketInv, NEW s \in Sources, callback(s), NEW c \in ConnSet,
           c.state = "listening", conn[s].state # "none",
           conn' = [conn EXCEPT ![s] = c], UNCHANGED <<pub, frames, tries>>
    PROVE  SocketInv'
<1> DEFINE a == recv(s).got # <<>>
           r == readable[s] /\ active[s] /\ recv(s).got # <<>>
<1>1. a \in BOOLEAN /\ r \in BOOLEAN
  OBVIOUS
<1>2. active' = [active EXCEPT ![s] = a] /\ readable' = [readable EXCEPT ![s] = r]
  BY DEF callback
<1>3. queue' = [queue EXCEPT ![s] = recv(s).rest]
  BY DEF callback
<1>4. queue'[s] = recv(s).rest /\ \A u \in Sources \ {s} : queue'[u] = queue[u]
  BY <1>3 DEF EInv
<1>5. recv(s).rest # <<>> => recv(s).got # <<>>
  BY CallbackPosts
<1>6. SocketOK(c, queue'[s], a, r, pub'[s].matched, frames'[s])
  <2>1. pub[s].matched => frames[s] # <<>>
    BY DEF SocketInv, SocketOK
  <2>2. c.state # "none"
    OBVIOUS
  <2>3. pub' = pub /\ frames' = frames
    OBVIOUS
  <2> QED BY <1>1, <1>4, <1>5, <2>1, <2>2, <2>3 DEF SocketOK
<1> HIDE DEF a, r
<1> QED
  BY <1>1, <1>2, <1>4, <1>6, OneSocket

\* A socket that is given up.
LEMMA CloseSockets ==
    ASSUME EInv, PairInv, SocketInv, NEW s \in Sources, close(s), UNCHANGED <<frames, tries>>
    PROVE  SocketInv'
<1>1. noSocket \in ConnSet
  BY DEF noSocket, ConnSet
<1>2. /\ queue'[s] = <<>> /\ \A u \in Sources \ {s} : queue'[u] = queue[u]
  BY DEF close, EInv
<1>3. /\ pub'[s].matched = FALSE /\ \A u \in Sources \ {s} : pub'[u] = pub[u]
  BY DEF close, PairInv
<1>4. SocketOK(noSocket, queue'[s], FALSE, FALSE, pub'[s].matched, frames'[s])
  BY <1>2, <1>3 DEF SocketOK
<1>5. /\ conn' = [conn EXCEPT ![s] = noSocket]
      /\ active' = [active EXCEPT ![s] = FALSE] /\ readable' = [readable EXCEPT ![s] = FALSE]
  BY DEF close
<1>6. FALSE \in BOOLEAN
  OBVIOUS
<1> QED
  BY <1>1, <1>2, <1>3, <1>4, <1>5, <1>6, OneSocket

\* A message only arrives at a socket that is there, and makes the descriptor
\* readable if the reader had found the pipe empty.
LEMMA PublishSockets ==
    ASSUME EInv, PairInv, SocketInv, NEW s \in Sources, NEW topic \in Topics, NEW type \in Types,
           publish(s, topic, type)
    PROVE  SocketInv'
<1> DEFINE matched == IF frames[s] = <<>> THEN matches(s, topic) ELSE pub[s].matched
<1>1. PICK m :
         /\ frames' = [frames EXCEPT ![s] = IF m.ended THEN <<>> ELSE frames[s] \o m.out]
         /\ pub' = [pub EXCEPT ![s].matched = matched /\ ~m.ended /\ frames[s] \o m.out # <<>>,
                               ![s].torn = @ \/ m.torn]
         /\ \/ UNCHANGED pipe
            \/ m.ended /\ matched /\ arrive(s, frames[s] \o m.out)
  BY PublishStep
<1>2. conn' = conn /\ tries' = tries
  BY DEF publish
<1>3. /\ SocketOK(conn[s], queue[s], active[s], readable[s], pub[s].matched, frames[s])
      /\ conn[s] \in ConnSet /\ active[s] \in BOOLEAN /\ readable[s] \in BOOLEAN
      /\ conn' = [conn EXCEPT ![s] = conn[s]]
  BY <1>2 DEF SocketInv
<1>4. matched => conn[s].state # "none"
  <2>1. matches(s, topic) => conn[s].state # "none"
    BY DEF matches
  <2> QED BY <1>3, <2>1 DEF SocketOK
<1>5. /\ frames'[s] = IF m.ended THEN <<>> ELSE frames[s] \o m.out
      /\ \A u \in Sources \ {s} : frames'[u] = frames[u]
  BY <1>1 DEF EInv
<1>6. /\ pub'[s].matched <=> matched /\ ~m.ended /\ frames[s] \o m.out # <<>>
      /\ \A u \in Sources \ {s} : pub'[u] = pub[u]
  <2>1. PICK b \in BOOLEAN, c \in BOOLEAN :
           /\ pub' = [pub EXCEPT ![s].matched = b, ![s].torn = c]
           /\ b <=> matched /\ ~m.ended /\ frames[s] \o m.out # <<>>
    BY <1>1
  <2>2. pub'[s].matched = b /\ \A u \in Sources \ {s} : pub'[u] = pub[u]
    BY <2>1 DEF PairInv
  <2> QED BY <2>1, <2>2
<1> HIDE DEF matched
<1>7. pub'[s].matched => frames'[s] # <<>> /\ conn[s].state # "none"
  BY <1>4, <1>5, <1>6
<1>8. CASE UNCHANGED pipe
  <2>1. queue' = queue /\ active' = active /\ readable' = readable
    BY <1>8 DEF pipe
  <2>2. SocketOK(conn[s], queue'[s], active[s], readable[s], pub'[s].matched, frames'[s])
    BY <1>3, <1>7, <2>1 DEF SocketOK
  <2>3. /\ active' = [active EXCEPT ![s] = active[s]]
        /\ readable' = [readable EXCEPT ![s] = readable[s]]
    BY <2>1 DEF SocketInv
  <2>4. \A u \in Sources \ {s} : queue'[u] = queue[u] /\ pub'[u].matched = pub[u].matched
    BY <1>6, <2>1
  <2> QED BY <1>2, <1>3, <1>5, <2>2, <2>3, <2>4, OneSocket, ZenonT(30)
<1>9. CASE matched /\ arrive(s, frames[s] \o m.out)
  <2> DEFINE r == readable[s] \/ (~active[s] /\ queue[s] = <<>>)
  <2>1. r \in BOOLEAN /\ readable' = [readable EXCEPT ![s] = r]
    BY <1>9 DEF arrive
  <2>2. active' = [active EXCEPT ![s] = active[s]]
    <3>1. active' = active
      BY <1>9 DEF arrive
    <3> QED BY <3>1 DEF SocketInv
  <2>3. \A u \in Sources \ {s} : queue'[u] = queue[u]
    BY <1>9 DEF arrive, EInv
  <2>4. SocketOK(conn[s], queue'[s], active[s], r, pub'[s].matched, frames'[s])
    <3>1. active[s] \/ r
      BY <1>3 DEF SocketOK
    <3> QED BY <1>3, <1>4, <1>7, <1>9, <2>1, <3>1 DEF SocketOK
  <2> HIDE DEF r
  <2>5. \A u \in Sources \ {s} : pub'[u].matched = pub[u].matched
    BY <1>6
  <2> QED BY <1>2, <1>3, <1>5, <2>1, <2>2, <2>3, <2>4, <2>5, OneSocket, ZenonT(30)
<1> QED
  BY <1>1, <1>8, <1>9

\* A subscription that is tried.
LEMMA SubscribeSockets ==
    ASSUME SocketInv, NEW s \in Sources, NEW key \in PeerKeys \cup {<<>>}, subscribe(s, key)
    PROVE  SocketInv'
<1>1. PICK c \in connectSocket(key) : conn' = [conn EXCEPT ![s] = c]
  BY DEF subscribe
<1>2. c \in ConnSet
  <2>1. /\ \A k \in PeerKeys \cup {<<>>} :
              [state |-> "connected", key |-> k, reading |-> FALSE] \in ConnSet
        /\ noSocket \in ConnSet
    BY DEF noSocket, ConnSet
  <2>2. c = [state |-> "connected", key |-> key, reading |-> FALSE] \/ c = noSocket
    BY <1>1 DEF connectSocket
  <2> QED BY <2>1, <2>2
<1>3. /\ conn' \in [Sources -> ConnSet] /\ \A u \in Sources \ {s} : conn'[u] = conn[u]
  BY <1>1, <1>2 DEF SocketInv
<1>4. /\ conn[s].state = "none" /\ UNCHANGED <<pub, frames, queue, active, readable>>
  BY DEF subscribe, pipe
<1>5. \A u \in Sources :
         SocketOK(conn'[u], queue[u], active[u], readable[u], pub[u].matched, frames[u])
  <2> SUFFICES ASSUME NEW u \in Sources
               PROVE  SocketOK(conn'[u], queue[u], active[u], readable[u], pub[u].matched, frames[u])
    OBVIOUS
  <2>1. SocketOK(conn[u], queue[u], active[u], readable[u], pub[u].matched, frames[u])
    BY DEF SocketInv
  <2>2. CASE u = s
    BY <1>4, <2>1, <2>2 DEF SocketOK
  <2>3. CASE u # s
    BY <1>3, <2>1, <2>3
  <2> QED BY <2>2, <2>3
<1>6. tries' \in [Sources -> Nat] /\ \A u \in Sources : tries'[u] <= MaxTries[u]
  <2>1. tries' = [tries EXCEPT ![s] = tries[s] + 1] /\ tries[s] < MaxTries[s]
    BY DEF subscribe
  <2>2. /\ tries \in [Sources -> Nat]
        /\ \A u \in Sources : tries[u] <= MaxTries[u] /\ tries[u] \in Nat /\ MaxTries[u] \in Nat
    BY BoundsAssumption DEF SocketInv
  <2>3. tries[s] + 1 \in Nat /\ tries[s] + 1 <= MaxTries[s]
    BY <2>1, <2>2, SMT
  <2> QED BY <2>1, <2>2, <2>3
<1>7. /\ active \in [Sources -> BOOLEAN] /\ readable \in [Sources -> BOOLEAN]
  BY DEF SocketInv
<1> QED
  BY <1>3, <1>4, <1>5, <1>6, <1>7 DEF SocketInv

\* Another command makes the descriptor of a listening socket readable.
LEMMA CommandSockets ==
    ASSUME SocketInv, NEW s \in Sources, otherCommand(s)
    PROVE  SocketInv'
<1>1. /\ UNCHANGED <<pub, frames, conn, queue, active, tries>> /\ conn[s].state # "none"
      /\ readable' = [readable EXCEPT ![s] = TRUE] /\ TRUE \in BOOLEAN
  BY DEF otherCommand
<1>2. /\ conn[s] \in ConnSet /\ active[s] \in BOOLEAN
      /\ conn' = [conn EXCEPT ![s] = conn[s]] /\ active' = [active EXCEPT ![s] = active[s]]
  BY <1>1 DEF SocketInv
<1>3. SocketOK(conn[s], queue[s], active[s], readable[s], pub[s].matched, frames[s])
  BY DEF SocketInv
<1>4. SocketOK(conn[s], queue'[s], active[s], TRUE, pub'[s].matched, frames'[s])
  BY <1>1, <1>3 DEF SocketOK
<1> QED
  BY <1>1, <1>2, <1>4, OneSocket

\* Opening the port concerns the publisher only.
LEMMA OpenSockets ==
    ASSUME PairInv, SocketInv, NEW s \in Sources, openPort(s)
    PROVE  SocketInv'
<1>1. PICK c \in bindSocket : pub' = [pub EXCEPT ![s] = c]
  BY DEF openPort
<1>2. \A u \in Sources : pub'[u].matched = FALSE \/ pub'[u] = pub[u]
  <2>1. \/ c = [open |-> TRUE, matched |-> FALSE, torn |-> FALSE]
        \/ c = [open |-> FALSE, matched |-> FALSE, torn |-> FALSE]
    BY <1>1 DEF bindSocket, unbound
  <2>2. c.matched = FALSE
    BY <2>1, SMT
  <2>3. \A u \in Sources : pub'[u] = IF u = s THEN c ELSE pub[u]
    BY <1>1 DEF PairInv
  <2> QED BY <2>2, <2>3
<1>3. UNCHANGED <<frames, conn, queue, active, readable, tries>>
  BY DEF openPort, pipe
<1>4. \A u \in Sources :
         SocketOK(conn[u], queue[u], active[u], readable[u], pub'[u].matched, frames[u])
  BY <1>2 DEF SocketInv, SocketOK
<1> QED
  BY <1>3, <1>4 DEF SocketInv

\* Every step keeps the sockets in order.
LEMMA NextSockets == EInv /\ PairInv /\ SocketInv /\ [Next]_vars => SocketInv'
<1> SUFFICES ASSUME EInv, PairInv, SocketInv, [Next]_vars PROVE SocketInv'
  OBVIOUS
<1>1. CASE UNCHANGED <<pub, frames, conn, queue, active, readable, tries>>
  BY <1>1 DEF SocketInv
<1>2. \A s \in Sources : conn[s] \in ConnSet
  BY DEF SocketInv
<1>3. ASSUME NEW s \in Sources, queueRead(s) PROVE SocketInv'
  <2> DEFINE c == [conn[s] EXCEPT !.reading = requeue(dispatch(s, recv(s)).ok)]
  <2>1. c \in ConnSet /\ c.state = conn[s].state
    BY <1>2 DEF ConnSet, requeue
  <2>2. conn' = [conn EXCEPT ![s] = c]
    BY <1>3 DEF queueRead
  <2>3. /\ conn[s].state = "listening" /\ callback(s) /\ UNCHANGED <<pub, frames, tries>>
    BY <1>3 DEF queueRead
  <2> HIDE DEF c
  <2> QED BY <2>1, <2>2, <2>3, CallbackSockets
<1>4. ASSUME NEW s \in Sources, startListening(s) PROVE SocketInv'
  <2>1. CASE /\ callback(s) /\ UNCHANGED pub
             /\ conn' = [conn EXCEPT ![s].state = "listening", ![s].reading = TRUE]
    <3> DEFINE c == [conn[s] EXCEPT !.state = "listening", !.reading = TRUE]
    <3>1. c \in ConnSet /\ c.state = "listening"
      BY <1>2 DEF ConnSet
    <3>2. conn' = [conn EXCEPT ![s] = c]
      BY <1>2, <2>1 DEF ConnSet, SocketInv
    <3>3. conn[s].state = "connected" /\ UNCHANGED <<frames, tries>>
      BY <1>4 DEF startListening
    <3> HIDE DEF c
    <3> QED BY <2>1, <3>1, <3>2, <3>3, CallbackSockets
  <2>2. CASE close(s)
    BY <1>4, <2>2, CloseSockets DEF startListening
  <2> QED BY <1>4, <2>1, <2>2 DEF startListening
<1>5. ASSUME subscribeLocal \/ \E key \in PeerKeys : addPeer(key) PROVE SocketInv'
  BY <1>5, SubscribeSockets DEF subscribeLocal, addPeer, Sources
<1>6. ASSUME removePeer PROVE SocketInv'
  BY <1>6, CloseSockets DEF removePeer, Sources
<1>7. CASE runHandler
  BY <1>1, <1>7 DEF runHandler, pipe
<1>8. CASE UNCHANGED vars
  BY <1>1, <1>8 DEF vars, pipe
<1> QED
  BY <1>3, <1>4, <1>5, <1>6, <1>7, <1>8, OpenSockets, CommandSockets, PublishSockets DEF Next

\* A subscriber that is gone has nothing in its pipe, and a message never lies
\* in the pipe of a reader that nobody will wake: either its descriptor is
\* readable or it has not yet found the pipe empty (zmq/Subscriber.cpp,
\* svc/events/EventProcessor.cpp).
THEOREM SocketsInOrder == Spec => []ETypeOK
<1> DEFINE I == EInv /\ PairInv /\ SocketInv
<1>1. I /\ [Next]_vars => I'
  BY NextEInv, NextPairs, NextSockets
<1>2. Init => I
  BY InitEInv, InitPairs, InitSockets
<1>3. I => ETypeOK
  BY SocketTypes
<1> HIDE DEF I
<1> QED
  BY <1>1, <1>2, <1>3, PTL DEF Spec
=============================================================================
