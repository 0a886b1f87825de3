------------------------------ MODULE ApiPort ------------------------------
(***************************************************************************)
(* svc::ApiPort (src/svc/api/ApiPort.cpp): the request port of a service,  *)
(* a ZeroMQ ROUTER socket (zmq::Server) waited on by an UncontrolledSocket.*)
(* Each wake-up reads one message and spawns a coroutine that interprets   *)
(* it, runs its handler, replies and frees its scene (async::TreasureTrove)*)
(*                                                                         *)
(* The clients are zmq::Client, REQ sockets: one request outstanding each. *)
(* The ROUTER is external: a message of a client whose pipe the reader     *)
(* last found empty (asleep) comes with a command that makes the           *)
(* descriptor readable; a message for a pipe that is still active comes    *)
(* without one.  A receive that finds a message in an active pipe leaves   *)
(* the commands alone; one that finds none takes all of them first.        *)
(***************************************************************************)
EXTENDS UncontrolledSocket, Naturals, Sequences, FiniteSets, Functions

CONSTANTS
    Kinds,          \* kinds of request: "served", "refused", "garbled"
    MaxRequests,    \* bound on the requests of a client
    MayAwait,       \* whether handlers may suspend
    RecvFaults,     \* whether a receive may fail
    NoRequest

VARIABLES
    sent,       \* per client, the number of requests it has sent
    waiting,    \* per client, whether it waits for its reply
    inbox,      \* per client, the request in its pipe
    asleep,     \* the pipes the reader has found empty
    got,        \* the request ApiPort::read has received and not spawned
    posted,     \* the requests spawned by the opening thread, not yet run
    suspended,  \* the clients whose handler is suspended
    trove,      \* TreasureTrove::memory
    spinning,   \* the scheduler thread is in the loop of TreasureTrove::cleanup
    crashed     \* the process died

avars == <<uvars, sent, waiting, inbox, asleep, got, posted, suspended, trove,
           spinning, crashed>>

Requests == [client : Clients, kind : Kinds]

ASSUME NoRequestAssumption == NoRequest \notin Kinds \cup Requests

ASSUME MaxRequestsAssumption == MaxRequests \in Nat

AInit ==
    /\ InitSocket
    /\ commands = {}
    /\ sent = [c \in Clients |-> 0]
    /\ waiting = [c \in Clients |-> FALSE]
    /\ inbox = [c \in Clients |-> NoRequest]
    /\ asleep = Clients
    /\ got = NoRequest
    /\ posted = {}
    /\ suspended = {}
    /\ trove = <<>>
    /\ spinning = FALSE
    /\ crashed = FALSE

\* What a thread of the port may do: nothing in a dead process, and nothing
\* on the scheduler's thread while it spins.
CanRun(t) == ~crashed /\ ~(t = Scheduler /\ spinning)
-----------------------------------------------------------------------------
\* A client sends its next request.
Send(c) ==
    /\ ~waiting[c]
    /\ sent[c] < MaxRequests
    /\ \E k \in Kinds : inbox' = [inbox EXCEPT ![c] = k]
    /\ sent' = [sent EXCEPT ![c] = @ + 1]
    /\ waiting' = [waiting EXCEPT ![c] = TRUE]
    /\ commands' = commands \cup ({c} \cap asleep)
    /\ asleep' = asleep \ {c}
    /\ UNCHANGED <<queued, wantRead, callback, thread, gaveUp, unseen, got, posted,
                   suspended, trove, spinning, crashed>>

Active == Clients \ (asleep \cup commands)
Ready == {c \in Active : inbox[c] # NoRequest}

\* A defect: the message stays in the pipe.
TakeAgain(c) ==
    /\ got' = [client |-> c, kind |-> inbox[c]]
    /\ UNCHANGED inbox

Take(c) ==
    /\ got' = [client |-> c, kind |-> inbox[c]]
    /\ inbox' = [inbox EXCEPT ![c] = NoRequest]

\* A receive on the ROUTER with DONTWAIT.  Which active pipe it reads, and
\* which empty ones it finds on the way, depends on where its fair queue
\* stands.
RouterRecv ==
    \/ /\ \E c \in Ready : Take(c)
       /\ \E found \in SUBSET (Active \ Ready) : asleep' = asleep \cup found
       /\ UNCHANGED commands
    \/ /\ Ready = {}
       /\ \E c \in commands : Take(c)
       /\ commands' = {}
       /\ asleep' = asleep \cup Active
    \/ /\ Ready = {} /\ commands = {}
       /\ asleep' = asleep \cup Active
       /\ UNCHANGED <<got, inbox, commands>>

\* A defect: without a message the port registers itself, whatever wake-up
\* was kept meanwhile.
recvRegisters(t) ==
    /\ CanRun(t)
    /\ thread[t] = "callback"
    /\ got = NoRequest
    /\ RouterRecv
    /\ callback' = (got' = NoRequest)
    /\ thread' = IF got' = NoRequest THEN [thread EXCEPT ![t] = "idle"] ELSE thread
    /\ UNCHANGED <<queued, wantRead, gaveUp, unseen, sent, waiting, posted,
                   suspended, trove, spinning, crashed>>

\* A defect: the reader goes back to the socket without a receive.
recvSkipped(t) ==
    /\ CanRun(t)
    /\ thread[t] = "callback"
    /\ got = NoRequest
    /\ thread' = [thread EXCEPT ![t] = "read"]
    /\ UNCHANGED <<queued, wantRead, callback, commands, gaveUp, unseen, sent,
                   waiting, inbox, asleep, got, posted, suspended, trove,
                   spinning, crashed>>

\* ApiPort::read receives one message; without one, or after an error, it
\* goes on to socket.read or returns.
recv(t) ==
    /\ CanRun(t)
    /\ thread[t] = "callback"
    /\ got = NoRequest
    /\ \/ /\ RouterRecv
          /\ thread' = IF got' = NoRequest THEN [thread EXCEPT ![t] = "read"] ELSE thread
          /\ UNCHANGED gaveUp
       \/ /\ RecvFaults
          /\ gaveUp' = TRUE
          /\ thread' = [thread EXCEPT ![t] = "idle"]
          /\ UNCHANGED <<got, inbox, asleep, commands>>
    /\ UNCHANGED <<queued, wantRead, callback, unseen, sent, waiting, posted,
                   suspended, trove, spinning, crashed>>
-----------------------------------------------------------------------------
\* A defect: the scene stays in the trove.
cleanupKeeps(c, memory) == trove' = memory /\ UNCHANGED spinning

\* TreasureTrove::cleanup of a scene: the loop looks at the first element of
\* the list only, and goes on forever unless that is the scene.
cleanup(c, memory) ==
    /\ trove' = IF memory # <<>> /\ Head(memory) = c THEN Tail(memory) ELSE memory
    /\ spinning' = (memory # <<>> /\ Head(memory) # c)

\* handleResponse: the reply, and the end of the scene.  The send on the
\* ROUTER takes the pending commands unless it has looked for them shortly
\* before.
handleResponse(c, memory) ==
    /\ waiting' = [waiting EXCEPT ![c] = FALSE]
    /\ commands' \in {commands, {}}
    /\ cleanup(c, memory)

\* A defect: the trove gets the request and not its scene.
handleRequestTrovesRequest(q) ==
    /\ trove' = Append(trove, q)
    /\ suspended' = suspended \cup {q.client}
    /\ UNCHANGED <<waiting, commands, spinning, crashed>>

\* handleRequest up to its first suspension, or to its end.  A request that
\* is refused never enters the trove.  For one that was not interpreted the
\* log line of handleResponse takes the type of a null message.
handleRequest(q) ==
    \/ /\ q.kind = "garbled"
       /\ crashed' = TRUE
       /\ UNCHANGED <<waiting, commands, suspended, trove, spinning>>
    \/ /\ q.kind = "refused"
       /\ handleResponse(q.client, trove)
       /\ UNCHANGED <<suspended, crashed>>
    \/ /\ q.kind = "served"
       /\ \/ /\ handleResponse(q.client, Append(trove, q.client))
             /\ UNCHANGED suspended
          \/ /\ MayAwait
             /\ trove' = Append(trove, q.client)
             /\ suspended' = suspended \cup {q.client}
             /\ UNCHANGED <<waiting, commands, spinning>>
       /\ UNCHANGED crashed

\* ApiPort::read spawns the coroutine.  On the scheduler's thread it runs
\* there and then; from the opening thread it is posted.
SpawnOpener ==
    /\ CanRun(Opener)
    /\ thread[Opener] = "callback"
    /\ got # NoRequest
    /\ posted' = posted \cup {got}
    /\ got' = NoRequest
    /\ thread' = [thread EXCEPT ![Opener] = "read"]
    /\ UNCHANGED <<queued, wantRead, callback, commands, gaveUp, unseen, sent,
                   waiting, inbox, asleep, suspended, trove, spinning, crashed>>

SpawnScheduler ==
    /\ CanRun(Scheduler)
    /\ thread[Scheduler] = "callback"
    /\ got # NoRequest
    /\ handleRequest(got)
    /\ got' = NoRequest
    /\ thread' = IF spinning' \/ crashed' THEN thread ELSE [thread EXCEPT ![Scheduler] = "read"]
    /\ UNCHANGED <<queued, wantRead, callback, gaveUp, unseen, sent, inbox, asleep,
                   posted>>

\* A defect: what was spawned is lost with the reader.
RunPostedWhileReading(q) ==
    /\ ~gaveUp
    /\ CanRun(Scheduler)
    /\ thread[Scheduler] = "idle"
    /\ handleRequest(q)
    /\ posted' = posted \ {q}
    /\ UNCHANGED <<queued, wantRead, callback, thread, gaveUp, unseen, sent,
                   inbox, asleep, got>>

\* The scheduler's thread runs a posted coroutine.
RunPosted(q) ==
    /\ CanRun(Scheduler)
    /\ thread[Scheduler] = "idle"
    /\ handleRequest(q)
    /\ posted' = posted \ {q}
    /\ UNCHANGED <<queued, wantRead, callback, thread, gaveUp, unseen, sent,
                   inbox, asleep, got>>

\* A suspended handler is resumed and finishes.
Resume(c) ==
    /\ CanRun(Scheduler)
    /\ thread[Scheduler] = "idle"
    /\ suspended' = suspended \ {c}
    /\ handleResponse(c, trove)
    /\ UNCHANGED <<queued, wantRead, callback, thread, gaveUp, unseen, sent,
                   inbox, asleep, got, posted, crashed>>

portvars == <<sent, waiting, inbox, asleep, got, posted, suspended, trove,
              spinning, crashed>>

Wakeup == CanRun(Scheduler) /\ queueRead /\ UNCHANGED portvars
QueueNext(t) == CanRun(t) /\ read(t) /\ UNCHANGED portvars

ANext ==
    \/ \E c \in Clients : Send(c)
    \/ Wakeup
    \/ \E t \in Threads : QueueNext(t) \/ recv(t)
    \/ SpawnOpener
    \/ SpawnScheduler
    \/ \E q \in posted : RunPosted(q)
    \/ \E c \in suspended : Resume(c)

ASpec == AInit /\ [][ANext]_avars

\* Both threads run on, and the scheduler's thread gets to every handler
\* that is due: asio runs them in the order they become ready.
AFairness ==
    /\ WF_avars(Wakeup)
    /\ \A t \in Threads : WF_avars(QueueNext(t)) /\ WF_avars(recv(t))
    /\ WF_avars(SpawnOpener)
    /\ WF_avars(SpawnScheduler)
    /\ WF_avars(\E q \in posted : RunPosted(q))
    /\ \A c \in Clients : WF_avars(c \in suspended /\ Resume(c))

AFairSpec == ASpec /\ AFairness
-----------------------------------------------------------------------------
ATypeOK ==
    /\ UTypeOK
    /\ sent \in [Clients -> 0 .. MaxRequests]
    /\ waiting \in [Clients -> BOOLEAN]
    /\ inbox \in [Clients -> Kinds \cup {NoRequest}]
    /\ asleep \subseteq Clients /\ asleep \cap commands = {}
    /\ got \in Requests \cup {NoRequest}
    /\ posted \subseteq Requests
    /\ suspended \subseteq Clients
    /\ trove \in Seq(Clients)
    /\ spinning \in BOOLEAN
    /\ crashed \in BOOLEAN

\* The requests of c that the port has received and not answered.
Received(c) ==
    {q \in posted \cup {got} : q # NoRequest /\ q.client = c}
        \cup {q \in {[client |-> c, kind |-> "served"]} : c \in suspended}

\* No request is lost, read twice or answered twice on its way from the pipe
\* through ApiPort::read, the spawned coroutine and the handler to the
\* reply: a client that waits has exactly one request somewhere on that way,
\* a client that does not has none.
RequestConserved ==
    ~crashed =>
        \A c \in Clients :
            Cardinality(Received(c)) + (IF inbox[c] = NoRequest THEN 0 ELSE 1)
                = IF waiting[c] THEN 1 ELSE 0

\* The trove holds the scenes of exactly the suspended handlers: nothing
\* leaks when a request ends (handleResponse, "Done with memory"), and no
\* scene is freed under a handler, as long as cleanup has returned.
TroveHoldsOpen ==
    ~spinning => Range(trove) = suspended /\ Len(trove) = Cardinality(suspended)

\* The scheduler's thread is lost in TreasureTrove::cleanup, or the process
\* in handleResponse.
Stuck == spinning \/ crashed

\* "Respond" (ApiPort.cpp:164): a message that ApiPort::read has received is
\* answered, unless one of these two keeps it from its answer.  Nothing else
\* does: not the hand-over between the threads, nor other requests, nor a
\* receive that fails.
AnsweredOrStuck ==
    \A c \in Clients : (Received(c) # {}) ~> (~waiting[c] \/ Stuck)

\* A descriptor that polls readable is served: the UncontrolledSocket sees
\* to it that the reader runs and takes the pending commands, until a
\* receive fails.
WakeupServed == readable ~> (~readable \/ gaveUp \/ Stuck)
=============================================================================
