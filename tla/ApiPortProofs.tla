--------------------------- MODULE ApiPortProofs ---------------------------
(***************************************************************************)
(* For any number of clients and requests: UncontrolledSocket hands every  *)
(* wake-up to exactly one reader, whatever the reader and its peers do,    *)
(* and ApiPort uses it as it is meant to be used; each request is read and *)
(* answered once, and the trove holds the scenes of the suspended handlers.*)
(***************************************************************************)
EXTENDS ApiPort, FiniteSetTheorems, TLAPS

-----------------------------------------------------------------------------
(* The socket. *)

\* OneReader and ReaderAttends are inductive together with the fact that the
\* history variable is what wantRead says, and that the wait is queued from
\* the moment a reader has run.
UInv ==
    /\ UTypeOK
    /\ OneReader
    /\ ReaderAttends
    /\ unseen = wantRead
    /\ queued \/ wantRead
    /\ callback => ~wantRead

\* The socket as it is constructed satisfies the invariant.
LEMMA UInitInv == UInit => UInv
<1> SUFFICES ASSUME UInit PROVE UInv
    OBVIOUS
<1> USE ThreadsAssumption DEF Threads
<1>1. UTypeOK
    BY DEF UInit, InitSocket, UTypeOK
<1>2. Busy(Opener) /\ ~Busy(Scheduler)
    BY DEF UInit, InitSocket, Busy
<1> QED
    BY <1>1, <1>2 DEF UInit, InitSocket, UInv, OneReader, ReaderAttends

\* Every step on the socket keeps it.
LEMMA UStepInv == UInv /\ [UNext]_uvars => UInv'
<1> SUFFICES ASSUME UInv, [UNext]_uvars PROVE UInv'
    OBVIOUS
<1> USE ThreadsAssumption DEF Threads
<1>1. CASE queueRead
    BY <1>1 DEF queueRead, HandWakeup, UInv, UTypeOK, OneReader, ReaderAttends, Busy
<1>2. ASSUME NEW t \in Threads, read(t) PROVE UInv'
  <2>1. Busy(t) /\ ~callback /\ \A u \in Threads : u # t => ~Busy(u)
    BY <1>2 DEF read, UInv, OneReader, Busy
  <2>2. CASE ReadAtOnce(t) /\ unseen' = FALSE
    <3>1. UTypeOK'
      BY <1>2, <2>2 DEF read, ReadAtOnce, UInv, UTypeOK
    <3>2. Busy(t)' /\ \A u \in Threads : u # t => ~Busy(u)'
      BY <2>1, <2>2 DEF ReadAtOnce, UInv, UTypeOK, Busy
    <3> QED
      BY <2>1, <2>2, <3>1, <3>2 DEF ReadAtOnce, UInv, OneReader, ReaderAttends
  <2>3. CASE Register(t) /\ UNCHANGED unseen
    <3>1. UTypeOK'
      BY <1>2, <2>3 DEF read, Register, UInv, UTypeOK
    <3>2. \A u \in Threads : ~Busy(u)'
      BY <2>1, <2>3 DEF Register, UInv, UTypeOK, Busy
    <3> QED
      BY <2>1, <2>3, <3>1, <3>2 DEF Register, UInv, OneReader, ReaderAttends
  <2> QED
    BY <1>2, <2>2, <2>3 DEF read
<1>3. ASSUME NEW t \in Threads, Callback(t) PROVE UInv'
  <2>1. Busy(t) /\ ~callback /\ \A u \in Threads : u # t => ~Busy(u)
    BY <1>3 DEF Callback, UInv, OneReader, Busy
  <2>2. UTypeOK'
    BY <1>3 DEF Callback, UInv, UTypeOK
  <2>3. \A u \in Threads : u # t => ~Busy(u)'
    BY <1>3, <2>1 DEF Callback, UInv, UTypeOK, Busy
  <2>4. Busy(t)' \/ gaveUp'
    BY <1>3 DEF Callback, UInv, UTypeOK, Busy
  <2> QED
    BY <1>3, <2>1, <2>2, <2>3, <2>4 DEF Callback, UInv, OneReader, ReaderAttends
<1>4. CASE Background
    BY <1>4 DEF Background, UInv, UTypeOK, OneReader, ReaderAttends, Busy
<1>5. CASE UNCHANGED uvars
    BY <1>5 DEF uvars, UInv, UTypeOK, OneReader, ReaderAttends, Busy
<1> QED
    BY <1>1, <1>2, <1>3, <1>4, <1>5 DEF UNext

\* The reader of an UncontrolledSocket runs on one thread at a time, and not
\* while it is registered.
THEOREM SocketOneReader == USpec => []OneReader
<1>1. UInv => OneReader
    BY DEF UInv
<1> QED
    BY UInitInv, UStepInv, <1>1, PTL DEF USpec

\* No wake-up of an UncontrolledSocket is lost.
THEOREM SocketReaderAttends == USpec => []ReaderAttends
<1>1. UInv => ReaderAttends
    BY DEF UInv
<1> QED
    BY UInitInv, UStepInv, <1>1, PTL DEF USpec
-----------------------------------------------------------------------------
\* A response leaves the socket alone but for the commands, of which it
\* takes all or none.
LEMMA ResponseCommands ==
    ASSUME NEW q, handleRequest(q) PROVE commands' \in {commands, {}}
  BY DEF handleRequest, handleResponse

\* A step of ApiPort is, for its socket, one of the steps a user may take.
LEMMA PortStep == commands \subseteq Clients /\ [ANext]_avars => [UNext]_uvars
<1> SUFFICES ASSUME commands \subseteq Clients, [ANext]_avars
             PROVE  [UNext]_uvars
    OBVIOUS
<1>1. ASSUME NEW c \in Clients, Send(c) PROVE Background
    BY <1>1 DEF Send, Background
<1>2. CASE Wakeup
    BY <1>2 DEF Wakeup, UNext
<1>3. ASSUME NEW t \in Threads, QueueNext(t) PROVE read(t)
    BY <1>3 DEF QueueNext
<1>4. ASSUME NEW t \in Threads, recv(t) PROVE Background \/ Callback(t)
  <2>1. commands' \in {commands, {}}
    BY <1>4 DEF recv, RouterRecv
  <2> QED
    BY <1>4, <2>1 DEF recv, Background, Callback
<1>5. CASE SpawnOpener
    BY <1>5 DEF SpawnOpener, UNext, Callback, Threads
<1>6. CASE SpawnScheduler
  <2>1. commands' \in {commands, {}}
    BY <1>6, ResponseCommands DEF SpawnScheduler
  <2>2. Background \/ Callback(Scheduler)
    BY <1>6, <2>1 DEF SpawnScheduler, Background, Callback
  <2> QED
    BY <2>2 DEF UNext, Threads
<1>7. ASSUME NEW q \in posted, RunPosted(q) PROVE Background
  <2>1. commands' \in {commands, {}}
    BY <1>7, ResponseCommands DEF RunPosted
  <2> QED
    BY <1>7, <2>1 DEF RunPosted, Background
<1>8. ASSUME NEW c \in suspended, Resume(c) PROVE Background
    BY <1>8 DEF Resume, handleResponse, Background
<1>9. CASE UNCHANGED avars
    BY <1>9 DEF avars
<1> QED
    BY <1>1, <1>2, <1>3, <1>4, <1>5, <1>6, <1>7, <1>8, <1>9 DEF ANext, UNext

\* Every behaviour of an API port, whatever requests arrive and however its
\* handlers suspend, fail or hang, is a behaviour of UncontrolledSocket.
THEOREM PortUsesSocket == ASpec => USpec
<1>1. AInit => UInit
    BY DEF AInit, UInit
<1>2. UInit => commands \subseteq Clients
    BY DEF UInit
<1>3. commands \subseteq Clients /\ [UNext]_uvars => (commands \subseteq Clients)'
    BY DEF UNext, uvars, queueRead, read, Callback, Background
<1> QED
    BY <1>1, <1>2, <1>3, PortStep, PTL DEF ASpec, USpec

\* The members of a port's socket keep their types.
THEOREM PortSocketTypes == ASpec => []UTypeOK
<1>1. UInv => UTypeOK
    BY DEF UInv
<1> QED
    BY <1>1, UInitInv, UStepInv, PortUsesSocket, PTL DEF USpec

\* So ApiPort::read is never run by the opening thread and the scheduler's
\* thread at once,
THEOREM PortOneReader == ASpec => []OneReader
  BY PortUsesSocket, SocketOneReader, PTL

\* and until a receive fails it is told of every wake-up of its descriptor.
THEOREM PortReaderAttends == ASpec => []ReaderAttends
  BY PortUsesSocket, SocketReaderAttends, PTL

-----------------------------------------------------------------------------
(* The requests. *)

\* Leaves that name no prover are left to Zenon.
USE Zenon

\* The places a request of client c may be at.
InPipe(c) == inbox[c] # NoRequest
InRead(c) == got # NoRequest /\ got.client = c
InPosted(c) == \E q \in posted : q.client = c
InHandler(c) == c \in suspended

\* A client waits when its request is at one of them, and it is at one only.
OnePlace(c) ==
    /\ InPipe(c) => waiting[c] /\ ~InRead(c) /\ ~InPosted(c) /\ ~InHandler(c)
    /\ InRead(c) => waiting[c] /\ ~InPosted(c) /\ ~InHandler(c)
    /\ InPosted(c) => waiting[c] /\ ~InHandler(c)
    /\ InHandler(c) => waiting[c]
    /\ waiting[c] => InPipe(c) \/ InRead(c) \/ InPosted(c) \/ InHandler(c)

\* The list memory lists the scenes in open, each once.
Lists(memory, open) ==
    /\ \A i \in 1 .. Len(memory) : memory[i] \in open
    /\ \A c \in open : \E i \in 1 .. Len(memory) : memory[i] = c
    /\ \A i, j \in 1 .. Len(memory) : memory[i] = memory[j] => i = j

RTypes ==
    /\ waiting \in [Clients -> BOOLEAN]
    /\ inbox \in [Clients -> Kinds \cup {NoRequest}]
    /\ got \in Requests \cup {NoRequest}
    /\ posted \subseteq Requests
    /\ suspended \subseteq Clients
    /\ trove \in Seq(Clients)
    /\ spinning \in BOOLEAN /\ crashed \in BOOLEAN

\* A pending command means a message in the pipe, so that a receive by it
\* finds one; two posted requests are of two clients.
RInv ==
    /\ RTypes
    /\ commands \subseteq {c \in Clients : InPipe(c)}
    /\ \A q, r \in posted : q.client = r.client => q = r
    /\ ~crashed => \A c \in Clients : OnePlace(c)
    /\ ~spinning => Lists(trove, suspended)

\* An open port satisfies the invariant.
LEMMA InitRInv == AInit => RInv
<1> SUFFICES ASSUME AInit PROVE RInv
  OBVIOUS
<1>1. RTypes
  <2>1. waiting \in [Clients -> BOOLEAN]
    BY DEF AInit
  <2>2. inbox \in [Clients -> Kinds \cup {NoRequest}]
    BY DEF AInit
  <2>3. trove \in Seq(Clients)
    BY SMT DEF AInit
  <2> QED
    BY <2>1, <2>2, <2>3 DEF AInit, RTypes
<1>2. \A c \in Clients : OnePlace(c)
  <2>1. \A c \in Clients : waiting[c] = FALSE /\ inbox[c] = NoRequest
    BY DEF AInit
  <2> QED
    BY <2>1 DEF AInit, OnePlace, InPipe, InRead, InPosted, InHandler
<1>3. Lists(trove, suspended)
  BY SMT DEF AInit, Lists
<1> QED
  BY <1>1, <1>2, <1>3 DEF AInit, RInv

-----------------------------------------------------------------------------
\* A scene behind the others.
LEMMA ListsAppend ==
    ASSUME NEW memory \in Seq(Clients), NEW open \in SUBSET Clients, NEW c \in Clients,
           Lists(memory, open), c \notin open
    PROVE  Append(memory, c) \in Seq(Clients) /\ Lists(Append(memory, c), open \cup {c})
<1> DEFINE longer == Append(memory, c)
<1>1. longer \in Seq(Clients) /\ Len(memory) \in Nat /\ Len(longer) = Len(memory) + 1
      /\ longer[Len(memory) + 1] = c /\ \A i \in 1 .. Len(memory) : longer[i] = memory[i]
  BY SMT
<1> HIDE DEF longer
<1> QED
  BY <1>1, SMT DEF Lists, longer

\* cleanup that returns has removed the first scene, if there was one.
LEMMA ListsTail ==
    ASSUME NEW memory \in Seq(Clients), NEW open \in SUBSET Clients, memory # <<>>,
           Lists(memory, open)
    PROVE  Tail(memory) \in Seq(Clients) /\ Lists(Tail(memory), open \ {Head(memory)})
<1> DEFINE rest == Tail(memory)
<1>1. rest \in Seq(Clients) /\ Len(memory) \in Nat /\ Len(memory) > 0
      /\ Len(rest) = Len(memory) - 1 /\ Head(memory) = memory[1]
      /\ \A i \in 1 .. Len(memory) - 1 : rest[i] = memory[i + 1]
  BY SMT
<1> HIDE DEF rest
<1>2. \A i \in 1 .. Len(rest) : i + 1 \in 1 .. Len(memory) /\ rest[i] = memory[i + 1]
  BY <1>1, SMT
<1>3. \A i \in 1 .. Len(rest) : rest[i] \in open \ {Head(memory)}
  BY <1>1, <1>2, SMT DEF Lists
<1>4. ASSUME NEW c \in open \ {Head(memory)} PROVE \E i \in 1 .. Len(rest) : rest[i] = c
  <2>1. PICK j \in 1 .. Len(memory) : memory[j] = c
    BY <1>4 DEF Lists
  <2>2. j - 1 \in 1 .. Len(rest) /\ rest[j - 1] = c
    BY <1>1, <1>4, <2>1, SMT
  <2> QED
    BY <2>2
<1>5. \A i, j \in 1 .. Len(rest) : rest[i] = rest[j] => i = j
  BY <1>1, <1>2, SMT DEF Lists
<1> QED
  BY <1>1, <1>3, <1>4, <1>5 DEF Lists, rest

-----------------------------------------------------------------------------
\* A client sends.
LEMMA SendRInv == ASSUME RInv, NEW c \in Clients, Send(c) PROVE RInv'
<1> USE NoRequestAssumption
<1>1. RTypes'
  BY DEF RInv, RTypes, Send
<1>2. inbox'[c] # NoRequest /\ \A d \in Clients : d # c => inbox'[d] = inbox[d]
  BY DEF RInv, RTypes, Send
<1>3. commands' \subseteq {d \in Clients : InPipe(d)'}
  BY <1>2 DEF RInv, Send, InPipe
<1>4. ASSUME ~crashed', NEW d \in Clients PROVE OnePlace(d)'
  <2>1. OnePlace(d) /\ OnePlace(c) /\ ~waiting[c]
    BY <1>4 DEF Send, RInv
  <2>2. waiting'[c] = TRUE /\ (d # c => waiting'[d] = waiting[d])
    BY DEF RInv, RTypes, Send
  <2>3. UNCHANGED <<got, posted, suspended>>
    BY DEF Send
  <2> QED
    BY <1>2, <2>1, <2>2, <2>3 DEF OnePlace, InPipe, InRead, InPosted, InHandler
<1> QED
  BY <1>1, <1>3, <1>4 DEF RInv, Send

\* ApiPort::read receives.
LEMMA RecvRInv == ASSUME RInv, NEW t \in Threads, recv(t) PROVE RInv'
<1> USE NoRequestAssumption
<1>1. ~crashed /\ got = NoRequest
      /\ UNCHANGED <<waiting, posted, suspended, trove, spinning, crashed>>
  BY DEF recv, CanRun
<1>2. CASE UNCHANGED <<got, inbox>> /\ commands' \subseteq commands
  BY <1>1, <1>2 DEF RInv, RTypes, OnePlace, InPipe, InRead, InPosted, InHandler
<1>3. ASSUME NEW c \in Clients, InPipe(c), Take(c), commands' \subseteq commands \ {c}
      PROVE  RInv'
  <2>1. got' = [client |-> c, kind |-> inbox[c]] /\ got' \in Requests /\ got' # NoRequest
    BY <1>3, SMT DEF Take, InPipe, RInv, RTypes, Requests
  <2>2. inbox'[c] = NoRequest /\ \A d \in Clients : d # c => inbox'[d] = inbox[d]
    BY <1>3 DEF Take, RInv, RTypes
  <2>3. RTypes'
    BY <1>1, <1>3, <2>1 DEF Take, RInv, RTypes
  <2>4. commands' \subseteq {d \in Clients : InPipe(d)'}
    BY <1>3, <2>2 DEF RInv, InPipe
  <2>5. ASSUME NEW d \in Clients PROVE OnePlace(d)'
    <3>1. OnePlace(d) /\ OnePlace(c)
      BY <1>1 DEF RInv
    <3>2. got'.client = c
      BY <2>1
    <3> QED
      BY <1>1, <1>3, <2>1, <2>2, <3>1, <3>2 DEF OnePlace, InPipe, InRead, InPosted, InHandler
  <2> QED
    BY <1>1, <2>3, <2>4, <2>5 DEF RInv
<1>4. CASE \E c \in Ready : Take(c) /\ UNCHANGED commands
  BY <1>3, <1>4 DEF Ready, Active, InPipe
<1>5. CASE \E c \in commands : Take(c) /\ commands' = {}
  BY <1>3, <1>5 DEF RInv
<1> QED
  BY <1>2, <1>4, <1>5 DEF recv, RouterRecv

-----------------------------------------------------------------------------
\* What handling a request of client c, which nobody has suspended, leaves:
\* the client has its reply, or its handler is suspended, or the process is
\* dead; and the trove still lists the suspended handlers.
LEMMA HandleRequest ==
    ASSUME RInv, ~crashed, ~spinning, NEW q \in Requests, q.client \notin suspended,
           handleRequest(q)
    PROVE  /\ trove' \in Seq(Clients) /\ spinning' \in BOOLEAN /\ crashed' \in BOOLEAN
           /\ commands' \subseteq commands
           /\ ~spinning' => Lists(trove', suspended')
           /\ \/ crashed' = TRUE /\ UNCHANGED <<waiting, suspended>>
              \/ waiting' = [waiting EXCEPT ![q.client] = FALSE] /\ UNCHANGED <<suspended, crashed>>
              \/ suspended' = suspended \cup {q.client} /\ UNCHANGED <<waiting, crashed>>
<1> DEFINE c == q.client
<1>1. c \in Clients /\ c \notin suspended
  BY DEF Requests
<1>2. trove \in Seq(Clients) /\ suspended \in SUBSET Clients /\ Lists(trove, suspended)
  BY DEF RInv, RTypes
<1>3. trove # <<>> => Head(trove) \in suspended
  BY <1>2, SMT DEF Lists
<1>4. Append(trove, c) \in Seq(Clients) /\ Lists(Append(trove, c), suspended \cup {c})
  BY <1>1, <1>2, ListsAppend
<1>5. CASE q.kind = "garbled" /\ crashed' = TRUE /\ UNCHANGED <<waiting, commands, suspended, trove, spinning>>
  BY <1>2, <1>5 DEF RInv, RTypes
<1>6. CASE handleResponse(c, trove) /\ UNCHANGED <<suspended, crashed>>
  <2>1. trove' = trove /\ (~spinning' => trove = <<>>) /\ spinning' \in BOOLEAN
    BY <1>1, <1>3, <1>6 DEF handleResponse, cleanup
  <2> QED
    BY <1>2, <1>6, <2>1 DEF handleResponse, RInv, RTypes
<1>7. CASE handleResponse(c, Append(trove, c)) /\ UNCHANGED <<suspended, crashed>>
  <2>1. Append(trove, c) # <<>> /\ (trove # <<>> => Head(Append(trove, c)) = Head(trove))
    <3>1. Len(trove) \in Nat /\ Len(Append(trove, c)) = Len(trove) + 1
      BY <1>1, <1>2, SMT
    <3>2. trove # <<>> => Len(trove) > 0 /\ Head(trove) = trove[1]
      BY <1>2, SMT
    <3>3. Append(trove, c) # <<>> /\ Head(Append(trove, c)) = Append(trove, c)[1]
      BY <1>4, <3>1, SMT
    <3>4. \A i \in 1 .. Len(trove) : Append(trove, c)[i] = trove[i]
      BY <1>1, <1>2, SMT
    <3> QED
      BY <3>1, <3>2, <3>3, <3>4, SMT
  <2>2. trove' \in Seq(Clients) /\ spinning' \in BOOLEAN
    <3>1. Tail(Append(trove, c)) \in Seq(Clients)
      BY <1>4, <2>1, SMT
    <3>2. trove' \in {Append(trove, c), Tail(Append(trove, c))} /\ spinning' \in BOOLEAN
      BY <1>7 DEF handleResponse, cleanup
    <3> QED
      BY <1>4, <3>1, <3>2
  <2>3. ASSUME ~spinning' PROVE Lists(trove', suspended')
    <3>1. trove = <<>>
      BY <1>1, <1>3, <1>7, <2>1, <2>3 DEF handleResponse, cleanup
    <3>2. trove' = <<>>
      BY <1>1, <1>7, <3>1, SMT DEF handleResponse, cleanup
    <3> QED
      BY <1>2, <1>7, <3>1, <3>2
  <2> QED
    BY <1>7, <2>2, <2>3 DEF handleResponse, RInv, RTypes
<1>8. CASE /\ trove' = Append(trove, c) /\ suspended' = suspended \cup {c}
           /\ UNCHANGED <<waiting, commands, spinning, crashed>>
  BY <1>4, <1>8 DEF RInv, RTypes
<1> QED
  BY <1>5, <1>6, <1>7, <1>8 DEF handleRequest

\* A client whose request leaves the reader or the queue and is answered or
\* suspended has its request at one place; the other clients are as before.
LEMMA OnePlaceHandled ==
    ASSUME RInv, ~crashed, NEW q \in Requests, NEW d \in Clients, UNCHANGED inbox,
           \/ waiting' = [waiting EXCEPT ![q.client] = FALSE] /\ UNCHANGED <<suspended, crashed>>
           \/ suspended' = suspended \cup {q.client} /\ UNCHANGED <<waiting, crashed>>,
           \/ q = got /\ got # NoRequest /\ got' = NoRequest /\ UNCHANGED posted
           \/ q \in posted /\ posted' = posted \ {q} /\ UNCHANGED got
    PROVE  OnePlace(d)'
<1> DEFINE c == q.client
<1>1. c \in Clients
  BY DEF Requests
<1>2. OnePlace(d) /\ OnePlace(c)
  BY <1>1 DEF RInv
<1>3. InRead(c) \/ InPosted(c)
  BY DEF InRead, InPosted
<1>4. ~InRead(c)' /\ ~InPosted(c)' /\ ~InPipe(c)' /\ waiting[c] /\ ~InHandler(c)
  <2>1. CASE q = got /\ got # NoRequest /\ got' = NoRequest /\ UNCHANGED posted
    BY <1>2, <2>1 DEF OnePlace, InRead, InPosted, InPipe
  <2>2. CASE q \in posted /\ posted' = posted \ {q} /\ UNCHANGED got
    BY <1>2, <2>2 DEF OnePlace, InRead, InPosted, InPipe, RInv
  <2> QED
    BY <2>1, <2>2
<1>5. CASE d = c
  BY <1>1, <1>4, <1>5 DEF OnePlace, InHandler, RInv, RTypes
<1>6. CASE d # c
  <2>1. InRead(d)' = InRead(d) /\ InPosted(d)' = InPosted(d) /\ InPipe(d)' = InPipe(d)
    BY <1>6 DEF InRead, InPosted, InPipe
  <2>2. waiting'[d] = waiting[d] /\ InHandler(d)' = InHandler(d)
    BY <1>6, SMT DEF RInv, RTypes, InHandler
  <2> QED
    BY <1>2, <2>1, <2>2 DEF OnePlace
<1> QED
  BY <1>5, <1>6

\* The steps that handle a request: the opening thread posts it,
LEMMA SpawnOpenerRInv == ASSUME RInv, SpawnOpener PROVE RInv'
<1> USE NoRequestAssumption
<1>1. ~crashed /\ got \in Requests /\ got' = NoRequest /\ posted' = posted \cup {got}
      /\ UNCHANGED <<waiting, inbox, commands, suspended, trove, spinning, crashed>>
  BY DEF SpawnOpener, CanRun, RInv, RTypes
<1>2. got.client \in Clients /\ got # NoRequest
  BY <1>1 DEF Requests
<1>3. OnePlace(got.client)
  BY <1>1, <1>2 DEF RInv
<1>4. ~InPosted(got.client)
  BY <1>2, <1>3 DEF OnePlace, InRead
<1>5. \A q, r \in posted' : q.client = r.client => q = r
  BY <1>1, <1>4 DEF RInv, InPosted
<1>6. ASSUME NEW d \in Clients PROVE OnePlace(d)'
  <2>1. OnePlace(d)
    BY <1>1 DEF RInv
  <2>2. ~InRead(d)' /\ (InPosted(d)' <=> InPosted(d) \/ InRead(d))
    BY <1>1, <1>2 DEF InRead, InPosted
  <2> QED
    BY <1>1, <2>1, <2>2 DEF OnePlace, InPipe, InHandler
<1> QED
  BY <1>1, <1>5, <1>6 DEF RInv, RTypes, InPipe

\* the scheduler's thread handles what its reader has received,
LEMMA SpawnSchedulerRInv == ASSUME RInv, SpawnScheduler PROVE RInv'
<1> USE NoRequestAssumption
<1>1. ~crashed /\ ~spinning /\ got \in Requests /\ got # NoRequest /\ got' = NoRequest
      /\ handleRequest(got) /\ UNCHANGED <<inbox, posted>>
  BY DEF SpawnScheduler, CanRun, RInv, RTypes
<1>2. got.client \in Clients /\ got.client \notin suspended
  BY <1>1 DEF Requests, RInv, OnePlace, InRead, InHandler
<1>3. /\ trove' \in Seq(Clients) /\ spinning' \in BOOLEAN /\ crashed' \in BOOLEAN
      /\ commands' \subseteq commands
      /\ ~spinning' => Lists(trove', suspended')
      /\ \/ crashed' = TRUE /\ UNCHANGED <<waiting, suspended>>
         \/ waiting' = [waiting EXCEPT ![got.client] = FALSE] /\ UNCHANGED <<suspended, crashed>>
         \/ suspended' = suspended \cup {got.client} /\ UNCHANGED <<waiting, crashed>>
  BY <1>1, <1>2, HandleRequest
<1>4. RTypes'
  BY <1>1, <1>2, <1>3 DEF RInv, RTypes
<1>5. ASSUME ~crashed', NEW d \in Clients PROVE OnePlace(d)'
  BY <1>1, <1>3, <1>5, OnePlaceHandled
<1> QED
  BY <1>1, <1>3, <1>4, <1>5 DEF RInv, InPipe

\* or what was posted,
LEMMA RunPostedRInv == ASSUME RInv, NEW q \in posted, RunPosted(q) PROVE RInv'
<1>1. ~crashed /\ ~spinning /\ q \in Requests /\ posted' = posted \ {q}
      /\ handleRequest(q) /\ UNCHANGED <<inbox, got>>
  BY DEF RunPosted, CanRun, RInv, RTypes
<1>2. q.client \in Clients /\ q.client \notin suspended
  BY <1>1 DEF Requests, RInv, OnePlace, InPosted, InHandler
<1>3. /\ trove' \in Seq(Clients) /\ spinning' \in BOOLEAN /\ crashed' \in BOOLEAN
      /\ commands' \subseteq commands
      /\ ~spinning' => Lists(trove', suspended')
      /\ \/ crashed' = TRUE /\ UNCHANGED <<waiting, suspended>>
         \/ waiting' = [waiting EXCEPT ![q.client] = FALSE] /\ UNCHANGED <<suspended, crashed>>
         \/ suspended' = suspended \cup {q.client} /\ UNCHANGED <<waiting, crashed>>
  BY <1>1, <1>2, HandleRequest
<1>4. RTypes'
  BY <1>1, <1>2, <1>3 DEF RInv, RTypes
<1>5. ASSUME ~crashed', NEW d \in Clients PROVE OnePlace(d)'
  BY <1>1, <1>3, <1>5, OnePlaceHandled
<1> QED
  BY <1>1, <1>3, <1>4, <1>5 DEF RInv, InPipe

\* and a suspended handler ends.
LEMMA ResumeRInv == ASSUME RInv, NEW c \in suspended, Resume(c) PROVE RInv'
<1>1. ~crashed /\ ~spinning /\ c \in Clients /\ suspended' = suspended \ {c}
      /\ handleResponse(c, trove) /\ UNCHANGED <<inbox, got, posted, crashed>>
  BY DEF Resume, CanRun, RInv, RTypes
<1>2. trove \in Seq(Clients) /\ suspended \in SUBSET Clients /\ Lists(trove, suspended)
  BY <1>1 DEF RInv, RTypes
<1>3. trove # <<>>
  BY <1>2, SMT DEF Lists
<1>4. Tail(trove) \in Seq(Clients) /\ Lists(Tail(trove), suspended \ {Head(trove)})
  BY <1>2, <1>3, ListsTail
<1>5. trove' \in Seq(Clients) /\ spinning' \in BOOLEAN /\ (~spinning' => Lists(trove', suspended'))
  BY <1>1, <1>2, <1>3, <1>4 DEF handleResponse, cleanup
<1>6. waiting' = [waiting EXCEPT ![c] = FALSE] /\ commands' \subseteq commands
  BY <1>1 DEF handleResponse
<1>7. RTypes'
  BY <1>1, <1>5, <1>6 DEF RInv, RTypes
<1>8. ASSUME NEW d \in Clients PROVE OnePlace(d)'
  <2>1. OnePlace(d)
    BY <1>1 DEF RInv
  <2>2. IF d = c THEN waiting'[d] = FALSE ELSE waiting'[d] = waiting[d]
    BY <1>1, <1>6 DEF RInv, RTypes
  <2> QED
    BY <1>1, <2>1, <2>2 DEF OnePlace, InPipe, InRead, InPosted, InHandler
<1> QED
  BY <1>1, <1>5, <1>6, <1>7, <1>8 DEF RInv, InPipe

\* Every step of the port keeps the invariant.
LEMMA NextRInv == RInv /\ [ANext]_avars => RInv'
<1> SUFFICES ASSUME RInv, [ANext]_avars PROVE RInv'
  OBVIOUS
<1>1. CASE UNCHANGED <<portvars, commands>>
  BY <1>1 DEF portvars, RInv, RTypes, OnePlace, InPipe, InRead, InPosted, InHandler, Lists
<1>2. CASE Wakeup
  BY <1>1, <1>2 DEF Wakeup, queueRead
<1>3. ASSUME NEW t \in Threads, QueueNext(t) PROVE RInv'
  BY <1>1, <1>3 DEF QueueNext, read
<1>4. CASE UNCHANGED avars
  BY <1>1, <1>4 DEF avars, uvars, portvars
<1> QED
  BY <1>2, <1>3, <1>4, SendRInv, RecvRInv, SpawnOpenerRInv, SpawnSchedulerRInv,
     RunPostedRInv, ResumeRInv DEF ANext

\* A request at one place is one request.
LEMMA OnePlaceConserved == RInv => RequestConserved
<1> USE NoRequestAssumption
<1> SUFFICES ASSUME RInv, ~crashed, NEW c \in Clients
             PROVE  Cardinality(Received(c)) + (IF inbox[c] = NoRequest THEN 0 ELSE 1)
                        = IF waiting[c] THEN 1 ELSE 0
  BY DEF RequestConserved
<1>1. OnePlace(c)
  BY DEF RInv
<1>2. InRead(c) \/ InPosted(c) \/ InHandler(c) \/ Received(c) = {}
  BY DEF Received, InRead, InPosted, InHandler
<1>3. ASSUME InRead(c) \/ InPosted(c) \/ InHandler(c) PROVE \E q : Received(c) = {q}
  <2>1. CASE InRead(c)
    <3>1. Received(c) = {got}
      BY <1>1, <2>1 DEF Received, OnePlace, InRead, InPosted, InHandler
    <3> QED
      BY <3>1
  <2>2. CASE InPosted(c)
    <3>1. PICK q \in posted : q.client = c
      BY <2>2 DEF InPosted
    <3>2. \A r \in posted : r.client = c => r = q
      BY <3>1 DEF RInv
    <3>3. q # NoRequest /\ ~InRead(c) /\ c \notin suspended
      BY <1>1, <2>2 DEF OnePlace, InHandler, RInv, RTypes
    <3>4. Received(c) = {q}
      BY <3>1, <3>2, <3>3 DEF Received, InRead
    <3> QED
      BY <3>4
  <2>3. CASE InHandler(c)
    <3>1. Received(c) = {[client |-> c, kind |-> "served"]}
      BY <1>1, <2>3 DEF Received, OnePlace, InRead, InPosted, InHandler
    <3> QED
      BY <3>1
  <2> QED
    BY <1>3, <2>1, <2>2, <2>3
<1>4. CASE waiting[c]
  <2>1. CASE InPipe(c)
    <3>1. Received(c) = {}
      BY <1>1, <1>2, <2>1 DEF OnePlace
    <3> QED
      BY <1>4, <2>1, <3>1, FS_EmptySet, SMT DEF InPipe
  <2>2. CASE ~InPipe(c)
    <3>1. PICK q : Received(c) = {q}
      BY <1>1, <1>3, <1>4, <2>2 DEF OnePlace
    <3>2. Cardinality(Received(c)) = 1
      BY <3>1, FS_Singleton
    <3> QED
      BY <1>4, <2>2, <3>2, SMT DEF InPipe
  <2> QED
    BY <2>1, <2>2
<1>5. CASE ~waiting[c]
  <2>1. Received(c) = {} /\ ~InPipe(c)
    BY <1>1, <1>2, <1>5 DEF OnePlace
  <2> QED
    BY <1>5, <2>1, FS_EmptySet, SMT DEF InPipe
<1> QED
  BY <1>4, <1>5

\* A list of the suspended handlers has as many elements.
LEMMA ListsHoldsOpen == RInv => TroveHoldsOpen
<1> SUFFICES ASSUME RInv, ~spinning
             PROVE  Range(trove) = suspended /\ Len(trove) = Cardinality(suspended)
  BY DEF TroveHoldsOpen
<1>1. Lists(trove, suspended) /\ Len(trove) \in Nat /\ DOMAIN trove = 1 .. Len(trove)
  BY SMT DEF RInv, RTypes
<1>2. Range(trove) = suspended
  BY <1>1, SMT DEF Lists, Range
<1>3. trove \in Bijection(1 .. Len(trove), suspended)
  <2>1. trove \in [1 .. Len(trove) -> suspended]
    BY <1>1, SMT DEF Lists, RInv, RTypes
  <2> QED
    BY <1>1, <2>1 DEF Lists, Bijection, Injection, Surjection, IsInjective
<1>4. ExistsBijection(1 .. Len(trove), suspended)
  BY <1>3 DEF ExistsBijection
<1>5. Cardinality(suspended) = Len(trove)
  BY <1>1, <1>4, FS_CountingElements
<1> QED
  BY <1>2, <1>5

\* "Respond" (ApiPort.cpp:164): no request is lost, read twice or answered
\* twice between the pipe and the reply, with any number of clients, whatever
\* the order in which handlers suspend and end.
THEOREM RequestsConserved == ASpec => []RequestConserved
  BY InitRInv, NextRInv, OnePlaceConserved, PTL DEF ASpec

\* "Done with memory" (ApiPort.cpp:209): as long as cleanup returns, the trove
\* holds the scenes of exactly the suspended handlers.
THEOREM TroveIsExact == ASpec => []TroveHoldsOpen
  BY InitRInv, NextRInv, ListsHoldsOpen, PTL DEF ASpec


\* A pipe that the reader has found empty has no command pending: a receive and
\* a client's send move it from one to the other, and a reply only takes the
\* commands away.
PipesInv ==
    /\ sent \in [Clients -> 0 .. MaxRequests]
    /\ asleep \subseteq Clients /\ asleep \cap commands = {}

\* Every step of the port keeps the pipes that sleep apart from the others.
LEMMA NextPipes == PipesInv /\ commands \subseteq Clients /\ [ANext]_avars => PipesInv'
<1> SUFFICES ASSUME PipesInv, commands \subseteq Clients, [ANext]_avars PROVE PipesInv'
  OBVIOUS
<1>1. CASE sent' = sent /\ asleep' = asleep /\ commands' \in {commands, {}}
  BY <1>1 DEF PipesInv
<1>2. ASSUME NEW c \in Clients, Send(c) PROVE PipesInv'
  BY <1>2, MaxRequestsAssumption, SMT DEF Send, PipesInv
<1>3. ASSUME NEW t \in Threads, recv(t) PROVE PipesInv'
  <2>1. sent' = sent
    BY <1>3 DEF recv
  <2>2. CASE RouterRecv
    BY <2>1, <2>2 DEF RouterRecv, Active, PipesInv
  <2>3. CASE UNCHANGED <<asleep, commands>>
    BY <2>1, <2>3 DEF PipesInv
  <2> QED
    BY <1>3, <2>2, <2>3 DEF recv
<1>4. ASSUME NEW q, handleRequest(q), UNCHANGED <<sent, asleep>> PROVE PipesInv'
  BY <1>1, <1>4, ResponseCommands
<1>5. CASE SpawnOpener \/ SpawnScheduler
  BY <1>1, <1>4, <1>5 DEF SpawnOpener, SpawnScheduler
<1>6. ASSUME NEW q \in posted, RunPosted(q) PROVE PipesInv'
  BY <1>4, <1>6 DEF RunPosted
<1>7. ASSUME NEW c \in suspended, Resume(c) PROVE PipesInv'
  BY <1>1, <1>7 DEF Resume, handleResponse
<1>8. CASE Wakeup \/ UNCHANGED avars
  BY <1>1, <1>8 DEF Wakeup, queueRead, avars, uvars, portvars
<1>9. ASSUME NEW t \in Threads, QueueNext(t) PROVE PipesInv'
  BY <1>1, <1>9 DEF QueueNext, read, portvars
<1> QED
  BY <1>2, <1>3, <1>5, <1>6, <1>7, <1>8, <1>9 DEF ANext

\* Whatever the clients send and the handlers do, the port's variables keep
\* their types, and no pipe is both asleep and announced by a command.
THEOREM PortTypes == ASpec => []ATypeOK
<1>1. AInit => PipesInv
  BY MaxRequestsAssumption, SMT DEF AInit, PipesInv
<1>2. RInv => commands \subseteq Clients
  BY DEF RInv
<1>3. RInv /\ UTypeOK /\ PipesInv => ATypeOK
  BY DEF RInv, RTypes, PipesInv, ATypeOK
<1> QED
  BY InitRInv, NextRInv, NextPipes, PortSocketTypes, <1>1, <1>2, <1>3, PTL DEF ASpec

=============================================================================
