------------------------- MODULE UncontrolledSocket -------------------------
(***************************************************************************)
(* async::UncontrolledSocket (src/async/UncontrolledSocket.cpp): waits for *)
(* a file descriptor that somebody else reads from, and calls a reader     *)
(* back once per wake-up.  The wait is queued again before the reader      *)
(* runs; a wake-up that finds no reader waiting is kept in wantRead.       *)
(*                                                                         *)
(* Two threads use it: the thread that opens the port (the main thread of  *)
(* the service), which makes the first call of read and runs the first     *)
(* callback itself, and the thread of the scheduler, which runs the        *)
(* handler of the queued wait.  A critical section of the mutex is one     *)
(* action.  The descriptor is that of a ZeroMQ socket, readable while      *)
(* commands of its peers are pending.  What the reader does in its         *)
(* callback is left open here: it may or may not take the commands, and    *)
(* then calls read again, or gives up after an error.                      *)
(***************************************************************************)
CONSTANTS
    Opener,     \* the thread that opens the port
    Scheduler,  \* the thread of async::Scheduler
    Clients     \* the peers of the ZeroMQ socket

ASSUME ThreadsAssumption == Opener # Scheduler

Threads == {Opener, Scheduler}

VARIABLES
    queued,     \* a wait on the descriptor is outstanding
    wantRead,   \* a wake-up nobody was told of
    callback,   \* a reader is registered
    commands,   \* the peers whose command is pending on the descriptor
    thread,     \* what each thread does: "read" it calls read, "callback" it runs the reader
    gaveUp,     \* the reader returned without calling read again
    unseen      \* history: a wake-up came and the reader has not run since

uvars == <<queued, wantRead, callback, commands, thread, gaveUp, unseen>>

\* What a poll of the descriptor says.
readable == commands # {}

\* The socket is constructed with wantRead set, and openPort calls read.
InitSocket ==
    /\ queued = FALSE
    /\ wantRead = TRUE
    /\ callback = FALSE
    /\ thread = [t \in Threads |-> IF t = Opener THEN "read" ELSE "idle"]
    /\ gaveUp = FALSE
    /\ unseen = TRUE

UInit == InitSocket /\ commands \in SUBSET Clients

\* A defect: a wake-up without a reader is not kept.
queueReadForgets ==
    /\ callback' = FALSE
    /\ UNCHANGED wantRead
    /\ thread' = [thread EXCEPT ![Scheduler] = IF callback THEN "callback" ELSE @]

\* A defect: the reader stays registered while it runs.
queueReadKeepsReader ==
    /\ callback' = callback
    /\ wantRead' = ~callback
    /\ thread' = [thread EXCEPT ![Scheduler] = IF callback THEN "callback" ELSE @]

\* The handler of the wait: it queues the next wait, and hands the wake-up
\* to the registered reader or keeps it.
HandWakeup ==
    /\ callback' = FALSE
    /\ wantRead' = ~callback
    /\ thread' = [thread EXCEPT ![Scheduler] = IF callback THEN "callback" ELSE @]

queueRead ==
    /\ queued
    /\ readable
    /\ thread[Scheduler] = "idle"
    /\ HandWakeup
    /\ unseen' = ~callback
    /\ UNCHANGED <<queued, commands, gaveUp>>

\* read calls the reader at once for a wake-up that was kept, and registers
\* it otherwise.
ReadAtOnce(t) ==
    /\ wantRead
    /\ wantRead' = FALSE
    /\ queued' = TRUE
    /\ thread' = [thread EXCEPT ![t] = "callback"]
    /\ UNCHANGED callback

Register(t) ==
    /\ ~wantRead
    /\ callback' = TRUE
    /\ thread' = [thread EXCEPT ![t] = "idle"]
    /\ UNCHANGED <<queued, wantRead>>

read(t) ==
    /\ thread[t] = "read"
    /\ \/ ReadAtOnce(t) /\ unseen' = FALSE
       \/ Register(t) /\ UNCHANGED unseen
    /\ UNCHANGED <<commands, gaveUp>>

\* The reader's callback returns to the loop, or gives up after an error.
Callback(t) ==
    /\ thread[t] = "callback"
    /\ \/ /\ thread' = [thread EXCEPT ![t] = "read"]
          /\ UNCHANGED gaveUp
       \/ /\ thread' = [thread EXCEPT ![t] = "idle"]
          /\ gaveUp' = TRUE
    /\ commands' \in {commands, {}}
    /\ UNCHANGED <<queued, wantRead, callback, unseen>>

\* Commands arrive, or another call on the ZeroMQ socket takes them.
Background ==
    /\ commands' \in SUBSET Clients
    /\ UNCHANGED <<queued, wantRead, callback, thread, gaveUp, unseen>>

UNext ==
    \/ queueRead
    \/ \E t \in Threads : read(t) \/ Callback(t)
    \/ Background

USpec == UInit /\ [][UNext]_uvars
-----------------------------------------------------------------------------
Busy(t) == thread[t] \in {"read", "callback"}

UTypeOK ==
    /\ queued \in BOOLEAN
    /\ wantRead \in BOOLEAN
    /\ callback \in BOOLEAN
    /\ commands \subseteq Clients
    /\ thread \in [Threads -> {"idle", "read", "callback"}]
    /\ gaveUp \in BOOLEAN
    /\ unseen \in BOOLEAN

\* The reader (ApiPort::read) is never run by both threads at once, nor is
\* it registered while it runs: a wake-up goes to one of them.
OneReader ==
    /\ ~(Busy(Opener) /\ Busy(Scheduler))
    /\ callback => \A t \in Threads : ~Busy(t)

\* No wake-up is lost: until the reader gives up, it is running and will ask
\* again, or it is registered, the wait is outstanding and no wake-up has
\* come since it last ran.
ReaderAttends ==
    \/ gaveUp
    \/ \E t \in Threads : Busy(t)
    \/ callback /\ queued /\ ~unseen
=============================================================================
