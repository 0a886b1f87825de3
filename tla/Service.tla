------------------------------ MODULE Service ------------------------------
(***************************************************************************)
(* svc::Service (src/svc/service/Service.cpp): the main loop of a service, *)
(* its initialization in steps, the signal handlers that ask it to shut    *)
(* down, and its cleanup, with the one thread of async::Scheduler.         *)
(*                                                                         *)
(* A signal is delivered to either thread and runs its handler there, on   *)
(* top of whatever the thread is doing, which waits for it to return: the  *)
(* handler itself locks mainLoopMutex.  ZeroMQ's own threads block every   *)
(* signal.  At most one handler runs on a thread at a time.                *)
(***************************************************************************)
EXTENDS Naturals

CONSTANTS
    Main,           \* the thread of exec
    Worker,         \* the thread of the scheduler
    Nobody,         \* no owner of a mutex
    SignalThreads,  \* the threads signals are delivered to
    MaxSignals,     \* bound on the number of signals
    MayHang         \* whether a handler on the scheduler may never return

Threads == {Main, Worker}

ASSUME ThreadsAssumption == Main # Worker /\ Nobody \notin Threads

ASSUME SignalThreadsAssumption == SignalThreads \subseteq Threads

ASSUME MaxSignalsAssumption == MaxSignals \in Nat

MAX_INTERRUPTS == 5

\* The steps of Service::init, each repeated until it has succeeded once.
initSignals == 1
initArgs == 2
initRand == 3
setupScene == 4
preInit == 5
startService == 6
postInit == 7

VARIABLES
    status,         \* Service::status
    pc,             \* where exec is
    steps,          \* the steps of init that have succeeded
    mainLoopMutex,  \* the thread that holds it
    worker,         \* the scheduler's thread
    running,        \* Scheduler: the thread is to go on
    ports,          \* apiProcessor and eventProcessor: "none", "open"
    publisher,      \* eventPublisher: "none", "open", "freed"
    cleaned,        \* params->postCleanup() has been called
    handler,        \* per thread, where its signal handler is
    signalState,    \* the handlers' state exists, and the handlers are installed
    interrupts,     \* Service::interrupts
    signals,        \* the number of signals so far
    exited          \* how the process ended

svars == <<status, pc, steps, mainLoopMutex, worker, running, ports, publisher,
           cleaned, handler, signalState, interrupts, signals, exited>>

SInit ==
    /\ status = "Running"
    /\ pc = "top"
    /\ steps = 0
    /\ mainLoopMutex = Nobody
    /\ worker = "none"
    /\ running = FALSE
    /\ ports = "none"
    /\ publisher = "none"
    /\ cleaned = FALSE
    /\ handler = [t \in Threads |-> "none"]
    /\ signalState = FALSE
    /\ interrupts = 0
    /\ signals = 0
    /\ exited = "no"

\* A thread goes on with its own work when no signal handler is on top of it.
Runs(t) == exited = "no" /\ handler[t] = "none"

WorkerAlive == worker \notin {"none", "ended"}

signalvars == <<handler, interrupts, signals>>
servicevars == <<steps, worker, running, ports, publisher, cleaned, signalState>>
-----------------------------------------------------------------------------
(* exec *)

LoopTop ==
    /\ Runs(Main)
    /\ pc = "top"
    /\ pc' = IF status = "Running" THEN "init" ELSE "cleanup"
    /\ UNCHANGED <<status, mainLoopMutex, exited, servicevars, signalvars>>

\* startService starts the scheduler, then opens the publisher, the API port
\* and the event subscriptions.  When one fails the attempt is repeated, and
\* replaces the objects of the last one: the first to fail leaves the later
\* ones as they are.
StartPorts(opened) ==
    /\ worker' = IF worker = "none" THEN "idle" ELSE worker
    /\ running' = TRUE
    /\ publisher' = "open"
    /\ ports' = CASE opened = "publisher failed" -> ports
                  [] opened = "port failed" -> "none"
                  [] OTHER -> "open"

StepDone ==
    /\ steps' = steps + 1
    /\ signalState' = (signalState \/ steps' = initSignals)
    /\ IF steps' = startService
       THEN StartPorts("all open")
       ELSE UNCHANGED <<worker, running, publisher, ports>>
    /\ UNCHANGED <<status, pc>>

\* A failing step ends the attempt; wrong arguments end the service.
StepFailed ==
    /\ steps + 1 \in {initArgs, preInit, startService, postInit}
    /\ pc' = "sleep"
    /\ status' = IF steps + 1 = initArgs THEN "Shutdown" ELSE status
    /\ IF steps + 1 = startService
       THEN \E opened \in {"publisher failed", "port failed", "events failed"} :
                StartPorts(opened)
       ELSE UNCHANGED <<worker, running, publisher, ports>>
    /\ UNCHANGED <<steps, signalState>>

\* A defect: the steps are repeated after the last one.
initRepeats ==
    /\ Runs(Main)
    /\ pc = "init"
    /\ StepDone \/ StepFailed
    /\ UNCHANGED <<mainLoopMutex, cleaned, exited, signalvars>>

init ==
    /\ Runs(Main)
    /\ pc = "init"
    /\ steps < postInit
    /\ StepDone \/ StepFailed
    /\ UNCHANGED <<mainLoopMutex, cleaned, exited, signalvars>>

Initialized ==
    /\ Runs(Main)
    /\ \/ pc = "init" /\ steps = postInit /\ pc' = "lock"
       \/ pc = "sleep" /\ pc' = "top"
    /\ UNCHANGED <<status, mainLoopMutex, exited, servicevars, signalvars>>

\* The lock is taken, the status looked at again, and the lock given back by
\* the wait or at the end of the round.
LockLoop ==
    /\ Runs(Main)
    /\ pc \in {"lock", "woken"}
    /\ mainLoopMutex = Nobody
    /\ mainLoopMutex' = Main
    /\ pc' = IF pc = "lock" THEN "check" ELSE "unlock"
    /\ UNCHANGED <<status, exited, servicevars, signalvars>>

\* A defect: the status is not looked at under the lock.
ReleaseLoopUnchecked ==
    /\ Runs(Main)
    /\ pc \in {"check", "unlock"}
    /\ mainLoopMutex' = Nobody
    /\ pc' = IF pc = "check" THEN "wait" ELSE "top"
    /\ UNCHANGED <<status, exited, servicevars, signalvars>>

ReleaseLoop ==
    /\ Runs(Main)
    /\ pc \in {"check", "unlock"}
    /\ mainLoopMutex' = Nobody
    /\ pc' = IF pc = "check" /\ status = "Running" THEN "wait" ELSE "top"
    /\ UNCHANGED <<status, exited, servicevars, signalvars>>

WaitTimeout ==
    /\ Runs(Main)
    /\ pc = "wait"
    /\ pc' = "woken"
    /\ UNCHANGED <<status, mainLoopMutex, exited, servicevars, signalvars>>
-----------------------------------------------------------------------------
(* cleanup, after params->cleanup() *)

\* A defect: the signal handlers' state goes with the ports.
FreePortsAndSignals ==
    /\ Runs(Main)
    /\ pc = "cleanup"
    /\ ports' = "none"
    /\ signalState' = FALSE
    /\ pc' = "stop"
    /\ UNCHANGED <<status, mainLoopMutex, exited, steps, worker, running,
                   publisher, cleaned, signalvars>>

FreePorts ==
    /\ Runs(Main)
    /\ pc = "cleanup"
    /\ ports' = "none"
    /\ pc' = "stop"
    /\ UNCHANGED <<status, mainLoopMutex, exited, steps, worker, running,
                   publisher, cleaned, signalState, signalvars>>

stop ==
    /\ Runs(Main)
    /\ pc = "stop"
    /\ running' = FALSE
    /\ pc' = "join"
    /\ UNCHANGED <<status, mainLoopMutex, exited, steps, worker, ports,
                   publisher, cleaned, signalState, signalvars>>

\* A defect: the threads are not joined.
FreePublisherUnjoined ==
    /\ Runs(Main)
    /\ pc = "join"
    /\ publisher' = "freed"
    /\ pc' = "post"
    /\ UNCHANGED <<status, mainLoopMutex, exited, steps, worker, running, ports,
                   cleaned, signalState, signalvars>>

\* The threads are joined before the publisher is destroyed.
FreePublisher ==
    /\ Runs(Main)
    /\ pc = "join"
    /\ ~WorkerAlive
    /\ publisher' = "freed"
    /\ pc' = "post"
    /\ UNCHANGED <<status, mainLoopMutex, exited, steps, worker, running, ports,
                   cleaned, signalState, signalvars>>

postCleanup ==
    /\ Runs(Main)
    /\ pc = "post"
    /\ cleaned' = TRUE
    /\ pc' = "signals"
    /\ UNCHANGED <<status, mainLoopMutex, exited, steps, worker, running, ports,
                   publisher, signalState, signalvars>>

\* The default handlers are back in place; run returns and the process ends.
cleanupSignals ==
    /\ Runs(Main)
    /\ pc = "signals"
    /\ signalState' = FALSE
    /\ pc' = "done"
    /\ UNCHANGED <<status, mainLoopMutex, exited, steps, worker, running, ports,
                   publisher, cleaned, signalvars>>

Exit ==
    /\ Runs(Main)
    /\ pc = "done"
    /\ exited' = "returned"
    /\ UNCHANGED <<status, pc, mainLoopMutex, servicevars, signalvars>>
-----------------------------------------------------------------------------
(* The scheduler's thread. *)

\* It runs handlers of the ports, and ends once it is told to stop.
Handle ==
    /\ Runs(Worker)
    /\ \/ worker = "idle" /\ running /\ ports = "open" /\ worker' = "handling"
       \/ worker = "handling" /\ worker' = "idle"
       \/ worker = "handling" /\ MayHang /\ worker' = "hung"
    /\ UNCHANGED <<status, pc, mainLoopMutex, exited, steps, running, ports,
                   publisher, cleaned, signalState, signalvars>>

WorkerEnds ==
    /\ Runs(Worker)
    /\ worker = "idle"
    /\ ~running
    /\ worker' = "ended"
    /\ UNCHANGED <<status, pc, mainLoopMutex, exited, steps, running, ports,
                   publisher, cleaned, signalState, signalvars>>
-----------------------------------------------------------------------------
(* Signals. *)

\* Without the handler of the service a signal ends the process.
Signal(t, s) ==
    /\ exited = "no"
    /\ signals < MaxSignals
    /\ handler[t] = "none"
    /\ t = Main \/ WorkerAlive
    /\ signals' = signals + 1
    /\ IF signalState
       THEN handler' = [handler EXCEPT ![t] = s] /\ UNCHANGED exited
       ELSE exited' = "killed" /\ UNCHANGED handler
    /\ UNCHANGED <<status, pc, mainLoopMutex, interrupts, servicevars>>

\* handleSignal: the first interrupt and any other signal ask for the
\* shutdown, the fifth interrupt ends the process there and then.  The
\* counter is not atomic: of two increments at the same time one may be lost.
handleSignal(t) ==
    /\ exited = "no"
    /\ handler[t] \in {"SIGINT", "SIGTERM"}
    /\ IF handler[t] = "SIGINT"
       THEN \/ interrupts' = interrupts + 1
            \/ (\A u \in Threads : handler[u] = "SIGINT") /\ interrupts' = interrupts
       ELSE interrupts' = interrupts
    /\ LET asks == handler[t] = "SIGTERM" \/ interrupts = 0
       IN /\ status' = IF asks THEN "Shutdown" ELSE status
          /\ handler' = [handler EXCEPT ![t] = IF asks THEN "lock" ELSE "none"]
          /\ exited' = IF ~asks /\ interrupts + 1 >= MAX_INTERRUPTS THEN "terminated" ELSE exited
    /\ UNCHANGED <<pc, mainLoopMutex, signals, servicevars>>

\* setStatus, in the handler: after the status is set the mutex is locked.
setStatusLock(t) ==
    /\ exited = "no"
    /\ handler[t] = "lock"
    /\ mainLoopMutex = Nobody
    /\ mainLoopMutex' = t
    /\ handler' = [handler EXCEPT ![t] = "notify"]
    /\ UNCHANGED <<status, pc, exited, interrupts, signals, servicevars>>

setStatusNotify(t) ==
    /\ exited = "no"
    /\ handler[t] = "notify"
    /\ pc' = IF pc = "wait" THEN "woken" ELSE pc
    /\ mainLoopMutex' = Nobody
    /\ handler' = [handler EXCEPT ![t] = "none"]
    /\ UNCHANGED <<status, exited, interrupts, signals, servicevars>>

SignalStep(t) == handleSignal(t) \/ setStatusLock(t) \/ setStatusNotify(t)

MainStep ==
    \/ LoopTop \/ init \/ Initialized \/ LockLoop \/ ReleaseLoop
    \/ FreePorts \/ stop \/ FreePublisher \/ postCleanup \/ cleanupSignals \/ Exit

SNext ==
    \/ MainStep
    \/ WaitTimeout
    \/ Handle
    \/ WorkerEnds
    \/ \E t \in Threads : SignalStep(t)
    \/ \E t \in SignalThreads, s \in {"SIGINT", "SIGTERM"} : Signal(t, s)

SSpec == SInit /\ [][SNext]_svars

\* Both threads run; a handler on the scheduler that can return does.  The
\* time-out of the wait is not needed and not assumed.
SFairness ==
    /\ WF_svars(MainStep)
    /\ WF_svars(Handle /\ worker' = "idle")
    /\ WF_svars(WorkerEnds)
    /\ \A t \in Threads : WF_svars(SignalStep(t))

SFairSpec == SSpec /\ SFairness
-----------------------------------------------------------------------------
STypeOK ==
    /\ status \in {"Running", "Shutdown"}
    /\ pc \in {"top", "init", "sleep", "lock", "check", "wait", "woken", "unlock",
               "cleanup", "stop", "join", "post", "signals", "done"}
    /\ steps \in 0 .. postInit
    /\ mainLoopMutex \in Threads \cup {Nobody}
    /\ worker \in {"none", "idle", "handling", "hung", "ended"}
    /\ running \in BOOLEAN
    /\ ports \in {"none", "open"}
    /\ publisher \in {"none", "open", "freed"}
    /\ cleaned \in BOOLEAN
    /\ handler \in [Threads -> {"none", "SIGINT", "SIGTERM", "lock", "notify"}]
    /\ signalState \in BOOLEAN
    /\ interrupts \in 0 .. MaxSignals
    /\ signals \in 0 .. MaxSignals
    /\ exited \in {"no", "returned", "killed", "terminated"}

\* A signal handler never runs without its state: cleanupSignals destroys
\* signalState when no handler can be in progress on either thread.
HandlerStateAlive ==
    \A t \in Threads : handler[t] # "none" => signalState

\* What the handlers on the scheduler use besides the ports is still there
\* while the scheduler's thread lives: the publisher, and what postCleanup
\* destroys (the curator's integrator and database).
DependenciesOutliveWorker ==
    WorkerAlive => publisher # "freed" /\ ~cleaned

\* No wake-up is lost: while exec waits on mainLoopCondition although a shutdown has
\* been asked for, a signal handler is on its way to the notify in setStatus.
\* The status is set before mainLoopMutex is locked, so it may change after exec
\* has looked at it, but the notify cannot come before the wait.
NoLostWakeup ==
    pc = "wait" /\ status = "Shutdown" =>
        \E t \in Threads : handler[t] \in {"lock", "notify"}

\* The thread waits in its signal handler for the mutex that the code below
\* the handler holds.
SelfDeadlock == handler[Main] = "lock" /\ mainLoopMutex = Main

\* "Shutting down gracefully" (Service.cpp:170): a shutdown that was asked for
\* completes, without the help of the wait's
\* time-out, unless the signal handler has stopped the main thread for good
\* or a handler on the scheduler never returns: no wake-up is lost between
\* setStatus and the main loop, and the cleanup waits for nothing else.
ShutdownOrStuck ==
    (status = "Shutdown") ~> (exited # "no" \/ SelfDeadlock \/ worker = "hung")
=============================================================================
