--------------------------- MODULE ServiceProofs ---------------------------
(***************************************************************************)
(* The order of cleanup in Service is safe for signal handlers and for     *)
(* what the handlers of the scheduler use, for any number of signals, any  *)
(* threads they are delivered to, and any failures of initialization.  The *)
(* guard of a service's handshake, BruteForce, blocks an address that must *)
(* be blocked, for any set of addresses, any limit and any durations.      *)
(***************************************************************************)
EXTENDS Service, BruteForce, TLAPS

-----------------------------------------------------------------------------
(* The main loop. *)

\* The places of exec after the join of the scheduler's thread.
Joined == {"post", "signals", "done"}

\* Both properties rest on where cleanup is: after the join there is no
\* thread that a handler could run on but the main one, and the main thread
\* does not get on while a handler runs on it.
SInv ==
    /\ handler \in [Threads -> {"none", "SIGINT", "SIGTERM", "lock", "notify"}]
    /\ HandlerStateAlive
    /\ handler[Worker] # "none" => WorkerAlive
    /\ pc \in Joined => ~WorkerAlive
    /\ publisher = "freed" => pc \in Joined
    /\ cleaned => pc \in Joined

\* A service that has just been constructed satisfies the invariant.
LEMMA SInitInv == SInit => SInv
  BY ThreadsAssumption
     DEF SInit, SInv, HandlerStateAlive, WorkerAlive, Joined, Threads

\* Every step of exec, of the scheduler's thread and of a signal keeps it.
LEMMA SStepInv == SInv /\ [SNext]_svars => SInv'
<1> SUFFICES ASSUME SInv, [SNext]_svars PROVE SInv'
    OBVIOUS
<1> USE ThreadsAssumption DEF Threads, SInv, HandlerStateAlive, WorkerAlive, Joined,
        Runs, signalvars, servicevars
<1>1. CASE LoopTop
    BY <1>1 DEF LoopTop
<1>2. CASE init
  <2>1. /\ handler' = handler /\ cleaned' = cleaned /\ pc = "init"
    BY <1>2 DEF init
  <2>2. CASE StepDone
    BY <1>2, <2>1, <2>2 DEF StepDone, StartPorts
  <2>3. CASE StepFailed
    BY <1>2, <2>1, <2>3 DEF StepFailed, StartPorts
  <2> QED
    BY <1>2, <2>2, <2>3 DEF init
<1>3. CASE Initialized
    BY <1>3 DEF Initialized
<1>4. CASE LockLoop
    BY <1>4 DEF LockLoop
<1>5. CASE ReleaseLoop
    BY <1>5 DEF ReleaseLoop
<1>6. CASE WaitTimeout
    BY <1>6 DEF WaitTimeout
<1>7. CASE FreePorts
    BY <1>7 DEF FreePorts
<1>8. CASE stop
    BY <1>8 DEF stop
<1>9. CASE FreePublisher
    BY <1>9 DEF FreePublisher
<1>10. CASE postCleanup
    BY <1>10 DEF postCleanup
<1>11. CASE cleanupSignals
    BY <1>11 DEF cleanupSignals
<1>12. CASE Exit
    BY <1>12 DEF Exit
<1>13. CASE Handle
    BY <1>13 DEF Handle
<1>14. CASE WorkerEnds
    BY <1>14 DEF WorkerEnds
<1>15. ASSUME NEW t \in Threads, SignalStep(t) PROVE SInv'
  <2>1. handler[t] # "none"
    BY <1>15 DEF SignalStep, handleSignal, setStatusLock, setStatusNotify
  <2>2. \E v \in {"none", "lock", "notify"} : handler' = [handler EXCEPT ![t] = v]
    BY <1>15 DEF SignalStep, handleSignal, setStatusLock, setStatusNotify
  <2>3. pc' = pc \/ (pc = "wait" /\ pc' = "woken")
    BY <1>15 DEF SignalStep, handleSignal, setStatusLock, setStatusNotify
  <2>4. UNCHANGED servicevars
    BY <1>15 DEF SignalStep, handleSignal, setStatusLock, setStatusNotify
  <2> QED
    BY <2>1, <2>2, <2>3, <2>4
<1>16. ASSUME NEW t \in Threads, NEW s \in {"SIGINT", "SIGTERM"}, Signal(t, s)
       PROVE  SInv'
    BY <1>16 DEF Signal
<1>17. CASE UNCHANGED svars
    BY <1>17 DEF svars
<1>18. SignalThreads \subseteq Threads
    BY SignalThreadsAssumption
<1> QED
    BY <1>1, <1>2, <1>3, <1>4, <1>5, <1>6, <1>7, <1>8, <1>9, <1>10, <1>11,
       <1>12, <1>13, <1>14, <1>15, <1>16, <1>17, <1>18 DEF SNext, MainStep

\* A signal handler never runs without signalState.
THEOREM HandlerState == SSpec => []HandlerStateAlive
<1>1. SInv => HandlerStateAlive
    BY DEF SInv
<1> QED
    BY SInitInv, SStepInv, <1>1, PTL DEF SSpec

\* The publisher and what postCleanup destroys outlive the scheduler's thread.
THEOREM Dependencies == SSpec => []DependenciesOutliveWorker
<1>1. SInv => DependenciesOutliveWorker
    BY DEF SInv, DependenciesOutliveWorker
<1> QED
    BY SInitInv, SStepInv, <1>1, PTL DEF SSpec


\* The number of interrupts that a handler on t has still to count.
Due(t) == IF handler[t] = "SIGINT" THEN 1 ELSE 0

\* An interrupt is counted at most once: by its handler, after its signal.
STypeInv ==
    /\ STypeOK
    /\ interrupts + Due(Main) + Due(Worker) <= signals

\* Every step keeps the types; a handler counts its interrupt and is done with it.
LEMMA SStepTypes == STypeInv /\ [SNext]_svars => STypeInv'
<1> SUFFICES ASSUME STypeInv, [SNext]_svars PROVE STypeInv'
    OBVIOUS
<1> USE ThreadsAssumption, MaxSignalsAssumption DEF Threads
<1>1. CASE /\ UNCHANGED <<cleaned, signalvars>>
           /\ UNCHANGED <<mainLoopMutex, exited>>
           /\ init
  <2>1. UNCHANGED <<handler, interrupts, signals>>
    BY <1>1 DEF signalvars
  <2>2. CASE StepDone
    <3>1. steps' \in 0 .. postInit /\ status' = status /\ pc' = pc
      <4>1. steps \in 0 .. postInit /\ steps < postInit /\ steps' = steps + 1
        BY <1>1, <2>2 DEF init, StepDone, STypeInv, STypeOK
      <4>2. status' = status /\ pc' = pc
        BY <2>2, Zenon DEF StepDone
      <4> QED BY <4>1, <4>2 DEF postInit
    <3>0. signalState' \in BOOLEAN
      BY <2>2, Zenon DEF StepDone
    <3>2. /\ worker' \in {"none", "idle", "handling", "hung", "ended"}
          /\ running' \in BOOLEAN /\ ports' \in {"none", "open"}
          /\ publisher' \in {"none", "open", "freed"}
      BY <2>2 DEF StepDone, StartPorts, STypeInv, STypeOK
    <3> QED
      BY <1>1, <2>1, <3>0, <3>1, <3>2 DEF STypeInv, STypeOK, Due
  <2>3. CASE StepFailed
    <3>1. /\ steps' = steps /\ signalState' = signalState
          /\ status' \in {"Running", "Shutdown"} /\ pc' = "sleep"
      BY <2>3 DEF StepFailed, STypeInv, STypeOK
    <3>2. /\ worker' \in {"none", "idle", "handling", "hung", "ended"}
          /\ running' \in BOOLEAN /\ ports' \in {"none", "open"}
          /\ publisher' \in {"none", "open", "freed"}
      BY <2>3 DEF StepFailed, StartPorts, STypeInv, STypeOK
    <3> QED
      BY <1>1, <2>1, <3>1, <3>2 DEF STypeInv, STypeOK, Due
  <2> QED
    BY <1>1, <2>2, <2>3 DEF init
<1>2. CASE LoopTop \/ Initialized \/ WaitTimeout \/ Exit
    BY <1>2 DEF LoopTop, Initialized, WaitTimeout, Exit, servicevars, signalvars, STypeInv,
                STypeOK, Due
<1>3. CASE LockLoop \/ ReleaseLoop
    BY <1>3 DEF LockLoop, ReleaseLoop, servicevars, signalvars, STypeInv, STypeOK, Due
<1>4. CASE FreePorts \/ FreePublisher
    BY <1>4 DEF FreePorts, FreePublisher, signalvars, STypeInv, STypeOK, Due
<1>5. CASE stop \/ postCleanup \/ cleanupSignals
  <2>1. /\ pc' \in {"join", "signals", "done"}
        /\ running' = running \/ running' = FALSE
        /\ cleaned' = cleaned \/ cleaned' = TRUE
        /\ signalState' = signalState \/ signalState' = FALSE
        /\ UNCHANGED <<status, mainLoopMutex, exited, steps, worker, ports, publisher>>
        /\ UNCHANGED <<handler, interrupts, signals>>
    BY <1>5 DEF stop, postCleanup, cleanupSignals, signalvars
  <2>2. running' \in BOOLEAN /\ cleaned' \in BOOLEAN /\ signalState' \in BOOLEAN
    BY <2>1, Zenon DEF STypeInv, STypeOK
  <2> QED
    BY <2>1, <2>2 DEF STypeInv, STypeOK, Due
<1>6. CASE Handle \/ WorkerEnds
    BY <1>6 DEF Handle, WorkerEnds, signalvars, STypeInv, STypeOK, Due
<1>7. ASSUME NEW t \in Threads, handleSignal(t) PROVE STypeInv'
  <2>1. UNCHANGED <<pc, mainLoopMutex, signals>> /\ UNCHANGED servicevars
    BY <1>7 DEF handleSignal
  <2>2. /\ status' \in {"Running", "Shutdown"}
        /\ exited' \in {"no", "returned", "killed", "terminated"}
    BY <1>7 DEF handleSignal, STypeInv, STypeOK
  <2>3. PICK v \in {"lock", "none"} : handler' = [handler EXCEPT ![t] = v]
    BY <1>7 DEF handleSignal
  <2>4. interrupts' = interrupts \/ (handler[t] = "SIGINT" /\ interrupts' = interrupts + 1)
    BY <1>7 DEF handleSignal
  <2>5. /\ handler' \in [Threads -> {"none", "SIGINT", "SIGTERM", "lock", "notify"}]
        /\ Due(t)' = 0 /\ \A u \in Threads : u # t => Due(u)' = Due(u)
    BY <2>3 DEF STypeInv, STypeOK, Due
  <2>6. /\ interrupts' \in Nat
        /\ interrupts' + Due(Main)' + Due(Worker)' <= interrupts + Due(Main) + Due(Worker)
    <3>1. interrupts \in Nat
      BY DEF STypeInv, STypeOK
    <3>2. \A u \in Threads : Due(u) \in {0, 1} /\ Due(u)' \in {0, 1}
      BY DEF Due
    <3>3. interrupts' + Due(t)' <= interrupts + Due(t) /\ interrupts' \in Nat
      BY <2>4, <2>5, <3>1 DEF Due
    <3> QED BY <2>5, <3>1, <3>2, <3>3
  <2>7. /\ interrupts' + Due(Main)' + Due(Worker)' <= signals'
        /\ interrupts' \in 0 .. MaxSignals
    <3>1. signals' = signals /\ signals \in 0 .. MaxSignals
          /\ interrupts + Due(Main) + Due(Worker) <= signals /\ interrupts \in Nat
      BY <2>1 DEF STypeInv, STypeOK
    <3>2. /\ Due(Main)' \in {0, 1} /\ Due(Worker)' \in {0, 1}
          /\ Due(Main) \in {0, 1} /\ Due(Worker) \in {0, 1}
      BY DEF Due
    <3> QED BY <2>6, <3>1, <3>2
  <2> QED
    BY <2>1, <2>2, <2>5, <2>7 DEF STypeInv, STypeOK, servicevars
<1>8. ASSUME NEW t \in Threads, setStatusLock(t) \/ setStatusNotify(t) PROVE STypeInv'
    BY <1>8 DEF setStatusLock, setStatusNotify, servicevars, STypeInv, STypeOK, Due
<1>9. ASSUME NEW t \in Threads, NEW s \in {"SIGINT", "SIGTERM"}, Signal(t, s)
      PROVE  STypeInv'
  <2>1. /\ UNCHANGED <<status, pc, mainLoopMutex, interrupts>> /\ UNCHANGED servicevars
        /\ signals' = signals + 1 /\ signals < MaxSignals
    BY <1>9 DEF Signal
  <2>2. exited' \in {"no", "returned", "killed", "terminated"}
    BY <1>9 DEF Signal, STypeInv, STypeOK
  <2>3. handler' = handler \/ (handler[t] = "none" /\ handler' = [handler EXCEPT ![t] = s])
    BY <1>9 DEF Signal
  <2>4. /\ handler' \in [Threads -> {"none", "SIGINT", "SIGTERM", "lock", "notify"}]
        /\ Due(Main)' + Due(Worker)' <= Due(Main) + Due(Worker) + 1
    BY <2>3 DEF STypeInv, STypeOK, Due
  <2>5. interrupts' + Due(Main)' + Due(Worker)' <= signals' /\ signals' \in 0 .. MaxSignals
    BY <2>1, <2>4 DEF STypeInv, STypeOK, Due
  <2> QED
    BY <2>1, <2>2, <2>4, <2>5 DEF STypeInv, STypeOK, servicevars
<1>10. CASE UNCHANGED svars
    BY <1>10 DEF svars, STypeInv, STypeOK, Due
<1>11. init => UNCHANGED <<cleaned, signalvars>> /\ UNCHANGED <<mainLoopMutex, exited>>
    BY DEF init
<1> QED
    BY <1>1, <1>2, <1>3, <1>4, <1>5, <1>6, <1>7, <1>8, <1>9, <1>10, <1>11,
       SignalThreadsAssumption DEF SNext, MainStep, SignalStep

\* The service's variables keep their types; there are never more interrupts
\* counted than signals delivered, although the counter is not atomic.
THEOREM ServiceTypes == SSpec => []STypeOK
<1>1. ASSUME SInit PROVE STypeInv
  <2>1. steps \in 0 .. postInit /\ interrupts \in 0 .. MaxSignals /\ signals \in 0 .. MaxSignals
    BY <1>1, MaxSignalsAssumption DEF SInit, postInit
  <2>2. running \in BOOLEAN /\ cleaned \in BOOLEAN /\ signalState \in BOOLEAN
    BY <1>1, Zenon DEF SInit
  <2>3. interrupts + Due(Main) + Due(Worker) <= signals
    BY <1>1 DEF SInit, Due, Threads
  <2> QED
    BY <1>1, <2>1, <2>2, <2>3 DEF SInit, STypeInv, STypeOK
<1>2. STypeInv => STypeOK
    BY DEF STypeInv
<1> QED
    BY <1>1, <1>2, SStepTypes, PTL DEF SSpec

\* No wake-up is lost between setStatus in a signal handler and the wait of the
\* main loop.
THEOREM WakeupNotLost == SSpec => []NoLostWakeup
<1> USE ThreadsAssumption DEF Threads
<1>1. SInit => NoLostWakeup
    BY DEF SInit, NoLostWakeup
<1>2. ASSUME NoLostWakeup, SInv, SNext PROVE NoLostWakeup'
  <2>1. CASE /\ handler' = handler
             /\ pc' # "wait" \/ (pc' = pc /\ status' = status)
    BY <1>2, <2>1 DEF NoLostWakeup
  <2>2. CASE LoopTop \/ init \/ Initialized \/ LockLoop
    BY <2>1, <2>2 DEF LoopTop, init, Initialized, LockLoop, StepDone, StepFailed, signalvars
  <2>3. CASE ReleaseLoop
    BY <2>3 DEF ReleaseLoop, NoLostWakeup
  <2>4. CASE WaitTimeout \/ FreePorts \/ stop \/ FreePublisher \/ postCleanup
    BY <2>1, <2>4 DEF WaitTimeout, FreePorts, stop, FreePublisher, postCleanup, signalvars
  <2>5. CASE cleanupSignals \/ Exit \/ Handle \/ WorkerEnds
    BY <2>1, <2>5 DEF cleanupSignals, Exit, Handle, WorkerEnds, signalvars
  <2>6. ASSUME NEW t \in Threads, handleSignal(t) PROVE NoLostWakeup'
    BY <1>2, <2>6 DEF handleSignal, NoLostWakeup, SInv
  <2>7. ASSUME NEW t \in Threads, setStatusLock(t) PROVE NoLostWakeup'
    BY <1>2, <2>7 DEF setStatusLock, NoLostWakeup, SInv
  <2>8. ASSUME NEW t \in Threads, setStatusNotify(t) PROVE NoLostWakeup'
    BY <1>2, <2>8 DEF setStatusNotify, NoLostWakeup, SInv
  <2>9. ASSUME NEW t \in Threads, NEW s \in {"SIGINT", "SIGTERM"}, Signal(t, s)
        PROVE  NoLostWakeup'
    BY <1>2, <2>9 DEF Signal, NoLostWakeup, SInv
  <2> QED
    BY <1>2, <2>2, <2>3, <2>4, <2>5, <2>6, <2>7, <2>8, <2>9, SignalThreadsAssumption
       DEF SNext, MainStep, SignalStep
<1>3. NoLostWakeup /\ UNCHANGED svars => NoLostWakeup'
    BY DEF svars, NoLostWakeup
<1>4. NoLostWakeup /\ SInv /\ [SNext]_svars => NoLostWakeup'
    BY <1>2, <1>3
<1> QED
    BY <1>1, <1>4, SInitInv, SStepInv, PTL DEF SSpec

-----------------------------------------------------------------------------
(* The guard of the handshake. *)

\* What the lockout rests on: an address that is not blocked and offended
\* within the lockout has all its strikes counted among its offenses, and
\* nothing was cleaned away.
BInv ==
    /\ BTypeOK
    /\ \A a \in DOMAIN offenders : offenders[a] \in [offenses : Int, age : Int]
    /\ nextCleanup = -1
    /\ \A a \in Addresses : a \notin DOMAIN forgiveness =>
          IF a \in DOMAIN offenders
          THEN offenders[a].offenses >= strikes[a]
          ELSE since[a] > LOCKOUT_SECONDS

\* The invariant holds when the service starts.
LEMMA InitBInv == BInit => BInv
BY DurationsAssumption DEF BInit, BInv, BTypeOK

\* The cleanup of BruteForce.cpp:62-64 returns before it does anything.
LEMMA CleanupIdle ==
    ASSUME nextCleanup = -1
    PROVE  /\ cleanup.forgiveness = forgiveness
           /\ cleanup.offenders = offenders
           /\ cleanup.next = nextCleanup
BY DEF cleanup, Cleaned

\* Time that passes keeps the invariant.
LEMMA TickBInv == BInv /\ Tick => BInv'
<1> SUFFICES ASSUME BInv, Tick PROVE BInv'
  OBVIOUS
<1> USE DurationsAssumption
<1>1. BTypeOK'
  BY DEF BInv, BTypeOK, Tick, Capped
<1>2. \A a \in DOMAIN offenders' : offenders'[a] \in [offenses : Int, age : Int]
  BY DEF BInv, Tick, Capped
<1>3. nextCleanup' = -1
  BY DEF BInv, Tick
<1>4. \A a \in Addresses : a \notin DOMAIN forgiveness' =>
         IF a \in DOMAIN offenders'
         THEN offenders'[a].offenses >= strikes'[a]
         ELSE since'[a] > LOCKOUT_SECONDS
  BY DEF BInv, BTypeOK, Tick, Capped
<1> QED
  BY <1>1, <1>2, <1>3, <1>4 DEF BInv

\* A handshake keeps the invariant: an offense is counted or blocks the
\* address, and any other outcome changes nothing.
LEMMA ProcessBInv == ASSUME BInv, NEW a \in Addresses, process(a) PROVE BInv'
<1> USE DurationsAssumption
<1>1. nextCleanup' = nextCleanup /\ nextCleanup = -1
  BY CleanupIdle DEF BInv, process
<1>2. CASE UNCHANGED <<offenders, forgiveness, strikes, since>>
  BY <1>1, <1>2 DEF BInv, BTypeOK
<1>3. CASE a \notin DOMAIN cleanup.forgiveness /\ addOffense(cleanup, a)
  <2>1. cleanup.forgiveness = forgiveness /\ cleanup.offenders = offenders
    BY <1>1, CleanupIdle
  <2>2. strikes' = [strikes EXCEPT ![a] =
                      IF since[a] <= LOCKOUT_SECONDS THEN Capped(@, MAX_OFFENSES) ELSE 1]
        /\ since' = [since EXCEPT ![a] = 0]
    BY <1>3 DEF addOffense
  <2>3. strikes' \in [Addresses -> 0 .. MAX_OFFENSES] /\ since' \in [Addresses -> 0 .. LOCKOUT_SECONDS + 1]
    BY <2>2 DEF BInv, BTypeOK, Capped
  <2>4. CASE a \in DOMAIN offenders /\ offenders[a].offenses + 1 >= MAX_OFFENSES
    <3>1. /\ forgiveness' = With(forgiveness, a, LOCKOUT_SECONDS)
          /\ offenders' = Without(offenders, a)
      BY <1>3, <2>1, <2>4 DEF addOffense, Block
    <3> QED
      BY <1>1, <2>2, <2>3, <3>1 DEF BInv, BTypeOK, With, Without
  <2>5. CASE ~(a \in DOMAIN offenders /\ offenders[a].offenses + 1 >= MAX_OFFENSES)
    <3>1. /\ forgiveness' = forgiveness
          /\ offenders' = With(offenders, a,
                 [offenses |-> IF a \in DOMAIN offenders THEN offenders[a].offenses + 1 ELSE 1,
                  age |-> 0])
      BY <1>3, <2>1, <2>5 DEF addOffense, Block
    <3>2. a \notin DOMAIN forgiveness
      BY <1>3, <2>1
    <3>3. BTypeOK'
      BY <1>1, <2>3, <2>5, <3>1 DEF BInv, BTypeOK, With
    <3>4. \A b \in DOMAIN offenders' : offenders'[b] \in [offenses : Int, age : Int]
      BY <3>1 DEF BInv, With
    <3>5. offenders'[a].offenses >= strikes'[a] /\ a \in DOMAIN offenders'
      BY <2>2, <3>1, <3>2 DEF BInv, BTypeOK, With, Capped
    <3>6. \A b \in Addresses \ {a} :
             /\ b \in DOMAIN offenders' <=> b \in DOMAIN offenders
             /\ b \in DOMAIN offenders => offenders'[b] = offenders[b]
             /\ strikes'[b] = strikes[b] /\ since'[b] = since[b]
      BY <2>2, <3>1 DEF BInv, BTypeOK, With
    <3> QED
      BY <1>1, <3>1, <3>3, <3>4, <3>5, <3>6 DEF BInv
  <2> QED
    BY <2>4, <2>5
<1>4. cleanup.forgiveness = forgiveness /\ cleanup.offenders = offenders
  BY <1>1, CleanupIdle
<1> QED
  BY <1>2, <1>3, <1>4 DEF process

\* Every step keeps the invariant.
LEMMA NextBInv == BInv /\ [BNext]_bvars => BInv'
<1>1. ASSUME BInv, UNCHANGED bvars PROVE BInv'
  BY <1>1 DEF BInv, BTypeOK, bvars
<1> QED
  BY <1>1, TickBInv, ProcessBInv DEF BNext

\* The strikes of an address never exceed what its offenses show, so the one
\* that reaches the limit finds the count at the limit and blocks.
LEMMA BInvBlocks == BInv => StrikesBlock
BY DurationsAssumption DEF BInv, BTypeOK, StrikesBlock

\* Offense counts stay below the limit and every time within its range
\* (BruteForce.cpp:25-55), for any number of addresses and any limits.
THEOREM BruteForceTypes == BSpec => []BTypeOK
<1>1. BInv => BTypeOK
  BY DEF BInv
<1> QED
  BY <1>1, InitBInv, NextBInv, PTL DEF BSpec

\* An address with MAX_OFFENSES offenses in a row is blocked (BruteForce.cpp:
\* 49-53), for any number of addresses and any limits.
THEOREM LockoutHolds == BSpec => []StrikesBlock
BY InitBInv, NextBInv, BInvBlocks, PTL DEF BSpec

=============================================================================
