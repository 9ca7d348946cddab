----------------------- MODULE WorkerdSidecarProofs -----------------------
(***************************************************************************)
(* Proofs about WorkerdSidecar, for any sets of handlers and processes:    *)
(* the safety properties in every schedule, from IInv; the refinement of   *)
(* SidecarService, from IInv and ServiceInv; and what holds when calls do  *)
(* not overlap, from SerialInv.                                            *)
(***************************************************************************)
EXTENDS WorkerdSidecar, TLAPS

\* Which goroutines there are.
LEMMA ThreadFacts ==
    /\ \A t \in Threads : t \in Deployers \/ t = Boot \/ t = Closer \/ t \in Procs
    /\ Deployers \subseteq Threads /\ Procs \subseteq Threads
    /\ Boot \in Threads /\ Closer \in Threads /\ None \notin Threads
    /\ Deployers \cap Procs = {}
    /\ {Boot, Closer, None} \cap (Deployers \cup Procs) = {}
    /\ Boot # Closer /\ None # Boot /\ None # Closer
  BY ThreadsDistinct DEF Threads

USE ThreadFacts, BoundsAssumption

-----------------------------------------------------------------------------
\* A call that returns leaves its thread idle or finished.
LEMMA ReturnType == ASSUME NEW t \in Threads PROVE Return(t) \in {"idle", "done"}
  BY DEF Return

\* After stopProcess a thread has returned or goes on to startProcess.
LEMMA AfterStopType ==
  ASSUME NEW t \in Threads PROVE AfterStop(t) \in {"idle", "done", "start"}
  BY ReturnType DEF AfterStop

\* Every step keeps the types.
LEMMA TypeStep == TypeOK /\ [Next]_vars => TypeOK'
<1> SUFFICES ASSUME TypeOK, [Next]_vars PROVE TypeOK'
  OBVIOUS
<1> USE ReturnType, AfterStopType
    DEF TypeOK, ProcStates, PCs, Ends, Dead, Goto, envVars, muVars, procVars
<1>1. ASSUME NEW d \in Deployers, Deploy(d) PROVE TypeOK'
  BY <1>1 DEF Deploy
<1>2. CASE SetInternalExecutor
  BY <1>2 DEF SetInternalExecutor
<1>3. ASSUME NEW t \in Threads, FetchOk(t) PROVE TypeOK'
  BY <1>3 DEF FetchOk
<1>4. ASSUME NEW t \in Threads, FetchFail(t) PROVE TypeOK'
  BY <1>4 DEF FetchFail
<1>5. ASSUME NEW t \in Threads, StopLocked(t) PROVE TypeOK'
  BY <1>5 DEF StopLocked
<1>6. ASSUME NEW t \in Threads, SignalTerm(t) PROVE TypeOK'
  BY <1>6 DEF SignalTerm
<1>7. ASSUME NEW t \in Threads, StopTimeout(t) PROVE TypeOK'
  BY <1>7 DEF StopTimeout
<1>8. ASSUME NEW t \in Threads, StopDone(t) PROVE TypeOK'
  BY <1>8 DEF StopDone
<1>9. ASSUME NEW t \in Threads, SpawnFail(t) PROVE TypeOK'
  BY <1>9 DEF SpawnFail
<1>10. ASSUME NEW t \in Threads, NEW p \in Procs, Spawn(t, p) PROVE TypeOK'
  BY <1>10 DEF Spawn, SpawnWith
<1>11. ASSUME NEW t \in Threads, NEW p \in Procs, SpawnNoConn(t, p) PROVE TypeOK'
  BY <1>11 DEF SpawnNoConn, SpawnWith
<1>12. ASSUME NEW t \in Threads, Register(t) PROVE TypeOK'
  BY <1>12 DEF Register, Overtake
<1>13. ASSUME NEW t \in Threads, RegisterRefused(t) PROVE TypeOK'
  BY <1>13 DEF RegisterRefused
<1>14. ASSUME NEW t \in Threads, Reap(t) PROVE TypeOK'
  BY <1>14 DEF Reap
<1>15. ASSUME NEW p \in Procs, Monitor(p) PROVE TypeOK'
  BY <1>15 DEF Monitor, MonitorQuit, MonitorExit, MonitorCheck
<1>16. ASSUME NEW p \in Procs, Crash(p) \/ Exit(p) PROVE TypeOK'
  BY <1>16 DEF Crash, Exit
<1>17. CASE Quiesce
  BY <1>17 DEF Quiesce
<1>18. CASE RunClosers
  BY <1>18 DEF RunClosers
<1>19. CASE Stopped \/ UNCHANGED vars
  BY <1>19 DEF Stopped, vars
<1>20. QED
  BY <1>1, <1>2, <1>3, <1>4, <1>5, <1>6, <1>7, <1>8, <1>9, <1>10, <1>11,
     <1>12, <1>13, <1>14, <1>15, <1>16, <1>17, <1>18, <1>19, Zenon DEF Next, Step

\* Every variable keeps its type (Spec: any interleaving of handlers, boot,
\* monitors, closer and process exits).
THEOREM TypeCorrect == Spec => []TypeOK
<1>1. Init => TypeOK
  BY DEF Init, TypeOK, ProcStates, PCs, Ends
<1>2. QED
  BY <1>1, TypeStep, PTL DEF Spec

-----------------------------------------------------------------------------
(***************************************************************************)
(* The inductive invariant behind the safety properties of Spec.           *)
(***************************************************************************)
\* A process not yet started has no monitor and was never stopped.
UnbornInv ==
    \A p \in Procs : proc[p] = "unborn" => pc[p] = "idle" /\ p \notin cancelled

\* A call that holds mu inside startProcess has a started process that no
\* monitor watches yet; if it is to register it, nobody has signalled it.
StartInv ==
    \A t \in Threads : pc[t] \in {"register", "reap"} =>
        /\ lock = t
        /\ pc[tgt[t]] = "idle"
        /\ proc[tgt[t]] # "unborn"
        /\ pc[t] = "register" =>
            proc[tgt[t]] \in {"up", "crashed"} /\ tgt[t] \notin cancelled

\* stopProcess cancels the monitor before it signals.
StopInv ==
    \A t \in Threads : pc[t] \in {"signal", "term"} =>
        tgt[t] \in cancelled /\ pc[tgt[t]] # "idle" /\ proc[tgt[t]] # "unborn"

CurrentInv == cmd # None => pc[cmd] # "idle" /\ proc[cmd] # "unborn"

\* A signalled process has a cancelled monitor, or never had one.
SignalledInv ==
    \A p \in Procs : proc[p] \in {"int", "term", "kill", "terminated"} =>
        p \in cancelled \/ pc[p] = "idle"

CheckInv == \A p \in Procs : pc[p] = "check" => proc[p] \in Dead

\* A cancelled process that still runs is about to be signalled.
CancelInv ==
    \A p \in Procs : p \in cancelled /\ proc[p] = "up" =>
        \E t \in Threads : tgt[t] = p /\ pc[t] = "signal"

\* The closer runs only while the stopper is quiescing, and once it has taken
\* the current process there is none.
CloserInv ==
    /\ pc[Closer] \in {"idle", "stop", "signal", "term", "done"}
    /\ pc[Closer] # "idle" => phase = "quiescing"
    /\ pc[Closer] \in {"signal", "term", "done"} => cmd = None

IInv ==
    /\ TypeOK
    /\ UnbornInv /\ StartInv /\ StopInv /\ CurrentInv
    /\ SignalledInv /\ CheckInv /\ CancelInv /\ CloserInv
    /\ OnlyCrashedIsRestarted
    /\ UpIsSupervised
    /\ StoppedIsCutOff

\* Every step keeps the states of the processes that calls hold: one step of
\* the proof per action, here and below.
LEMMA HandsStep ==
  ASSUME TypeOK, UnbornInv, StartInv, StopInv, CurrentInv, [Next]_vars
  PROVE  UnbornInv' /\ StartInv' /\ StopInv' /\ CurrentInv'
<1> USE DEF TypeOK, UnbornInv, StartInv, StopInv, CurrentInv, Dead, Goto, Return,
            AfterStop, envVars, muVars, procVars
<1>1. ASSUME NEW d \in Deployers, Deploy(d)
      PROVE  UnbornInv' /\ StartInv' /\ StopInv' /\ CurrentInv'
  BY <1>1 DEF Deploy
<1>2. CASE SetInternalExecutor
  BY <1>2 DEF SetInternalExecutor
<1>3. ASSUME NEW t \in Threads, FetchOk(t)
      PROVE  UnbornInv' /\ StartInv' /\ StopInv' /\ CurrentInv'
  BY <1>3 DEF FetchOk
<1>4. ASSUME NEW t \in Threads, FetchFail(t)
      PROVE  UnbornInv' /\ StartInv' /\ StopInv' /\ CurrentInv'
  BY <1>4 DEF FetchFail
<1>5. ASSUME NEW t \in Threads, StopLocked(t)
      PROVE  UnbornInv' /\ StartInv' /\ StopInv' /\ CurrentInv'
  BY <1>5 DEF StopLocked
<1>6. ASSUME NEW t \in Threads, SignalTerm(t)
      PROVE  UnbornInv' /\ StartInv' /\ StopInv' /\ CurrentInv'
  BY <1>6 DEF SignalTerm
<1>7. ASSUME NEW t \in Threads, StopTimeout(t)
      PROVE  UnbornInv' /\ StartInv' /\ StopInv' /\ CurrentInv'
  BY <1>7 DEF StopTimeout
<1>8. ASSUME NEW t \in Threads, StopDone(t)
      PROVE  UnbornInv' /\ StartInv' /\ StopInv' /\ CurrentInv'
  BY <1>8 DEF StopDone
<1>9. ASSUME NEW t \in Threads, SpawnFail(t)
      PROVE  UnbornInv' /\ StartInv' /\ StopInv' /\ CurrentInv'
  BY <1>9 DEF SpawnFail
<1>10. ASSUME NEW t \in Threads, NEW p \in Procs, Spawn(t, p)
      PROVE  UnbornInv' /\ StartInv' /\ StopInv' /\ CurrentInv'
  BY <1>10 DEF Spawn, SpawnWith
<1>11. ASSUME NEW t \in Threads, NEW p \in Procs, SpawnNoConn(t, p)
      PROVE  UnbornInv' /\ StartInv' /\ StopInv' /\ CurrentInv'
  BY <1>11 DEF SpawnNoConn, SpawnWith
<1>12. ASSUME NEW t \in Threads, Register(t)
      PROVE  UnbornInv' /\ StartInv' /\ StopInv' /\ CurrentInv'
  BY <1>12 DEF Register, Overtake
<1>13. ASSUME NEW t \in Threads, RegisterRefused(t)
      PROVE  UnbornInv' /\ StartInv' /\ StopInv' /\ CurrentInv'
  BY <1>13 DEF RegisterRefused
<1>14. ASSUME NEW t \in Threads, Reap(t)
      PROVE  UnbornInv' /\ StartInv' /\ StopInv' /\ CurrentInv'
  BY <1>14 DEF Reap
<1>15. ASSUME NEW p \in Procs, Monitor(p)
      PROVE  UnbornInv' /\ StartInv' /\ StopInv' /\ CurrentInv'
  BY <1>15 DEF Monitor, MonitorQuit, MonitorExit, MonitorCheck, Intentional
<1>16. ASSUME NEW p \in Procs, Crash(p) \/ Exit(p)
      PROVE  UnbornInv' /\ StartInv' /\ StopInv' /\ CurrentInv'
  BY <1>16 DEF Crash, Exit
<1>17. CASE Quiesce \/ RunClosers
  BY <1>17 DEF Quiesce, RunClosers
<1>18. CASE Stopped \/ UNCHANGED vars
  BY <1>18 DEF Stopped, vars
<1>19. QED
  BY <1>1, <1>2, <1>3, <1>4, <1>5, <1>6, <1>7, <1>8, <1>9, <1>10, <1>11, <1>12, <1>13,
     <1>14, <1>15, <1>16, <1>17, <1>18, ZenonT(60) DEF Next, Step

\* Every step keeps what a monitor knows of its process.
LEMMA MonitorStep ==
  ASSUME TypeOK, UnbornInv, StartInv, StopInv, SignalledInv, CheckInv,
         OnlyCrashedIsRestarted, [Next]_vars
  PROVE  SignalledInv' /\ CheckInv' /\ OnlyCrashedIsRestarted'
<1> USE DEF TypeOK, UnbornInv, StartInv, StopInv, SignalledInv, CheckInv,
            OnlyCrashedIsRestarted, Dead, Goto, Return, AfterStop, envVars, muVars,
            procVars
<1>1. ASSUME NEW d \in Deployers, Deploy(d)
      PROVE  SignalledInv' /\ CheckInv' /\ OnlyCrashedIsRestarted'
  BY <1>1 DEF Deploy
<1>2. CASE SetInternalExecutor
  BY <1>2 DEF SetInternalExecutor
<1>3. ASSUME NEW t \in Threads, FetchOk(t)
      PROVE  SignalledInv' /\ CheckInv' /\ OnlyCrashedIsRestarted'
  BY <1>3 DEF FetchOk
<1>4. ASSUME NEW t \in Threads, FetchFail(t)
      PROVE  SignalledInv' /\ CheckInv' /\ OnlyCrashedIsRestarted'
  BY <1>4 DEF FetchFail
<1>5. ASSUME NEW t \in Threads, StopLocked(t)
      PROVE  SignalledInv' /\ CheckInv' /\ OnlyCrashedIsRestarted'
  BY <1>5 DEF StopLocked
<1>6. ASSUME NEW t \in Threads, SignalTerm(t)
      PROVE  SignalledInv' /\ CheckInv' /\ OnlyCrashedIsRestarted'
  BY <1>6 DEF SignalTerm
<1>7. ASSUME NEW t \in Threads, StopTimeout(t)
      PROVE  SignalledInv' /\ CheckInv' /\ OnlyCrashedIsRestarted'
  BY <1>7 DEF StopTimeout
<1>8. ASSUME NEW t \in Threads, StopDone(t)
      PROVE  SignalledInv' /\ CheckInv' /\ OnlyCrashedIsRestarted'
  BY <1>8 DEF StopDone
<1>9. ASSUME NEW t \in Threads, SpawnFail(t)
      PROVE  SignalledInv' /\ CheckInv' /\ OnlyCrashedIsRestarted'
  BY <1>9 DEF SpawnFail
<1>10. ASSUME NEW t \in Threads, NEW p \in Procs, Spawn(t, p)
      PROVE  SignalledInv' /\ CheckInv' /\ OnlyCrashedIsRestarted'
  BY <1>10 DEF Spawn, SpawnWith
<1>11. ASSUME NEW t \in Threads, NEW p \in Procs, SpawnNoConn(t, p)
      PROVE  SignalledInv' /\ CheckInv' /\ OnlyCrashedIsRestarted'
  BY <1>11 DEF SpawnNoConn, SpawnWith
<1>12. ASSUME NEW t \in Threads, Register(t)
      PROVE  SignalledInv' /\ CheckInv' /\ OnlyCrashedIsRestarted'
  BY <1>12 DEF Register, Overtake
<1>13. ASSUME NEW t \in Threads, RegisterRefused(t)
      PROVE  SignalledInv' /\ CheckInv' /\ OnlyCrashedIsRestarted'
  BY <1>13 DEF RegisterRefused
<1>14. ASSUME NEW t \in Threads, Reap(t)
      PROVE  SignalledInv' /\ CheckInv' /\ OnlyCrashedIsRestarted'
  BY <1>14 DEF Reap
<1>15. ASSUME NEW p \in Procs, Monitor(p)
      PROVE  SignalledInv' /\ CheckInv' /\ OnlyCrashedIsRestarted'
  BY <1>15 DEF Monitor, MonitorQuit, MonitorExit, MonitorCheck, Intentional
<1>16. ASSUME NEW p \in Procs, Crash(p) \/ Exit(p)
      PROVE  SignalledInv' /\ CheckInv' /\ OnlyCrashedIsRestarted'
  BY <1>16 DEF Crash, Exit
<1>17. CASE Quiesce \/ RunClosers
  BY <1>17 DEF Quiesce, RunClosers
<1>18. CASE Stopped \/ UNCHANGED vars
  BY <1>18 DEF Stopped, vars
<1>19. QED
  BY <1>1, <1>2, <1>3, <1>4, <1>5, <1>6, <1>7, <1>8, <1>9, <1>10, <1>11, <1>12, <1>13,
     <1>14, <1>15, <1>16, <1>17, <1>18, ZenonT(60) DEF Next, Step

\* Every step keeps a running process supervised.
LEMMA SupervisedStep ==
  ASSUME TypeOK, UnbornInv, StartInv, CancelInv, UpIsSupervised, [Next]_vars
  PROVE  CancelInv' /\ UpIsSupervised'
<1> USE DEF TypeOK, UnbornInv, StartInv, CancelInv, UpIsSupervised, Dead, Goto, Return,
            AfterStop, envVars, muVars, procVars
<1>1. ASSUME NEW d \in Deployers, Deploy(d) PROVE CancelInv' /\ UpIsSupervised'
  BY <1>1 DEF Deploy
<1>2. CASE SetInternalExecutor
  BY <1>2 DEF SetInternalExecutor
<1>3. ASSUME NEW t \in Threads, FetchOk(t) PROVE CancelInv' /\ UpIsSupervised'
  BY <1>3 DEF FetchOk
<1>4. ASSUME NEW t \in Threads, FetchFail(t) PROVE CancelInv' /\ UpIsSupervised'
  BY <1>4 DEF FetchFail
<1>5. ASSUME NEW t \in Threads, StopLocked(t) PROVE CancelInv' /\ UpIsSupervised'
  BY <1>5 DEF StopLocked
<1>6. ASSUME NEW t \in Threads, SignalTerm(t) PROVE CancelInv' /\ UpIsSupervised'
  BY <1>6 DEF SignalTerm
<1>7. ASSUME NEW t \in Threads, StopTimeout(t) PROVE CancelInv' /\ UpIsSupervised'
  BY <1>7 DEF StopTimeout
<1>8. ASSUME NEW t \in Threads, StopDone(t) PROVE CancelInv' /\ UpIsSupervised'
  BY <1>8 DEF StopDone
<1>9. ASSUME NEW t \in Threads, SpawnFail(t) PROVE CancelInv' /\ UpIsSupervised'
  BY <1>9 DEF SpawnFail
<1>10. ASSUME NEW t \in Threads, NEW p \in Procs, Spawn(t, p) PROVE CancelInv' /\ UpIsSupervised'
  BY <1>10 DEF Spawn, SpawnWith
<1>11. ASSUME NEW t \in Threads, NEW p \in Procs, SpawnNoConn(t, p) PROVE CancelInv' /\ UpIsSupervised'
  BY <1>11 DEF SpawnNoConn, SpawnWith
<1>12. ASSUME NEW t \in Threads, Register(t) PROVE CancelInv' /\ UpIsSupervised'
  BY <1>12 DEF Register, Overtake
<1>13. ASSUME NEW t \in Threads, RegisterRefused(t) PROVE CancelInv' /\ UpIsSupervised'
  BY <1>13 DEF RegisterRefused
<1>14. ASSUME NEW t \in Threads, Reap(t) PROVE CancelInv' /\ UpIsSupervised'
  BY <1>14 DEF Reap
<1>15. ASSUME NEW p \in Procs, Monitor(p) PROVE CancelInv' /\ UpIsSupervised'
  BY <1>15 DEF Monitor, MonitorQuit, MonitorExit, MonitorCheck, Intentional
<1>16. ASSUME NEW p \in Procs, Crash(p) \/ Exit(p) PROVE CancelInv' /\ UpIsSupervised'
  BY <1>16 DEF Crash, Exit
<1>17. CASE Quiesce \/ RunClosers
  BY <1>17 DEF Quiesce, RunClosers
<1>18. CASE Stopped \/ UNCHANGED vars
  BY <1>18 DEF Stopped, vars
<1>19. QED
  BY <1>1, <1>2, <1>3, <1>4, <1>5, <1>6, <1>7, <1>8, <1>9, <1>10, <1>11, <1>12, <1>13,
     <1>14, <1>15, <1>16, <1>17, <1>18, ZenonT(60) DEF Next, Step

\* Every step keeps the closer's state and the connections cut.
LEMMA CutOffStep ==
  ASSUME TypeOK, UnbornInv, StopInv, CloserInv, StoppedIsCutOff, [Next]_vars
  PROVE  CloserInv' /\ StoppedIsCutOff'
<1> USE DEF TypeOK, UnbornInv, StopInv, CloserInv, StoppedIsCutOff, Ends, Dead, Goto,
            Return, AfterStop, envVars, muVars, procVars
<1>1. ASSUME NEW d \in Deployers, Deploy(d) PROVE CloserInv' /\ StoppedIsCutOff'
  BY <1>1 DEF Deploy
<1>2. CASE SetInternalExecutor
  BY <1>2 DEF SetInternalExecutor
<1>3. ASSUME NEW t \in Threads, FetchOk(t) PROVE CloserInv' /\ StoppedIsCutOff'
  BY <1>3 DEF FetchOk
<1>4. ASSUME NEW t \in Threads, FetchFail(t) PROVE CloserInv' /\ StoppedIsCutOff'
  BY <1>4 DEF FetchFail
<1>5. ASSUME NEW t \in Threads, StopLocked(t) PROVE CloserInv' /\ StoppedIsCutOff'
  BY <1>5 DEF StopLocked
<1>6. ASSUME NEW t \in Threads, SignalTerm(t) PROVE CloserInv' /\ StoppedIsCutOff'
  BY <1>6 DEF SignalTerm
<1>7. ASSUME NEW t \in Threads, StopTimeout(t) PROVE CloserInv' /\ StoppedIsCutOff'
  BY <1>7 DEF StopTimeout
<1>8. ASSUME NEW t \in Threads, StopDone(t) PROVE CloserInv' /\ StoppedIsCutOff'
  BY <1>8 DEF StopDone
<1>9. ASSUME NEW t \in Threads, SpawnFail(t) PROVE CloserInv' /\ StoppedIsCutOff'
  BY <1>9 DEF SpawnFail
<1>10. ASSUME NEW t \in Threads, NEW p \in Procs, Spawn(t, p) PROVE CloserInv' /\ StoppedIsCutOff'
  BY <1>10 DEF Spawn, SpawnWith
<1>11. ASSUME NEW t \in Threads, NEW p \in Procs, SpawnNoConn(t, p) PROVE CloserInv' /\ StoppedIsCutOff'
  BY <1>11 DEF SpawnNoConn, SpawnWith
<1>12. ASSUME NEW t \in Threads, Register(t) PROVE CloserInv' /\ StoppedIsCutOff'
  BY <1>12 DEF Register, Overtake
<1>13. ASSUME NEW t \in Threads, RegisterRefused(t) PROVE CloserInv' /\ StoppedIsCutOff'
  BY <1>13 DEF RegisterRefused
<1>14. ASSUME NEW t \in Threads, Reap(t) PROVE CloserInv' /\ StoppedIsCutOff'
  BY <1>14 DEF Reap
<1>15. ASSUME NEW p \in Procs, Monitor(p) PROVE CloserInv' /\ StoppedIsCutOff'
  BY <1>15 DEF Monitor, MonitorQuit, MonitorExit, MonitorCheck, Intentional
<1>16. ASSUME NEW p \in Procs, Crash(p) \/ Exit(p) PROVE CloserInv' /\ StoppedIsCutOff'
  BY <1>16 DEF Crash, Exit
<1>17. CASE Quiesce \/ RunClosers
  BY <1>17 DEF Quiesce, RunClosers
<1>18. CASE Stopped \/ UNCHANGED vars
  BY <1>18 DEF Stopped, vars
<1>19. QED
  BY <1>1, <1>2, <1>3, <1>4, <1>5, <1>6, <1>7, <1>8, <1>9, <1>10, <1>11, <1>12, <1>13,
     <1>14, <1>15, <1>16, <1>17, <1>18, ZenonT(60) DEF Next, Step

\* The inductive invariant is one.
LEMMA IInvStep == IInv /\ [Next]_vars => IInv'
<1> SUFFICES ASSUME IInv, [Next]_vars PROVE IInv'
  OBVIOUS
<1>1. /\ TypeOK /\ UnbornInv /\ StartInv /\ StopInv /\ CurrentInv /\ SignalledInv
      /\ CheckInv /\ CancelInv /\ CloserInv /\ OnlyCrashedIsRestarted
      /\ UpIsSupervised /\ StoppedIsCutOff
  BY DEF IInv
<1>2. QED
  BY <1>1, TypeStep, HandsStep, MonitorStep, SupervisedStep, CutOffStep, Zenon DEF IInv

\* The inductive invariant holds in every reachable state.
LEMMA IInvAlways == Spec => []IInv
<1>1. Init => IInv
  BY DEF Init, IInv, TypeOK, UnbornInv, StartInv, StopInv, CurrentInv, SignalledInv,
     CheckInv, CancelInv, CloserInv, OnlyCrashedIsRestarted, UpIsSupervised,
     StoppedIsCutOff, ProcStates, PCs, Ends
<1>2. QED
  BY <1>1, IInvStep, PTL DEF Spec

\* Only a process that exited by itself is restarted by its monitor, in every
\* interleaving of exits with stopProcess.
THEOREM RestartOnlyAfterCrash == Spec => []OnlyCrashedIsRestarted
<1>1. IInv => OnlyCrashedIsRestarted
  BY DEF IInv
<1>2. QED
  BY <1>1, IInvAlways, PTL

\* No workerd runs unsupervised before shutdown.
THEOREM Supervised == Spec => []UpIsSupervised
<1>1. IInv => UpIsSupervised
  BY DEF IInv
<1>2. QED
  BY <1>1, IInvAlways, PTL

\* A process told to stop, or gone, has no open connection to the actor storage.
THEOREM CutOff == Spec => []StoppedIsCutOff
<1>1. IInv => StoppedIsCutOff
  BY DEF IInv
<1>2. QED
  BY <1>1, IInvAlways, PTL

\* After the closer has run there is never a current process again.
THEOREM ShutdownFinal == Spec => []ShutdownIsFinal
<1>1. IInv => ShutdownIsFinal
  BY DEF IInv, CloserInv, ShutdownIsFinal
<1>2. QED
  BY <1>1, IInvAlways, PTL

-----------------------------------------------------------------------------
(***************************************************************************)
(* The sidecar implements SidecarService.                                  *)
(***************************************************************************)
\* What a call fetched was deployed, and a process is started with definitions
\* that are not empty; mu is held across steps only by startProcess.
ServiceInv ==
    /\ \A t \in Threads : got[t] <= catalog /\ (pc[t] = "start" => got[t] # 0)
    /\ \A p \in Procs : proc[p] # "unborn" => cfg[p] # 0
    /\ lock # None => pc[lock] \in {"register", "reap"}

\* The values that the refinement gives to SidecarService's variables.
SDefs == IF cmd = None THEN 0 ELSE cfg[cmd]
SStarting == IF lock = None THEN 0 ELSE cfg[tgt[lock]]
SServing == {cfg[p] : p \in {q \in Procs : proc[q] \in Alive}}

\* Every step keeps ServiceInv.
LEMMA ServiceInvStep ==
    ASSUME IInv, ServiceInv, [Next]_vars
    PROVE  ServiceInv'
<1>0. TypeOK /\ StartInv /\ StopInv
  BY DEF IInv
<1> USE <1>0 DEF ServiceInv, TypeOK, StartInv, StopInv, Goto, Return, AfterStop, Dead,
     envVars, muVars, procVars
<1>1. ASSUME NEW d \in Deployers, Deploy(d) PROVE ServiceInv'
  BY <1>1 DEF Deploy
<1>2. CASE SetInternalExecutor
  BY <1>2 DEF SetInternalExecutor
<1>3. ASSUME NEW t \in Threads, FetchOk(t) PROVE ServiceInv'
  BY <1>3 DEF FetchOk
<1>4. ASSUME NEW t \in Threads, FetchFail(t) PROVE ServiceInv'
  BY <1>4 DEF FetchFail
<1>5. ASSUME NEW t \in Threads, StopLocked(t) PROVE ServiceInv'
  BY <1>5 DEF StopLocked
<1>6. ASSUME NEW t \in Threads, SignalTerm(t) PROVE ServiceInv'
  BY <1>6 DEF SignalTerm
<1>7. ASSUME NEW t \in Threads, StopTimeout(t) PROVE ServiceInv'
  BY <1>7 DEF StopTimeout
<1>8. ASSUME NEW t \in Threads, StopDone(t) PROVE ServiceInv'
  BY <1>8 DEF StopDone
<1>9. ASSUME NEW t \in Threads, SpawnFail(t) PROVE ServiceInv'
  BY <1>9 DEF SpawnFail
<1>10. ASSUME NEW t \in Threads, NEW p \in Procs, Spawn(t, p) PROVE ServiceInv'
  BY <1>10 DEF Spawn, SpawnWith
<1>11. ASSUME NEW t \in Threads, NEW p \in Procs, SpawnNoConn(t, p) PROVE ServiceInv'
  BY <1>11 DEF SpawnNoConn, SpawnWith
<1>12. ASSUME NEW t \in Threads, Register(t) PROVE ServiceInv'
  BY <1>12 DEF Register, Overtake
<1>13. ASSUME NEW t \in Threads, RegisterRefused(t) PROVE ServiceInv'
  BY <1>13 DEF RegisterRefused
<1>14. ASSUME NEW t \in Threads, Reap(t) PROVE ServiceInv'
  BY <1>14 DEF Reap
<1>15. ASSUME NEW p \in Procs, Monitor(p) PROVE ServiceInv'
  BY <1>15 DEF Monitor, MonitorQuit, MonitorExit, MonitorCheck
<1>16. ASSUME NEW p \in Procs, Crash(p) \/ Exit(p) PROVE ServiceInv'
  BY <1>16 DEF Crash, Exit
<1>17. CASE Quiesce \/ RunClosers \/ Stopped \/ UNCHANGED vars
  BY <1>17 DEF Quiesce, RunClosers, Stopped, vars
<1>18. QED
  BY <1>1, <1>2, <1>3, <1>4, <1>5, <1>6, <1>7, <1>8, <1>9, <1>10, <1>11, <1>12,
     <1>13, <1>14, <1>15, <1>16, <1>17, ZenonT(60) DEF Next, Step

\* A step that neither starts, stops, registers nor ends a process is none of
\* the service's.
LEMMA ServiceSame ==
    ASSUME UNCHANGED <<catalog, lock, cmd, cfg, tgt>>,
           \A p \in Procs : proc'[p] \in Alive <=> proc[p] \in Alive
    PROVE  UNCHANGED Service!vars
<1>1. {q \in Procs : proc'[q] \in Alive} = {q \in Procs : proc[q] \in Alive}
  OBVIOUS
<1>2. QED
  BY <1>1, Zenon DEF Service!vars

\* startProcess starts a process with the definitions the call fetched.
LEMMA ServiceLaunch ==
    ASSUME IInv, ServiceInv, NEW t \in Threads, NEW p \in Procs, NEW s \in {"up", "int"},
           NEW ends, SpawnWith(t, p, s, ends)
    PROVE  Service!Next
<1>0. TypeOK /\ CurrentInv
  BY DEF IInv
<1>1. /\ catalog' = catalog /\ cmd' = cmd
      /\ lock = None /\ lock' = t /\ t # None /\ tgt'[t] = p
      /\ cfg' = [cfg EXCEPT ![p] = got[t]]
  BY <1>0 DEF TypeOK, SpawnWith, envVars
<1>a. cmd # p
  BY <1>0 DEF SpawnWith, CurrentInv
<1>b. got[t] \in 1..catalog /\ got[t] \in 1..MaxDeploys
  BY <1>0 DEF TypeOK, ServiceInv, SpawnWith
<1>2. SStarting = 0 /\ SStarting' = got[t]
  BY <1>0, <1>1 DEF SStarting, TypeOK
<1>3. SDefs' = SDefs
  BY <1>0, <1>1, <1>a DEF SDefs, TypeOK
<1>4. {q \in Procs : proc'[q] \in Alive} = {q \in Procs : proc[q] \in Alive} \cup {p}
  BY <1>0 DEF SpawnWith, TypeOK, Alive
<1>5. p \notin {q \in Procs : proc[q] \in Alive}
  BY DEF SpawnWith, Alive
<1>6. SServing' = SServing \cup {got[t]}
  BY <1>0, <1>1, <1>4, <1>5 DEF SServing, TypeOK
<1>7. PICK v \in 1..MaxDeploys : v = got[t]
  BY <1>b
<1>8. v \in 1..catalog /\ SStarting' = v /\ SServing' = SServing \cup {v}
  BY <1>b, <1>2, <1>6, <1>7
<1>9. Service!Launch(v)
  BY <1>1, <1>2, <1>3, <1>8, Zenon DEF Service!Launch, SStarting, SDefs, SServing
<1>10. QED
  BY <1>9 DEF Service!Next, Service!LocalStep

\* The end of a process is the end of its version if no other one runs it.
LEMMA ServiceEnd ==
    ASSUME IInv, ServiceInv, NEW p \in Procs, Crash(p) \/ Exit(p)
    PROVE  [Service!Next]_(Service!vars)
<1>0. TypeOK
  BY DEF IInv
<1>1. /\ UNCHANGED <<catalog, lock, cmd, cfg, tgt>>
      /\ cfg[p] \in 1..MaxDeploys
  BY <1>0 DEF Crash, Exit, envVars, muVars, TypeOK, ServiceInv
<1>2. /\ {q \in Procs : proc'[q] \in Alive} = {q \in Procs : proc[q] \in Alive} \ {p}
      /\ p \in {q \in Procs : proc[q] \in Alive}
  BY <1>0 DEF Crash, Exit, Alive, TypeOK
<1>3. SDefs' = SDefs /\ SStarting' = SStarting
  BY <1>1 DEF SDefs, SStarting
<1>4. SServing' = SServing \/ SServing' = SServing \ {cfg[p]}
  BY <1>1, <1>2 DEF SServing
<1>5. cfg[p] \in SServing
  BY <1>2 DEF SServing
<1>6. CASE SServing' = SServing
  BY <1>1, <1>3, <1>6, Zenon DEF Service!vars, SDefs, SStarting, SServing
<1>7. CASE SServing' = SServing \ {cfg[p]}
  <2>1. PICK v \in 1..MaxDeploys : v = cfg[p]
    BY <1>1
  <2>2. Service!End(v)
    BY <1>1, <1>3, <1>5, <1>7, <2>1, Zenon DEF Service!End, SDefs, SStarting, SServing
  <2>3. QED
    BY <2>2 DEF Service!Next, Service!LocalStep
<1>8. QED
  BY <1>4, <1>6, <1>7

\* Every step is one of the service, or none.
LEMMA ServiceStep ==
    ASSUME IInv, ServiceInv, [Next]_vars
    PROVE  [Service!Next]_(Service!vars)
<1>0. TypeOK /\ StartInv /\ CurrentInv
  BY DEF IInv
<1>1. ASSUME NEW d \in Deployers, Deploy(d) PROVE [Service!Next]_(Service!vars)
  BY <1>1 DEF Deploy, Service!Next, Service!Deploy, muVars, procVars
<1>2. CASE SetInternalExecutor
  BY <1>2, ServiceSame, Zenon DEF SetInternalExecutor, envVars, muVars, procVars
<1>3. ASSUME NEW t \in Threads, FetchOk(t) \/ FetchFail(t) PROVE UNCHANGED Service!vars
  BY <1>3, ServiceSame, Zenon DEF FetchOk, FetchFail, envVars, muVars, procVars
<1>5. ASSUME NEW t \in Threads, StopLocked(t) PROVE [Service!Next]_(Service!vars)
  <2>1. CASE cmd = None
    BY <1>5, <2>1, ServiceSame, Zenon DEF StopLocked, envVars
  <2>2. CASE cmd # None
    <3>1. /\ lock = None /\ lock' = None /\ cmd' = None /\ catalog' = catalog
          /\ UNCHANGED <<proc, cfg>>
      BY <1>5, <2>2 DEF StopLocked, envVars
    <3>2. cfg[cmd] # 0
      BY <1>0, <2>2 DEF CurrentInv, ServiceInv, TypeOK
    <3>3. Service!Withdraw
      BY <2>2, <3>1, <3>2, Zenon DEF Service!Withdraw
    <3>4. QED
      BY <3>3 DEF Service!Next, Service!LocalStep
  <2>3. QED
    BY <2>1, <2>2
<1>6. ASSUME NEW t \in Threads, SignalTerm(t) \/ StopTimeout(t) \/ RegisterRefused(t)
      PROVE  UNCHANGED Service!vars
  <2>1. UNCHANGED <<catalog, lock, cmd, cfg, tgt>>
    BY <1>6 DEF SignalTerm, StopTimeout, RegisterRefused, envVars, muVars
  <2>2. \A p \in Procs : proc'[p] \in Alive <=> proc[p] \in Alive
    BY <1>0, <1>6 DEF SignalTerm, StopTimeout, RegisterRefused, Alive, TypeOK
  <2>3. QED
    BY <2>1, <2>2, ServiceSame, Zenon
<1>7. ASSUME NEW t \in Threads, StopDone(t) \/ SpawnFail(t) PROVE UNCHANGED Service!vars
  BY <1>7, ServiceSame, Zenon DEF StopDone, SpawnFail, envVars, muVars, procVars
<1>8. ASSUME NEW t \in Threads, NEW p \in Procs, Spawn(t, p) \/ SpawnNoConn(t, p)
      PROVE  Service!Next
  BY <1>8, ServiceLaunch DEF Spawn, SpawnNoConn
<1>9. ASSUME NEW t \in Threads, Register(t) PROVE Service!Next
  <2>1. /\ lock = t /\ t # None /\ lock' = None /\ tgt[t] \in Procs /\ cmd' = tgt[t] /\ tgt[t] # None
        /\ UNCHANGED <<catalog, proc, cfg>>
    BY <1>0, <1>9 DEF Register, StartInv, TypeOK, procVars
  <2>2. cfg[tgt[t]] # 0
    BY <1>0, <1>9, <2>1 DEF StartInv, ServiceInv, Register
  <2>3. Service!Publish
    BY <2>1, <2>2, Zenon DEF Service!Publish
  <2>4. QED
    BY <2>3 DEF Service!Next, Service!LocalStep
<1>10. ASSUME NEW t \in Threads, Reap(t) PROVE Service!Next
  <2>1. /\ lock = t /\ t # None /\ lock' = None /\ tgt[t] \in Procs
        /\ UNCHANGED <<catalog, cmd, proc, cfg>>
    BY <1>0, <1>10 DEF Reap, StartInv, TypeOK, procVars, envVars
  <2>2. cfg[tgt[t]] # 0
    BY <1>0, <1>10, <2>1 DEF StartInv, ServiceInv, Reap
  <2>3. Service!Abandon
    BY <2>1, <2>2, Zenon DEF Service!Abandon
  <2>4. QED
    BY <2>3 DEF Service!Next, Service!LocalStep
<1>11. ASSUME NEW p \in Procs, Monitor(p) PROVE UNCHANGED Service!vars
  BY <1>11, ServiceSame, Zenon
     DEF Monitor, MonitorQuit, MonitorExit, MonitorCheck, envVars, muVars, procVars
<1>12. ASSUME NEW p \in Procs, Crash(p) \/ Exit(p) PROVE [Service!Next]_(Service!vars)
  BY <1>12, ServiceEnd
<1>13. CASE Quiesce \/ RunClosers \/ Stopped \/ UNCHANGED vars
  BY <1>13, ServiceSame, Zenon DEF Quiesce, RunClosers, Stopped, vars, envVars, muVars, procVars
<1>14. QED
  BY <1>1, <1>2, <1>3, <1>5, <1>6, <1>7, <1>8, <1>9, <1>10, <1>11, <1>12, <1>13, ZenonT(60)
     DEF Next, Step

\* Whatever starts, reloads, restarts, exits and stops overlap, every step of the
\* sidecar is one that SidecarService allows, or none of its steps.
THEOREM ImplementsServiceHolds == Spec => ImplementsService
<1>1. Init => ServiceInv /\ Service!Init
  <2> SUFFICES ASSUME Init PROVE ServiceInv /\ Service!Init
    OBVIOUS
  <2>1. ServiceInv
    BY DEF Init, ServiceInv
  <2>2. {q \in Procs : proc[q] \in Alive} = {}
    BY DEF Init, Alive
  <2>3. QED
    BY <2>1, <2>2 DEF Init, Service!Init
<1>2. QED
  BY <1>1, IInvAlways, ServiceInvStep, ServiceStep, PTL DEF Spec, ImplementsService, Service!Spec

-----------------------------------------------------------------------------
(***************************************************************************)
(* Which starts may take workerd back to older definitions.                *)
(***************************************************************************)
\* A call that has fetched, has not registered its process yet and has not been
\* overtaken holds definitions as new as any that were in service.
VersionInv ==
    /\ \A t \in Threads : got[t] <= catalog
    /\ \A p \in Procs : cfg[p] <= catalog
    /\ \A t \in Threads : pc[t] = "register" => cfg[tgt[t]] = got[t]
    /\ \A t \in Threads \ {Closer}, p \in Procs :
        /\ pc[t] \in {"stop", "signal", "term", "start", "register"}
        /\ t \notin overtaken
        /\ HasServed(p)
        => cfg[p] <= got[t]

\* Every step keeps VersionInv.
LEMMA VersionStep ==
  ASSUME TypeOK, UnbornInv, StartInv, CloserInv, VersionInv, [Next]_vars
  PROVE  VersionInv'
<1> USE DEF TypeOK, UnbornInv, StartInv, CloserInv, VersionInv, HasServed, Dead, Goto,
            Return, AfterStop, envVars, muVars, procVars
<1>1. ASSUME NEW d \in Deployers, Deploy(d) PROVE VersionInv'
  BY <1>1 DEF Deploy
<1>2. CASE SetInternalExecutor
  BY <1>2 DEF SetInternalExecutor
<1>3. ASSUME NEW t \in Threads, FetchOk(t) PROVE VersionInv'
  BY <1>3 DEF FetchOk
<1>4. ASSUME NEW t \in Threads, FetchFail(t) PROVE VersionInv'
  BY <1>4 DEF FetchFail
<1>5. ASSUME NEW t \in Threads, StopLocked(t) PROVE VersionInv'
  BY <1>5 DEF StopLocked
<1>6. ASSUME NEW t \in Threads, SignalTerm(t) PROVE VersionInv'
  BY <1>6 DEF SignalTerm
<1>7. ASSUME NEW t \in Threads, StopTimeout(t) PROVE VersionInv'
  BY <1>7 DEF StopTimeout
<1>8. ASSUME NEW t \in Threads, StopDone(t) PROVE VersionInv'
  BY <1>8 DEF StopDone
<1>9. ASSUME NEW t \in Threads, SpawnFail(t) PROVE VersionInv'
  BY <1>9 DEF SpawnFail
<1>10. ASSUME NEW t \in Threads, NEW p \in Procs, Spawn(t, p) PROVE VersionInv'
  BY <1>10 DEF Spawn, SpawnWith
<1>11. ASSUME NEW t \in Threads, NEW p \in Procs, SpawnNoConn(t, p) PROVE VersionInv'
  BY <1>11 DEF SpawnNoConn, SpawnWith
<1>12. ASSUME NEW t \in Threads, Register(t) PROVE VersionInv'
  BY <1>12 DEF Register, Overtake
<1>13. ASSUME NEW t \in Threads, RegisterRefused(t) PROVE VersionInv'
  BY <1>13 DEF RegisterRefused
<1>14. ASSUME NEW t \in Threads, Reap(t) PROVE VersionInv'
  BY <1>14 DEF Reap
<1>15. ASSUME NEW p \in Procs, Monitor(p) PROVE VersionInv'
  BY <1>15 DEF Monitor, MonitorQuit, MonitorExit, MonitorCheck, Intentional
<1>16. ASSUME NEW p \in Procs, Crash(p) \/ Exit(p) PROVE VersionInv'
  BY <1>16 DEF Crash, Exit
<1>17. CASE Quiesce \/ RunClosers
  BY <1>17 DEF Quiesce, RunClosers
<1>18. CASE Stopped \/ UNCHANGED vars
  BY <1>18 DEF Stopped, vars
<1>19. QED
  BY <1>1, <1>2, <1>3, <1>4, <1>5, <1>6, <1>7, <1>8, <1>9, <1>10, <1>11, <1>12, <1>13,
     <1>14, <1>15, <1>16, <1>17, <1>18, ZenonT(60) DEF Next, Step

\* Only a call that another start overtook, between its fetch and its own start,
\* puts older definitions into service, however reloads, restarts and the shutdown
\* overlap.
THEOREM OnlyOvertaken == Spec => []OnlyOvertakenGoBack
<1>1. Init => VersionInv
  BY DEF Init, VersionInv, HasServed
<1>2. IInv /\ VersionInv /\ [Next]_vars => VersionInv'
  BY VersionStep, Zenon DEF IInv
<1>3. IInv /\ VersionInv => OnlyOvertakenGoBack
  BY DEF IInv, TypeOK, CloserInv, VersionInv, OnlyOvertakenGoBack
<1>4. QED
  BY <1>1, <1>2, <1>3, IInvAlways, PTL DEF Spec

-----------------------------------------------------------------------------
(***************************************************************************)
(* The inductive invariant of SerialSpec, on top of IInv.                  *)
(***************************************************************************)
\* A live process is the current one or in the hands of a call.
LiveInv ==
    \A p \in Procs : proc[p] \in Alive =>
        \/ p = cmd
        \/ \E t \in Threads :
              tgt[t] = p /\ pc[t] \in {"signal", "term", "register", "reap"}

\* Until Start has fetched, no handler has got past its fetch.
BootInv ==
    /\ pc[Boot] \in {"init", "fetch", "start", "register", "reap", "done"}
    /\ pc[Boot] \in {"init", "fetch"} => cmd = None
    /\ pc[Boot] = "init" => \A t \in Threads :
        /\ pc[t] \notin {"signal", "term", "start", "register", "reap"}
        /\ t \in Deployers => pc[t] # "stop"

\* A reload, the boot and the closer start a process only when there is none.
StarterInv ==
    \A t \in Deployers \cup {Boot, Closer} :
        pc[t] \in {"signal", "term", "start", "register", "reap"} => cmd = None

\* A monitor that may still restart watches the current process.
RestartInv ==
    \A p \in Procs :
        /\ pc[p] \notin {"stop", "signal", "term"}
        /\ pc[p] \in {"fetch", "start", "register", "reap"} => cmd = p
        /\ pc[p] \in {"watch", "check"} /\ p \notin cancelled => cmd = p

SerialInv ==
    /\ Serial /\ LiveInv /\ BootInv /\ StarterInv /\ RestartInv
    /\ OneWorkerd

SerialIInv == IInv /\ SerialInv

\* Every step that keeps calls from overlapping keeps a live process in known
\* hands, and at most one alive.
LEMMA SerialProcs ==
  ASSUME TypeOK, OnlyCrashedIsRestarted, LiveInv, OneWorkerd, StarterInv, RestartInv,
         Serial', [Next]_vars
  PROVE  LiveInv' /\ OneWorkerd'
<1> USE DEF TypeOK, OnlyCrashedIsRestarted, LiveInv, OneWorkerd, StarterInv, RestartInv,
            Serial, Busy, Alive, Dead, Goto, Return, AfterStop, envVars, muVars,
            procVars
<1>1. ASSUME NEW d \in Deployers, Deploy(d) PROVE LiveInv' /\ OneWorkerd'
  BY <1>1 DEF Deploy
<1>2. CASE SetInternalExecutor
  BY <1>2 DEF SetInternalExecutor
<1>3. ASSUME NEW t \in Threads, FetchOk(t) PROVE LiveInv' /\ OneWorkerd'
  BY <1>3 DEF FetchOk
<1>4. ASSUME NEW t \in Threads, FetchFail(t) PROVE LiveInv' /\ OneWorkerd'
  BY <1>4 DEF FetchFail
<1>5. ASSUME NEW t \in Threads, StopLocked(t) PROVE LiveInv' /\ OneWorkerd'
  BY <1>5 DEF StopLocked
<1>6. ASSUME NEW t \in Threads, SignalTerm(t) PROVE LiveInv' /\ OneWorkerd'
  BY <1>6 DEF SignalTerm
<1>7. ASSUME NEW t \in Threads, StopTimeout(t) PROVE LiveInv' /\ OneWorkerd'
  BY <1>7 DEF StopTimeout
<1>8. ASSUME NEW t \in Threads, StopDone(t) PROVE LiveInv' /\ OneWorkerd'
  BY <1>8 DEF StopDone
<1>9. ASSUME NEW t \in Threads, SpawnFail(t) PROVE LiveInv' /\ OneWorkerd'
  BY <1>9 DEF SpawnFail
<1>10. ASSUME NEW t \in Threads, NEW p \in Procs, Spawn(t, p) PROVE LiveInv' /\ OneWorkerd'
  BY <1>10 DEF Spawn, SpawnWith
<1>11. ASSUME NEW t \in Threads, NEW p \in Procs, SpawnNoConn(t, p) PROVE LiveInv' /\ OneWorkerd'
  BY <1>11 DEF SpawnNoConn, SpawnWith
<1>12. ASSUME NEW t \in Threads, Register(t) PROVE LiveInv' /\ OneWorkerd'
  BY <1>12 DEF Register, Overtake
<1>13. ASSUME NEW t \in Threads, RegisterRefused(t) PROVE LiveInv' /\ OneWorkerd'
  BY <1>13 DEF RegisterRefused
<1>14. ASSUME NEW t \in Threads, Reap(t) PROVE LiveInv' /\ OneWorkerd'
  BY <1>14 DEF Reap
<1>15. ASSUME NEW p \in Procs, Monitor(p) PROVE LiveInv' /\ OneWorkerd'
  BY <1>15 DEF Monitor, MonitorQuit, MonitorExit, MonitorCheck, Intentional
<1>16. ASSUME NEW p \in Procs, Crash(p) \/ Exit(p) PROVE LiveInv' /\ OneWorkerd'
  BY <1>16 DEF Crash, Exit
<1>17. CASE Quiesce \/ RunClosers
  BY <1>17 DEF Quiesce, RunClosers
<1>18. CASE Stopped \/ UNCHANGED vars
  BY <1>18 DEF Stopped, vars
<1>19. QED
  BY <1>1, <1>2, <1>3, <1>4, <1>5, <1>6, <1>7, <1>8, <1>9, <1>10, <1>11, <1>12, <1>13,
     <1>14, <1>15, <1>16, <1>17, <1>18, ZenonT(60) DEF Next, Step

\* It keeps what each call may find in cmd.
LEMMA SerialControl ==
  ASSUME TypeOK, CloserInv, BootInv, StarterInv, RestartInv, Serial, Serial',
         [Next]_vars
  PROVE  BootInv' /\ StarterInv' /\ RestartInv'
<1> USE DEF TypeOK, CloserInv, BootInv, StarterInv, RestartInv, Serial, Busy, Alive,
            Dead, Goto, Return, AfterStop, envVars, muVars, procVars
<1>1. ASSUME NEW d \in Deployers, Deploy(d) PROVE BootInv' /\ StarterInv' /\ RestartInv'
  BY <1>1 DEF Deploy
<1>2. CASE SetInternalExecutor
  BY <1>2 DEF SetInternalExecutor
<1>3. ASSUME NEW t \in Threads, FetchOk(t) PROVE BootInv' /\ StarterInv' /\ RestartInv'
  BY <1>3 DEF FetchOk
<1>4. ASSUME NEW t \in Threads, FetchFail(t) PROVE BootInv' /\ StarterInv' /\ RestartInv'
  BY <1>4 DEF FetchFail
<1>5. ASSUME NEW t \in Threads, StopLocked(t) PROVE BootInv' /\ StarterInv' /\ RestartInv'
  BY <1>5 DEF StopLocked
<1>6. ASSUME NEW t \in Threads, SignalTerm(t) PROVE BootInv' /\ StarterInv' /\ RestartInv'
  BY <1>6 DEF SignalTerm
<1>7. ASSUME NEW t \in Threads, StopTimeout(t) PROVE BootInv' /\ StarterInv' /\ RestartInv'
  BY <1>7 DEF StopTimeout
<1>8. ASSUME NEW t \in Threads, StopDone(t) PROVE BootInv' /\ StarterInv' /\ RestartInv'
  BY <1>8 DEF StopDone
<1>9. ASSUME NEW t \in Threads, SpawnFail(t) PROVE BootInv' /\ StarterInv' /\ RestartInv'
  BY <1>9 DEF SpawnFail
<1>10. ASSUME NEW t \in Threads, NEW p \in Procs, Spawn(t, p) PROVE BootInv' /\ StarterInv' /\ RestartInv'
  BY <1>10 DEF Spawn, SpawnWith
<1>11. ASSUME NEW t \in Threads, NEW p \in Procs, SpawnNoConn(t, p) PROVE BootInv' /\ StarterInv' /\ RestartInv'
  BY <1>11 DEF SpawnNoConn, SpawnWith
<1>12. ASSUME NEW t \in Threads, Register(t) PROVE BootInv' /\ StarterInv' /\ RestartInv'
  BY <1>12 DEF Register, Overtake
<1>13. ASSUME NEW t \in Threads, RegisterRefused(t) PROVE BootInv' /\ StarterInv' /\ RestartInv'
  BY <1>13 DEF RegisterRefused
<1>14. ASSUME NEW t \in Threads, Reap(t) PROVE BootInv' /\ StarterInv' /\ RestartInv'
  BY <1>14 DEF Reap
<1>15. ASSUME NEW p \in Procs, Monitor(p) PROVE BootInv' /\ StarterInv' /\ RestartInv'
  BY <1>15 DEF Monitor, MonitorQuit, MonitorExit, MonitorCheck, Intentional
<1>16. ASSUME NEW p \in Procs, Crash(p) \/ Exit(p) PROVE BootInv' /\ StarterInv' /\ RestartInv'
  BY <1>16 DEF Crash, Exit
<1>17. CASE Quiesce \/ RunClosers
  BY <1>17 DEF Quiesce, RunClosers
<1>18. CASE Stopped \/ UNCHANGED vars
  BY <1>18 DEF Stopped, vars
<1>19. QED
  BY <1>1, <1>2, <1>3, <1>4, <1>5, <1>6, <1>7, <1>8, <1>9, <1>10, <1>11, <1>12, <1>13,
     <1>14, <1>15, <1>16, <1>17, <1>18, ZenonT(60) DEF Next, Step

\* The serial invariant is inductive.
LEMMA SerialStep == SerialIInv /\ [Next /\ Serial']_vars => SerialIInv'
<1> SUFFICES ASSUME IInv, SerialInv, [Next /\ Serial']_vars PROVE IInv' /\ SerialInv'
  BY DEF SerialIInv
<1>1. IInv' /\ Serial' /\ [Next]_vars
  BY IInvStep DEF SerialInv, Serial, Busy, vars
<1>2. TypeOK /\ CurrentInv /\ CloserInv /\ OnlyCrashedIsRestarted
  BY DEF IInv
<1>3. /\ Serial /\ LiveInv /\ BootInv /\ StarterInv /\ RestartInv
      /\ OneWorkerd
  BY DEF SerialInv
<1>4. QED
  BY <1>1, <1>2, <1>3, SerialProcs, SerialControl, Zenon DEF SerialInv

\* The serial invariant holds in every state reached without overlapping calls.
LEMMA SerialAlways == SerialSpec => []SerialIInv
<1>1. Init => SerialIInv
  <2> SUFFICES ASSUME Init PROVE SerialIInv
    OBVIOUS
  <2> USE DEF Init
  <2>1. IInv
    BY DEF IInv, TypeOK, UnbornInv, StartInv, StopInv, CurrentInv, SignalledInv,
       CheckInv, CancelInv, CloserInv, OnlyCrashedIsRestarted, UpIsSupervised,
       StoppedIsCutOff, ProcStates, PCs, Ends
  <2>2. SerialInv
    BY DEF SerialInv, Serial, Busy, LiveInv, BootInv, StarterInv, RestartInv, OneWorkerd,
       Alive
  <2>3. QED
    BY <2>1, <2>2 DEF SerialIInv
<1>2. QED
  BY <1>1, SerialStep, PTL DEF SerialSpec

\* When reloads, restarts and the shutdown do not overlap, there is never more
\* than one live workerd.
THEOREM SerialOneWorkerd == SerialSpec => []OneWorkerd
<1>1. SerialIInv => OneWorkerd
  BY DEF SerialIInv, SerialInv
<1>2. QED
  BY <1>1, SerialAlways, PTL

\* When the calls do not overlap, shutdown leaves no workerd behind.
THEOREM SerialShutdown == SerialSpec => []ShutdownLeavesNoProcess
<1>1. SerialIInv => ShutdownLeavesNoProcess
  BY DEF SerialIInv, SerialInv, LiveInv, IInv, CloserInv, TypeOK, Busy,
     ShutdownLeavesNoProcess
<1>2. QED
  BY <1>1, SerialAlways, PTL

=============================================================================
