--------------------------- MODULE WorkerdSidecar ---------------------------
(***************************************************************************)
(* The supervisor of the workerd child process (pkg/server/                *)
(* workerd_sidecar.go) with the goroutines that drive it: the server's     *)
(* boot sequence (Start), the deploy handlers of the HTTP API              *)
(* (InsertDeploy, then ReloadConfig), one monitor per started process and  *)
(* the closer the server's stopper runs at shutdown (stopProcess).         *)
(*                                                                         *)
(* Abstractions:                                                           *)
(*  - system.worker_versions is the number of deploys committed; the       *)
(*    definitions fetchWorkerDefs returns are that number, since a version *)
(*    row and its assets are written in one transaction and never change;  *)
(*  - mu.running, mu.cancelMon, mu.waitDone and mu.workerDefs are set and  *)
(*    cleared together with mu.cmd, so cmd stands for all of them;         *)
(*  - a monitor is identified with the process it watches;                 *)
(*  - Stopper.Quiesce gives up waiting for tasks after 5000 rounds, so the *)
(*    closers may run at any time after the stopper is quiescing.          *)
(***************************************************************************)
EXTENDS Naturals, FiniteSets

CONSTANTS
    Deployers,   \* handler goroutines of PUT /api/v2/workers/{name}/
    Boot,        \* the goroutine that starts the server
    Closer,      \* the goroutine that stops the stopper
    Procs,       \* workerd processes that may be started
    None,        \* nil: no process, no lock holder
    MaxDeploys,  \* bound on the number of deploys
    DOVersions   \* definitions in which some worker has a Durable Object

Threads == Deployers \cup {Boot, Closer} \cup Procs

ASSUME ThreadsDistinct ==
    /\ Deployers \cap Procs = {}
    /\ {Boot, Closer, None} \cap (Deployers \cup Procs) = {}
    /\ Boot # Closer /\ None # Boot /\ None # Closer

ASSUME BoundsAssumption == MaxDeploys \in Nat /\ DOVersions \subseteq Nat

VARIABLES
    catalog,    \* deploys committed to system.worker_versions
    phase,      \* of the stopper: "running" or "quiescing"
    lock,       \* holder of mu across startProcess, None when free
    cmd,        \* mu.cmd
    proc,       \* life of each process, as the kernel sees it
    cfg,        \* definitions each process was started with
    cancelled,  \* processes whose monitor's context is cancelled
    open,       \* parent ends still open: <<process, "rpc" or "sql">>
    pc,         \* where each thread is
    got,        \* definitions each thread fetched
    tgt,        \* process each thread is starting or stopping
    overtaken   \* history: threads that fetched before another thread registered

vars == <<catalog, phase, lock, cmd, proc, cfg, cancelled, open, pc, got, tgt, overtaken>>

muVars == <<lock, cmd>>
procVars == <<proc, cfg, cancelled, open>>
envVars == <<catalog, phase, overtaken>>

ProcStates == {"unborn", "up", "int", "term", "kill", "crashed", "terminated"}
Alive == {"up", "int", "term", "kill"}
Dead == {"crashed", "terminated"}

PCs == {"init", "idle", "watch", "check", "fetch", "stop", "signal", "term",
        "start", "register", "reap", "done"}

Ends == {"rpc", "sql"}

Init ==
    /\ catalog \in 0..MaxDeploys
    /\ phase = "running"
    /\ lock = None
    /\ cmd = None
    /\ proc = [p \in Procs |-> "unborn"]
    /\ cfg = [p \in Procs |-> 0]
    /\ cancelled = {}
    /\ open = {}
    /\ pc = [t \in Threads |-> IF t = Boot THEN "init" ELSE "idle"]
    /\ got = [t \in Threads |-> 0]
    /\ tgt = [t \in Threads |-> None]
    /\ overtaken = {}

\* Where a thread is once the sidecar call it made returns.
Return(t) == IF t \in Deployers THEN "idle" ELSE "done"

\* Where a thread is once stopProcess returns: ReloadConfig goes on to
\* startProcess unless there are no workers.
AfterStop(t) == IF t \in Deployers /\ got[t] # 0 THEN "start" ELSE Return(t)

Goto(t, where) == pc' = [pc EXCEPT ![t] = where]

\* Definitions named ...Broken are defective variants of the definition that
\* follows them. The specification does not use them; they are there to show
\* that a property does fail when the code is wrong.

\* The insert is retried after an ambiguous commit: two versions.
DeployBroken(d) ==
    /\ pc[d] = "idle"
    /\ catalog < MaxDeploys
    /\ catalog' = catalog + 2
    /\ Goto(d, "fetch")
    /\ UNCHANGED <<phase, overtaken, muVars, procVars, got, tgt>>

\* InsertDeploy commits and deployWorker calls ReloadConfig. An InsertDeploy
\* that fails changes nothing.
Deploy(d) ==
    /\ pc[d] = "idle"
    /\ catalog < MaxDeploys
    /\ catalog' = catalog + 1
    /\ Goto(d, "fetch")
    /\ UNCHANGED <<phase, overtaken, muVars, procVars, got, tgt>>

\* The server sets the internal executor and calls Start.
SetInternalExecutor ==
    /\ pc[Boot] = "init"
    /\ Goto(Boot, "fetch")
    /\ UNCHANGED <<envVars, muVars, procVars, got, tgt>>

\* The join on max(version) is missing: some version, not the latest.
FetchOkBroken(t) ==
    /\ pc[t] = "fetch"
    /\ pc[Boot] # "init"
    /\ t \in Procs => t \notin cancelled
    /\ \E v \in 0..catalog :
        /\ got' = [got EXCEPT ![t] = v]
        /\ Goto(t, IF t \in Deployers THEN "stop"
                   ELSE IF v = 0 THEN Return(t) ELSE "start")
    /\ overtaken' = overtaken \ {t}
    /\ UNCHANGED <<catalog, phase, muVars, procVars, tgt>>

\* Start goes on although no worker is deployed.
FetchOkEmptyBroken(t) ==
    /\ pc[t] = "fetch"
    /\ pc[Boot] # "init"
    /\ t \in Procs => t \notin cancelled
    /\ got' = [got EXCEPT ![t] = catalog]
    /\ Goto(t, IF t \in Deployers THEN "stop" ELSE "start")
    /\ overtaken' = overtaken \ {t}
    /\ UNCHANGED <<catalog, phase, muVars, procVars, tgt>>

\* fetchWorkerDefs succeeds. It needs the internal executor and, in a monitor,
\* a context that is not cancelled.
FetchOk(t) ==
    /\ pc[t] = "fetch"
    /\ pc[Boot] # "init"
    /\ t \in Procs => t \notin cancelled
    /\ got' = [got EXCEPT ![t] = catalog]
    /\ Goto(t, IF t \in Deployers THEN "stop"
               ELSE IF catalog = 0 THEN Return(t) ELSE "start")
    /\ overtaken' = overtaken \ {t}
    /\ UNCHANGED <<catalog, phase, muVars, procVars, tgt>>

\* fetchWorkerDefs fails: every caller gives up.
FetchFail(t) ==
    /\ pc[t] = "fetch"
    /\ Goto(t, Return(t))
    /\ UNCHANGED <<envVars, muVars, procVars, got, tgt>>

-----------------------------------------------------------------------------
\* The storage connection is left open when the process is taken down.
StopLockedBroken(t) ==
    /\ pc[t] = "stop"
    /\ lock = None
    /\ \/ /\ cmd = None
          /\ Goto(t, AfterStop(t))
          /\ UNCHANGED <<cmd, cancelled, open, tgt>>
       \/ /\ cmd # None
          /\ cancelled' = cancelled \cup {cmd}
          /\ open' = open \ {<<cmd, "sql">>}
          /\ tgt' = [tgt EXCEPT ![t] = cmd]
          /\ cmd' = None
          /\ Goto(t, "signal")
    /\ UNCHANGED <<envVars, lock, proc, cfg, got>>

\* stopProcess up to the unlock.
StopLocked(t) ==
    /\ pc[t] = "stop"
    /\ lock = None
    /\ \/ /\ cmd = None
          /\ Goto(t, AfterStop(t))
          /\ UNCHANGED <<cmd, cancelled, open, tgt>>
       \/ /\ cmd # None
          /\ cancelled' = cancelled \cup {cmd}
          /\ open' = open \ ({cmd} \X Ends)
          /\ tgt' = [tgt EXCEPT ![t] = cmd]
          /\ cmd' = None
          /\ Goto(t, "signal")
    /\ UNCHANGED <<envVars, lock, proc, cfg, got>>

\* stopProcess after the unlock: SIGTERM, which a process may take long to obey.
SignalTerm(t) ==
    /\ pc[t] = "signal"
    /\ proc' = [proc EXCEPT ![tgt[t]] = IF @ = "up" THEN "term" ELSE @]
    /\ Goto(t, "term")
    /\ UNCHANGED <<envVars, muVars, cfg, cancelled, open, got, tgt>>

\* No SIGKILL after the timeout.
StopTimeoutBroken(t) == FALSE /\ UNCHANGED vars

\* gracefulStopTimeout passed: SIGKILL.
StopTimeout(t) ==
    /\ pc[t] = "term"
    /\ proc[tgt[t]] = "term"
    /\ proc' = [proc EXCEPT ![tgt[t]] = "kill"]
    /\ UNCHANGED <<envVars, muVars, cfg, cancelled, open, pc, got, tgt>>

\* stopProcess does not wait for the exit.
StopDoneBroken(t) ==
    /\ pc[t] = "term"
    /\ Goto(t, AfterStop(t))
    /\ UNCHANGED <<envVars, muVars, procVars, got, tgt>>

\* waitDone is closed: stopProcess returns.
StopDone(t) ==
    /\ pc[t] = "term"
    /\ proc[tgt[t]] \in Dead
    /\ Goto(t, AfterStop(t))
    /\ UNCHANGED <<envVars, muVars, procVars, got, tgt>>

-----------------------------------------------------------------------------
\* startProcess fails before or in cmd.Start: everything it opened is closed.
SpawnFail(t) ==
    /\ pc[t] = "start"
    /\ lock = None
    /\ Goto(t, Return(t))
    /\ UNCHANGED <<envVars, muVars, procVars, got, tgt>>

\* startProcess holds mu and has started process p with the fetched definitions.
SpawnWith(t, p, state, ends) ==
    /\ pc[t] = "start"
    /\ lock = None
    /\ proc[p] = "unborn"
    /\ lock' = t
    /\ proc' = [proc EXCEPT ![p] = state]
    /\ cfg' = [cfg EXCEPT ![p] = got[t]]
    /\ open' = open \cup ({p} \X ends)
    /\ tgt' = [tgt EXCEPT ![t] = p]
    /\ UNCHANGED <<envVars, cmd, cancelled, got>>

Spawn(t, p) ==
    /\ SpawnWith(t, p, "up", IF got[t] \in DOVersions THEN Ends ELSE {})
    /\ Goto(t, "register")

\* net.FileConn fails on the parent's end of the socketpair: the process is
\* interrupted; its actor SQL server stays open.
SpawnNoConn(t, p) ==
    /\ got[t] \in DOVersions
    /\ SpawnWith(t, p, "int", {"sql"})
    /\ Goto(t, "reap")

\* Threads that are between their fetch and their start when t registers its
\* process are overtaken.
Overtake(t) ==
    overtaken' = (overtaken \ {t})
                 \cup {u \in Threads : pc[u] \in {"stop", "signal", "term", "start"}}

\* The monitor is started with a plain go statement, quiescing or not.
RegisterBroken(t) ==
    /\ pc[t] = "register"
    /\ cmd' = tgt[t]
    /\ lock' = None
    /\ Overtake(t)
    /\ pc' = [pc EXCEPT ![t] = Return(t), ![tgt[t]] = "watch"]
    /\ UNCHANGED <<catalog, phase, procVars, got, tgt>>

\* No monitor is started.
RegisterUnmonitoredBroken(t) ==
    /\ pc[t] = "register"
    /\ phase = "running"
    /\ cmd' = tgt[t]
    /\ lock' = None
    /\ Overtake(t)
    /\ Goto(t, Return(t))
    /\ UNCHANGED <<catalog, phase, procVars, got, tgt>>

\* RunAsyncTask accepts the monitor: the process becomes the current one,
\* whatever mu held before.
Register(t) ==
    /\ pc[t] = "register"
    /\ phase = "running"
    /\ cmd' = tgt[t]
    /\ lock' = None
    /\ Overtake(t)
    /\ pc' = [pc EXCEPT ![t] = Return(t), ![tgt[t]] = "watch"]
    /\ UNCHANGED <<catalog, phase, procVars, got, tgt>>

\* The refused process is not interrupted before it is waited for.
RegisterRefusedBroken(t) ==
    /\ pc[t] = "register"
    /\ phase # "running"
    /\ open' = open \ ({tgt[t]} \X Ends)
    /\ cancelled' = cancelled \cup {tgt[t]}
    /\ Goto(t, "reap")
    /\ UNCHANGED <<envVars, muVars, proc, cfg, got, tgt>>

\* The refused process is neither interrupted nor waited for.
RegisterRefusedLeakBroken(t) ==
    /\ pc[t] = "register"
    /\ phase # "running"
    /\ open' = open \ ({tgt[t]} \X Ends)
    /\ cancelled' = cancelled \cup {tgt[t]}
    /\ lock' = None
    /\ Goto(t, Return(t))
    /\ UNCHANGED <<envVars, cmd, proc, cfg, got, tgt>>

\* RunAsyncTask refuses because the stopper is quiescing.
RegisterRefused(t) ==
    /\ pc[t] = "register"
    /\ phase # "running"
    /\ open' = open \ ({tgt[t]} \X Ends)
    /\ proc' = [proc EXCEPT ![tgt[t]] = IF @ = "up" THEN "int" ELSE @]
    /\ cancelled' = cancelled \cup {tgt[t]}
    /\ Goto(t, "reap")
    /\ UNCHANGED <<envVars, muVars, cfg, got, tgt>>

\* The interrupted process is gone: startProcess unlocks and returns the error.
Reap(t) ==
    /\ pc[t] = "reap"
    /\ proc[tgt[t]] \in Dead
    /\ lock' = None
    /\ Goto(t, Return(t))
    /\ UNCHANGED <<envVars, cmd, procVars, got, tgt>>

-----------------------------------------------------------------------------
Intentional(p) == p \in cancelled \/ phase # "running"

\* monitor returns from its first select: cancelled or quiescing.
MonitorQuit(p) ==
    /\ pc[p] = "watch"
    /\ Intentional(p)
    /\ Goto(p, "done")
    /\ UNCHANGED <<envVars, muVars, procVars, got, tgt>>

\* monitor sees the process exit.
MonitorExit(p) ==
    /\ pc[p] = "watch"
    /\ proc[p] \in Dead
    /\ Goto(p, "check")
    /\ UNCHANGED <<envVars, muVars, procVars, got, tgt>>

\* The second select is missing.
MonitorCheckBroken(p) ==
    /\ pc[p] = "check"
    /\ Goto(p, "fetch")
    /\ UNCHANGED <<envVars, muVars, procVars, got, tgt>>

\* monitor checks whether the stop was intentional.
MonitorCheck(p) ==
    /\ pc[p] = "check"
    /\ Goto(p, IF Intentional(p) THEN "done" ELSE "fetch")
    /\ UNCHANGED <<envVars, muVars, procVars, got, tgt>>

-----------------------------------------------------------------------------
\* A process exits by itself.
Crash(p) ==
    /\ proc[p] = "up"
    /\ proc' = [proc EXCEPT ![p] = "crashed"]
    /\ open' = open \ {<<p, "rpc">>}
    /\ UNCHANGED <<envVars, muVars, cfg, cancelled, pc, got, tgt>>

\* A process exits on a signal.
Exit(p) ==
    /\ proc[p] \in {"int", "term", "kill"}
    /\ proc' = [proc EXCEPT ![p] = "terminated"]
    /\ open' = open \ {<<p, "rpc">>}
    /\ UNCHANGED <<envVars, muVars, cfg, cancelled, pc, got, tgt>>

\* Stopper.Stop closes the quiescer.
Quiesce ==
    /\ phase = "running"
    /\ phase' = "quiescing"
    /\ UNCHANGED <<catalog, overtaken, muVars, procVars, pc, got, tgt>>

\* Stopper.Stop runs the closer the sidecar registered.
RunClosers ==
    /\ phase = "quiescing"
    /\ pc[Closer] = "idle"
    /\ Goto(Closer, "stop")
    /\ UNCHANGED <<envVars, muVars, procVars, got, tgt>>

-----------------------------------------------------------------------------
Step(t) ==
    \/ FetchOk(t) \/ FetchFail(t)
    \/ StopLocked(t) \/ SignalTerm(t) \/ StopTimeout(t) \/ StopDone(t)
    \/ SpawnFail(t) \/ Register(t) \/ RegisterRefused(t) \/ Reap(t)
    \/ \E p \in Procs : Spawn(t, p) \/ SpawnNoConn(t, p)

Monitor(p) == MonitorQuit(p) \/ MonitorExit(p) \/ MonitorCheck(p)

\* A thread inside a call that changes the sidecar.
Busy(t) == pc[t] \in {"fetch", "stop", "signal", "term", "start", "register", "reap"}

\* The server has stopped and no call is left: nothing more happens.
Stopped ==
    /\ pc[Closer] = "done"
    /\ \A t \in Threads : ~Busy(t)
    /\ UNCHANGED vars

Next ==
    \/ \E d \in Deployers : Deploy(d)
    \/ SetInternalExecutor
    \/ \E t \in Threads : Step(t)
    \/ \E p \in Procs : Monitor(p) \/ Crash(p) \/ Exit(p)
    \/ Quiesce
    \/ RunClosers
    \/ Stopped

Spec == Init /\ [][Next]_vars

\* Goroutines are scheduled and Go's mutex does not starve a waiter; a process
\* that is killed, or interrupted, exits; one that got SIGTERM need not.
Fairness ==
    /\ \A t \in Threads : WF_vars(Step(t))
    /\ \A p \in Procs : WF_vars(Monitor(p))
    /\ \A p \in Procs : WF_vars(proc[p] \in {"int", "kill"} /\ Exit(p))
    /\ WF_vars(SetInternalExecutor)
    /\ WF_vars(RunClosers)

FairSpec == Spec /\ Fairness

-----------------------------------------------------------------------------
(***************************************************************************)
(* Properties of every schedule.                                           *)
(***************************************************************************)
\* Every variable has its type; a call that is starting or stopping a process
\* has one.
TypeOK ==
    /\ catalog \in 0..MaxDeploys
    /\ phase \in {"running", "quiescing"}
    /\ lock \in Threads \cup {None}
    /\ cmd \in Procs \cup {None}
    /\ proc \in [Procs -> ProcStates]
    /\ cfg \in [Procs -> 0..MaxDeploys]
    /\ cancelled \subseteq Procs
    /\ open \subseteq Procs \X Ends
    /\ pc \in [Threads -> PCs]
    /\ got \in [Threads -> 0..MaxDeploys]
    /\ tgt \in [Threads -> Procs \cup {None}]
    /\ \A t \in Threads :
        pc[t] \in {"signal", "term", "register", "reap"} => tgt[t] \in Procs
    /\ overtaken \subseteq Threads

\* monitor's second select: a monitor goes on to restart workerd only if its
\* process exited by itself, never because stopProcess or a refused start
\* signalled it, however the exit and the cancellation interleave.
OnlyCrashedIsRestarted ==
    \A p \in Procs :
        pc[p] \in {"fetch", "start", "register", "reap"} => proc[p] = "crashed"

\* Until shutdown, a workerd that has not been signalled is watched by its
\* monitor, or some call is about to register it or to signal it.
UpIsSupervised ==
    phase = "running" =>
        \A p \in Procs : proc[p] = "up" =>
            \/ pc[p] = "watch"
            \/ \E t \in Threads : tgt[t] = p /\ pc[t] \in {"register", "signal"}

\* A workerd that was told to stop, or has exited, has lost its connection to
\* the actor storage: a process that takes its time to obey SIGTERM cannot
\* write Durable Object state beside the one that replaces it.
StoppedIsCutOff ==
    \A p \in Procs : p \in cancelled \/ proc[p] # "up" => <<p, "rpc">> \notin open

\* Once the stopper's closer has run, no reload or restart still in flight can
\* make a process current again: RunAsyncTask refuses its monitor.
ShutdownIsFinal == pc[Closer] = "done" => cmd = None

\* Process p is, or has been, the current one: it has a monitor.
HasServed(p) == pc[p] # "idle"

\* A start takes workerd back to older definitions only if another start came
\* between its fetch and itself: fetchWorkerDefs reads the latest versions, and mu,
\* which is not held from there on, is held from the start to the registration
\* (ReloadConfig, startProcess).
OnlyOvertakenGoBack ==
    \A t \in Threads, p \in Procs :
        pc[t] = "register" /\ t \notin overtaken /\ HasServed(p) => cfg[p] <= cfg[tgt[t]]

\* Whatever overlaps, the sidecar keeps its promise to the rest of the node: no
\* process runs definitions that were not deployed when it started, and
\* WorkerHasDOs answers from the definitions of the process started last, or
\* from none.
Service == INSTANCE SidecarService WITH
    MaxVersion <- MaxDeploys,
    defs <- IF cmd = None THEN 0 ELSE cfg[cmd],
    starting <- IF lock = None THEN 0 ELSE cfg[tgt[lock]],
    serving <- {cfg[p] : p \in {q \in Procs : proc[q] \in Alive}}

ImplementsService == Service!Spec

\* Every sidecar call returns: reloads, restarts and stops cannot block each
\* other on mu, and a stop outlasts a workerd that ignores SIGTERM.
CallsReturn == \A t \in Threads : Busy(t) ~> ~Busy(t)

\* Shutdown completes: a quiescing stopper gets through the sidecar's closer.
ShutdownCompletes == (phase = "quiescing") ~> (pc[Closer] = "done")

-----------------------------------------------------------------------------
(***************************************************************************)
(* mu is released between the fetch, the stop and the start of one reload. *)
(* SerialSpec is the system in which these calls do not overlap; the       *)
(* properties below hold there, and the runs that check them against Spec  *)
(* show which of them the code does not keep.                              *)
(***************************************************************************)
Serial == \A t, u \in Threads : Busy(t) /\ Busy(u) => t = u

SerialSpec == Init /\ [][Next /\ Serial']_vars

\* At most one workerd process is alive: they would share listenPort, and the
\* Durable Objects' storage.
OneWorkerd ==
    \A p, q \in Procs : proc[p] \in Alive /\ proc[q] \in Alive => p = q

\* ReloadConfig restarts workerd with the latest definitions: the current
\* process never runs definitions older than those already served. (A call that
\* is overtaken breaks this.)
NewestIsServed == \A p \in Procs : cmd # None /\ HasServed(p) => cfg[p] <= cfg[cmd]

\* The closer stops workerd at shutdown: once it has run and no call is in
\* flight, no process is left.
ShutdownLeavesNoProcess ==
    pc[Closer] = "done" /\ (\A t \in Threads : ~Busy(t)) =>
        \A p \in Procs : proc[p] \notin Alive

\* IsRunning, which the health endpoint reports: when no call is in flight the
\* process it stands for is alive, or its monitor has yet to act on its exit.
HealthIsTruthful ==
    phase = "running" /\ cmd # None /\ (\A t \in Threads : ~Busy(t)) =>
        proc[cmd] \in Alive \/ pc[cmd] \in {"watch", "check"}

=============================================================================
