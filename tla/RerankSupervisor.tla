-------------------------- MODULE RerankSupervisor --------------------------
(***************************************************************************)
(* The supervised reranker backend: a server process the daemon spawns,    *)
(* watches, respawns with backoff and stops, the pid file that lets the    *)
(* next daemon kill what a dead one left behind, and the degraded cause    *)
(* an outage raises.                                                       *)
(*                                                                         *)
(* The daemon may be killed at any point of this.  Processes come, become  *)
(* ready and die on their own, and the system hands a dead one's pid to    *)
(* unrelated programs.  The pid file may fail to be written, read or       *)
(* removed, and `ps` to answer: the supervisor goes on regardless.         *)
(***************************************************************************)
EXTENDS Naturals

CONSTANTS
    Pid,                        \* process ids
    NoPid,                      \* no process, no pid file
    RERANK_CRASHLOOP_ATTEMPTS,  \* respawn attempts that make a crash loop
    MaxAttempts,                \* attempts are told apart up to here
    MaxRuns                     \* bound on the daemon's starts

ASSUME RerankAssumption ==
    /\ NoPid \notin Pid
    /\ RERANK_CRASHLOOP_ATTEMPTS \in Nat \ {0}
    /\ MaxAttempts \in Nat
    /\ RERANK_CRASHLOOP_ATTEMPTS <= MaxAttempts
    /\ MaxRuns \in Nat

VARIABLES
    daemon,    \* how far the daemon is
    proc,      \* what runs under each pid
    pidFile,   \* the pid the orphan-guard file records
    monitor,   \* the supervision task
    state,     \* SupervisorState
    degraded,  \* DegradedCause::RerankCrashloop is set
    missed,    \* history: the servers the orphan guard failed on
    runs       \* starts so far

vars == <<daemon, proc, pidFile, monitor, state, degraded, missed, runs>>

-----------------------------------------------------------------------------
(* Values.                                                                 *)

\* "loading" and "ready": a server of ours, with or without a parent.
\* "zombie": a server of ours that died and was not waited for.
\* "namesake": a program of somebody else's that mentions llama-server on its
\* command line.  "stranger": one that does not.
Proc == {"none", "loading", "ready", "zombie", "stranger", "namesake"}

\* "starting": in RerankSupervisor::start.
Daemon == {"down", "starting", "serving", "stopping"}

\* "spawn", "record", "await": bringing a server up, the first or a next.
\* "term": the child was sent TERM.
MonitorPc == {"none", "spawn", "record", "await", "watch", "backoff", "term"}

\* `attempt`: the attempts of the outage that failed.
Monitor == [pc : MonitorPc, child : Pid \cup {NoPid}, attempt : 0..MaxAttempts]

NoMonitor == [pc |-> "none", child |-> NoPid, attempt |-> 0]

SupervisorState == {"none", "starting", "ready", "restarting"}

Alive(p) == proc[p] \in {"loading", "ready"}

\* p has a parent that will wait for it.
Supervised(p) == monitor.child = p

Init ==
    /\ daemon = "down"
    /\ proc = [p \in Pid |-> "none"]
    /\ pidFile = NoPid
    /\ monitor = NoMonitor
    /\ state = "none"
    /\ degraded = FALSE
    /\ missed = {}
    /\ runs = 0

-----------------------------------------------------------------------------
(* The supervisor's state and its observer.                                *)

\* Mutant: a server that is starting ends the outage.
DegradedUntilStarting(next, attempt) ==
    IF next \in {"ready", "starting"} THEN FALSE
    ELSE degraded \/ (next = "restarting" /\ attempt >= RERANK_CRASHLOOP_ATTEMPTS)

\* rerank_degraded_transition: only a ready server ends the condition.
DegradedAfter(next, attempt) ==
    IF next = "ready" THEN FALSE
    ELSE degraded \/ (next = "restarting" /\ attempt >= RERANK_CRASHLOOP_ATTEMPTS)

\* StateSlot::set, with the attempt a Restarting carries.
SetState(next, attempt) ==
    /\ state' = next
    /\ degraded' = DegradedAfter(next, attempt)

-----------------------------------------------------------------------------
(* Starting and stopping the daemon.                                       *)

\* Mutant: whatever runs under the recorded pid is killed.
KilledByPid(p) == p # NoPid /\ proc[p] # "none"

\* kill_recorded_orphan kills a live process whose command line mentions
\* llama-server: a server of ours, or a namesake.
KilledAsOrphan(p) == p # NoPid /\ (Alive(p) \/ proc[p] = "namesake")

\* remove_pid_file: a file that cannot be removed stays.
RemovePidFile == pidFile' \in {NoPid, pidFile}

\* `looked`: the pid file could be read, and `ps` told what the pid is.  When
\* not, nothing is killed.  The file goes all the same, unless it cannot be
\* read or removed.
Start(looked) ==
    /\ daemon = "down"
    /\ runs < MaxRuns
    /\ runs' = runs + 1
    /\ daemon' = "starting"
    /\ proc' = IF looked /\ KilledAsOrphan(pidFile) THEN [proc EXCEPT ![pidFile] = "none"] ELSE proc
    /\ missed' = IF looked THEN missed ELSE missed \cup {pidFile}
    /\ RemovePidFile
    /\ monitor' = [NoMonitor EXCEPT !.pc = "spawn"]
    /\ UNCHANGED <<state, degraded>>

\* The daemon goes down in the course of it, its state with it.
Down ==
    /\ daemon' = "down"
    /\ monitor' = NoMonitor
    /\ state' = "none"
    /\ degraded' = FALSE

\* supervisor.shutdown at the end of an orderly shutdown.
RequestShutdown ==
    /\ daemon = "serving"
    /\ daemon' = "stopping"
    /\ UNCHANGED <<proc, pidFile, monitor, state, degraded, missed, runs>>

\* A kill leaves the child running and the pid file as it is, truncated when
\* it falls into the write; a dead child is waited for by the system.
Killed ==
    /\ daemon # "down"
    /\ Down
    /\ proc' = [p \in Pid |-> IF proc[p] = "zombie" THEN "none" ELSE proc[p]]
    /\ IF monitor.pc = "record"
       THEN pidFile' \in {pidFile, NoPid} /\ missed' = missed \cup {monitor.child}
       ELSE UNCHANGED <<pidFile, missed>>
    /\ UNCHANGED runs

-----------------------------------------------------------------------------
(* spawn_server and await_ready, for the first server and for later ones.  *)

Goto(pc) == monitor' = [monitor EXCEPT !.pc = pc]

Spawn(p) ==
    /\ monitor.pc = "spawn"
    /\ proc[p] = "none"
    /\ proc' = [proc EXCEPT ![p] = "loading"]
    /\ monitor' = [monitor EXCEPT !.pc = "record", !.child = p]
    /\ missed' = missed \ {p}
    /\ UNCHANGED <<daemon, pidFile, state, degraded, runs>>

\* write_pid_file: a failure is a warning, and leaves the file as it was or
\* truncated.
RecordPid(ok) ==
    /\ monitor.pc = "record"
    /\ pidFile' \in IF ok THEN {monitor.child} ELSE {pidFile, NoPid}
    /\ missed' = IF ok THEN missed ELSE missed \cup {monitor.child}
    /\ Goto("await")
    /\ UNCHANGED <<daemon, proc, state, degraded, runs>>

\* Ready, as the monitor's server.
BecomeReady ==
    /\ monitor.pc = "await"
    /\ proc[monitor.child] = "ready"
    /\ daemon' = IF daemon = "starting" THEN "serving" ELSE daemon
    /\ monitor' = [monitor EXCEPT !.pc = "watch", !.attempt = 0]
    /\ SetState("ready", 0)
    /\ UNCHANGED <<proc, pidFile, missed, runs>>

\* The delay doubles up to its cap, where attempts are no longer told apart.
NextAttempt(n) == IF n < MaxAttempts THEN n + 1 ELSE n

BackOff(attempt) ==
    /\ monitor' = [pc |-> "backoff", child |-> NoPid, attempt |-> attempt]
    /\ SetState("restarting", NextAttempt(attempt))

\* Mutant: after so many attempts it leaves it at that.
GiveUpForGood ==
    /\ IF monitor.attempt < MaxAttempts
       THEN BackOff(NextAttempt(monitor.attempt))
       ELSE monitor' = NoMonitor /\ SetState("restarting", MaxAttempts)
    /\ UNCHANGED daemon

\* There is no last attempt; the next one waits longer.
GiveUp == BackOff(NextAttempt(monitor.attempt)) /\ UNCHANGED daemon

\* The child is stopped and waited for: from here on no failure of the guard
\* is an excuse for it.
Reap ==
    /\ proc' = [proc EXCEPT ![monitor.child] = "none"]
    /\ missed' = missed \ {monitor.child}

\* The process cannot be spawned.
SpawnFails ==
    /\ monitor.pc = "spawn"
    /\ IF daemon = "starting" THEN Down ELSE GiveUp
    /\ UNCHANGED <<proc, pidFile, missed, runs>>

\* It exited, or is not ready in time: it is killed and waited for.  A first
\* server that fails takes its pid file along and refuses the bring-up.
AwaitFails ==
    /\ monitor.pc = "await"
    /\ Reap
    /\ IF daemon = "starting"
       THEN Down /\ RemovePidFile
       ELSE GiveUp /\ UNCHANGED pidFile
    /\ UNCHANGED runs

-----------------------------------------------------------------------------
(* monitor_loop and respawn_until_ready.                                   *)

NoticeExit ==
    /\ monitor.pc = "watch"
    /\ proc[monitor.child] = "zombie"
    /\ Reap
    /\ BackOff(0)
    /\ UNCHANGED <<daemon, pidFile, runs>>

Respawn ==
    /\ monitor.pc = "backoff"
    /\ Goto("spawn")
    /\ SetState("starting", 0)
    /\ UNCHANGED <<daemon, proc, pidFile, missed, runs>>

\* Mutant: the watch over a healthy server does not listen.
MonitorStopsRespawning ==
    /\ daemon = "stopping"
    /\ monitor.pc \in {"await", "backoff"}
    /\ IF monitor.pc = "backoff"
       THEN Down /\ RemovePidFile
       ELSE Goto("term") /\ UNCHANGED <<daemon, pidFile, state, degraded>>
    /\ UNCHANGED <<proc, missed, runs>>

\* The shutdown arm of the three selects.
MonitorStops ==
    /\ daemon = "stopping"
    /\ monitor.pc \in {"watch", "await", "backoff"}
    /\ IF monitor.pc = "backoff"
       THEN Down /\ RemovePidFile
       ELSE Goto("term") /\ UNCHANGED <<daemon, pidFile, state, degraded>>
    /\ UNCHANGED <<proc, missed, runs>>

\* Mutant: a server that ignores TERM is left to itself.
StopChildByTerm ==
    /\ monitor.pc = "term"
    /\ missed' = missed \ {monitor.child}
    /\ Down
    /\ RemovePidFile
    /\ UNCHANGED <<proc, runs>>

\* stop_child: TERM, then KILL; the daemon waits for the monitor.
StopChild ==
    /\ monitor.pc = "term"
    /\ Reap
    /\ Down
    /\ RemovePidFile
    /\ UNCHANGED runs

-----------------------------------------------------------------------------
(* The processes.                                                          *)

Load(p) ==
    /\ proc[p] = "loading"
    /\ proc' = [proc EXCEPT ![p] = "ready"]
    /\ UNCHANGED <<daemon, pidFile, monitor, state, degraded, missed, runs>>

Die(p) ==
    /\ Alive(p)
    /\ proc' = [proc EXCEPT ![p] = IF Supervised(p) THEN "zombie" ELSE "none"]
    /\ UNCHANGED <<daemon, pidFile, monitor, state, degraded, missed, runs>>

Unrelated == {"stranger", "namesake"}

\* An unrelated program gets a free pid, or ends.  One at a time is enough
\* to get in the way, and leaves pids for the servers.
Recycle(p) ==
    /\ \/ proc[p] \in Unrelated /\ proc' = [proc EXCEPT ![p] = "none"]
       \/ /\ proc[p] = "none"
          /\ \A q \in Pid : proc[q] \notin Unrelated
          /\ \E other \in Unrelated : proc' = [proc EXCEPT ![p] = other]
    /\ UNCHANGED <<daemon, pidFile, monitor, state, degraded, missed, runs>>

-----------------------------------------------------------------------------

MonitorStep ==
    \/ \E p \in Pid : Spawn(p)
    \/ \E ok \in BOOLEAN : RecordPid(ok)
    \/ BecomeReady \/ SpawnFails \/ AwaitFails
    \/ NoticeExit \/ Respawn \/ MonitorStops \/ StopChild

Next ==
    \/ \E looked \in BOOLEAN : Start(looked)
    \/ RequestShutdown \/ Killed
    \/ MonitorStep
    \/ \E p \in Pid : Load(p) \/ Die(p) \/ Recycle(p)

Spec == Init /\ [][Next]_vars

(* The supervision task is polled; its deadlines pass.  A select does not  *)
(* overlook a shutdown for ever.                                           *)
Fairness ==
    /\ WF_vars(MonitorStep)
    /\ SF_vars(MonitorStops)

(* What the supervisor can only hope for: that a server respawned again    *)
(* and again is spawned, and loads in time.                                *)
Hope ==
    /\ SF_vars(\E p \in Pid : Spawn(p))
    /\ SF_vars(\E ok \in BOOLEAN : RecordPid(ok) /\ Alive(monitor.child))
    /\ SF_vars(monitor.pc = "await" /\ Load(monitor.child))
    /\ SF_vars(BecomeReady)

FairSpec == Spec /\ Fairness /\ Hope

-----------------------------------------------------------------------------
(* Properties.                                                             *)

TypeOK ==
    /\ daemon \in Daemon
    /\ proc \in [Pid -> Proc]
    /\ pidFile \in Pid \cup {NoPid}
    /\ monitor \in Monitor
    /\ state \in SupervisorState
    /\ degraded \in BOOLEAN
    /\ missed \subseteq Pid \cup {NoPid}
    /\ runs \in 0..MaxRuns

\* A server that runs is the child of the running daemon or, without one, the
\* process the pid file names for the next, over kills, respawns, stops and
\* pids that come back: there is no second one, and an orderly stop leaves
\* none (rerank_supervisor.rs: "Better to kill and respawn a managed process
\* too eagerly than to leave two servers running").  The exceptions are the
\* three places where the guard itself fails: the daemon is killed before the
\* pid is on file, the file cannot be written, or the next start cannot read
\* the file or the command line.  Nothing else loses a server.
ServersAreAccountedFor ==
    \A p \in Pid :
        Alive(p) => \/ p \in missed
                    \/ p = IF monitor.child # NoPid THEN monitor.child ELSE pidFile

\* The daemon is degraded from the third attempt of an outage until a server
\* is ready, through every Starting in between (daemon.rs: "`Starting`
\* oscillates with `Restarting` inside one outage and must not end the
\* condition").
DegradedTracksTheOutage ==
    degraded <=> /\ state \in {"starting", "restarting"}
                 /\ NextAttempt(monitor.attempt) >= RERANK_CRASHLOOP_ATTEMPTS

\* A pid that came to belong to another program is not killed by us, as long
\* as that program does not mention llama-server: the name check is a search
\* in the command line, and takes a namesake for a server of ours.
StrangersAreSpared ==
    [][\A p \in Pid : proc[p] = "stranger" /\ proc'[p] # "stranger"
           => UNCHANGED <<daemon, pidFile>>]_vars

\* A lost server is replaced, unless the daemon goes down.
ServerComesBack == daemon = "serving" /\ state # "ready" ~> (state = "ready" \/ daemon # "serving")

\* A shutdown ends whatever the supervisor is in the middle of.
ShutdownEnds == daemon = "stopping" ~> daemon = "down"
=============================================================================
