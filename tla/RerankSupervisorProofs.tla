----------------------- MODULE RerankSupervisorProofs -----------------------
(***************************************************************************)
(* Theorems about RerankSupervisor for every set of pids, every crash-loop *)
(* threshold and any number of starts.                                     *)
(***************************************************************************)
EXTENDS RerankSupervisor, TLAPS

-----------------------------------------------------------------------------
(* Type correctness.                                                       *)

LEMMA BackOffType ==
    ASSUME NEW attempt \in 0..MaxAttempts, degraded \in BOOLEAN, BackOff(attempt)
    PROVE  monitor' \in Monitor /\ state' \in SupervisorState /\ degraded' \in BOOLEAN
BY DEF BackOff, SetState, DegradedAfter, Monitor, MonitorPc, SupervisorState

LEMMA NextAttemptType ==
    ASSUME NEW n \in 0..MaxAttempts
    PROVE  NextAttempt(n) \in 0..MaxAttempts /\ n <= NextAttempt(n)
BY RerankAssumption DEF NextAttempt

LEMMA GiveUpType ==
    ASSUME TypeOK, GiveUp
    PROVE  monitor' \in Monitor /\ state' \in SupervisorState /\ degraded' \in BOOLEAN
<1>1. NextAttempt(monitor.attempt) \in 0..MaxAttempts
    BY NextAttemptType DEF TypeOK, Monitor
<1> QED
    BY <1>1, BackOffType DEF GiveUp, TypeOK

LEMMA NoMonitorType ==
    /\ 0 \in 0..MaxAttempts
    /\ NoMonitor \in Monitor
    /\ [NoMonitor EXCEPT !.pc = "spawn"] \in Monitor
<1>1. 0 \in 0..MaxAttempts
    BY RerankAssumption
<1> QED
    BY <1>1 DEF NoMonitor, Monitor, MonitorPc

LEMMA DownType ==
    ASSUME Down
    PROVE  /\ daemon' \in Daemon /\ monitor' \in Monitor
           /\ state' \in SupervisorState /\ degraded' \in BOOLEAN
BY NoMonitorType DEF Down, Daemon, SupervisorState

LEMMA GotoType ==
    ASSUME NEW pc \in MonitorPc, monitor \in Monitor, Goto(pc)
    PROVE  monitor' \in Monitor
BY DEF Goto, Monitor

LEMMA SetStateType ==
    ASSUME NEW next \in SupervisorState, NEW attempt \in Nat, degraded \in BOOLEAN,
           SetState(next, attempt)
    PROVE  state' \in SupervisorState /\ degraded' \in BOOLEAN
BY DEF SetState, DegradedAfter

LEMMA ReapType ==
    ASSUME proc \in [Pid -> Proc], missed \subseteq Pid \cup {NoPid}, Reap
    PROVE  proc' \in [Pid -> Proc] /\ missed' \subseteq Pid \cup {NoPid}
BY DEF Reap, Proc

\* The supervisor's own steps keep the types.
LEMMA MonitorStepType ==
    ASSUME TypeOK, MonitorStep
    PROVE  TypeOK'
<1> USE DEF TypeOK
<1>1. ASSUME NEW p \in Pid, Spawn(p) PROVE TypeOK'
    BY <1>1 DEF Spawn, Proc, Monitor, MonitorPc
<1>2. ASSUME NEW ok \in BOOLEAN, RecordPid(ok) PROVE TypeOK'
    BY <1>2, GotoType DEF RecordPid, Monitor, MonitorPc
<1>3. CASE BecomeReady
    <2>1. monitor' \in Monitor
        BY <1>3, NoMonitorType DEF BecomeReady, Monitor, MonitorPc
    <2> QED
        BY <1>3, <2>1, SetStateType DEF BecomeReady, Daemon, SupervisorState
<1>4. CASE SpawnFails
    BY <1>4, DownType, GiveUpType DEF SpawnFails, GiveUp
<1>5. CASE AwaitFails
    BY <1>5, DownType, GiveUpType, ReapType DEF AwaitFails, GiveUp, RemovePidFile
<1>6. CASE NoticeExit
    BY <1>6, BackOffType, NoMonitorType, ReapType DEF NoticeExit
<1>7. CASE Respawn
    BY <1>7, GotoType, SetStateType DEF Respawn, MonitorPc, SupervisorState
<1>8. CASE MonitorStops
    BY <1>8, GotoType, DownType DEF MonitorStops, MonitorPc, RemovePidFile
<1>9. CASE StopChild
    BY <1>9, DownType, ReapType DEF StopChild, RemovePidFile
<1> QED
    BY <1>1, <1>2, <1>3, <1>4, <1>5, <1>6, <1>7, <1>8, <1>9 DEF MonitorStep

LEMMA TypeStep == TypeOK /\ [Next]_vars => TypeOK'
<1> SUFFICES ASSUME TypeOK, [Next]_vars PROVE TypeOK'
    OBVIOUS
<1> USE DEF TypeOK
<1>1. ASSUME NEW looked \in BOOLEAN, Start(looked) PROVE TypeOK'
    <2>1. proc' \in [Pid -> Proc]
        BY <1>1 DEF Start, Proc
    <2>2. runs' \in 0..MaxRuns
        BY <1>1, RerankAssumption DEF Start
    <2> QED
        BY <1>1, <2>1, <2>2, NoMonitorType DEF Start, Daemon, RemovePidFile
<1>2. CASE RequestShutdown
    BY <1>2 DEF RequestShutdown, Daemon
<1>3. CASE Killed
    <2>1. proc' \in [Pid -> Proc]
        BY <1>3 DEF Killed, Proc
    <2>2. pidFile' \in Pid \cup {NoPid}
        BY <1>3 DEF Killed
    <2>3. missed' \subseteq Pid \cup {NoPid}
        BY <1>3 DEF Killed, Monitor
    <2> QED
        BY <1>3, <2>1, <2>2, <2>3, DownType DEF Killed
<1>4. CASE MonitorStep
    BY <1>4, MonitorStepType
<1>5. ASSUME NEW p \in Pid, Load(p) \/ Die(p) \/ Recycle(p) PROVE TypeOK'
    BY <1>5 DEF Load, Die, Recycle, Unrelated, Proc
<1>6. CASE UNCHANGED vars
    BY <1>6 DEF vars
<1> QED
    BY <1>1, <1>2, <1>3, <1>4, <1>5, <1>6 DEF Next

LEMMA TypeInit == Init => TypeOK
<1>1. 0 \in 0..MaxRuns
    BY RerankAssumption
<1>2. NoMonitor \in Monitor
    BY NoMonitorType
<1> QED
    BY <1>1, <1>2 DEF Init, TypeOK, Daemon, Proc, SupervisorState

\* Every variable keeps its type (TypeOK), whatever the server processes, the
\* kills of the daemon and the backoff do.
THEOREM TypeCorrect == Spec => []TypeOK
BY TypeInit, TypeStep, PTL DEF Spec

-----------------------------------------------------------------------------
(* The supervision task and what it may assume.                            *)

\* The task exists while the daemon does; it has a child from the spawn to
\* the end of the wait for it, which is no other program's process; its place
\* in the code says which state it last set.
TaskInv ==
    /\ TypeOK
    /\ daemon = "down" <=> monitor.pc = "none"
    /\ monitor.child # NoPid <=> monitor.pc \in {"record", "await", "watch", "term"}
    /\ monitor.child # NoPid => proc[monitor.child] \in {"loading", "ready", "zombie"}
    /\ monitor.pc = "none" => state = "none" /\ ~degraded
    /\ monitor.pc = "watch" => state = "ready"
    /\ monitor.pc = "backoff" => state = "restarting"

LEMMA TaskInit == Init => TaskInv
BY TypeInit DEF Init, TaskInv, NoMonitor

LEMMA TaskStep == TaskInv /\ [Next]_vars => TaskInv'
<1> SUFFICES ASSUME TaskInv, [Next]_vars PROVE TaskInv'
    OBVIOUS
<1>t. TypeOK /\ TypeOK'
    BY TypeStep DEF TaskInv
<1> USE RerankAssumption DEF TaskInv, Monitor
<1>1. ASSUME NEW looked \in BOOLEAN, Start(looked) PROVE TaskInv'
    BY <1>1, <1>t DEF Start, NoMonitor
<1>2. CASE RequestShutdown
    BY <1>2, <1>t DEF RequestShutdown
<1>3. CASE Killed
    BY <1>3, <1>t DEF Killed, Down, NoMonitor
<1>4. CASE MonitorStep
    <2>1. ASSUME NEW p \in Pid, Spawn(p) PROVE TaskInv'
        BY <2>1, <1>t DEF Spawn, TypeOK
    <2>2. ASSUME NEW ok \in BOOLEAN, RecordPid(ok) PROVE TaskInv'
        BY <2>2, <1>t DEF RecordPid, Goto, TypeOK
    <2>3. CASE BecomeReady
        BY <2>3, <1>t DEF BecomeReady, SetState, TypeOK
    <2>4. CASE SpawnFails
        BY <2>4, <1>t DEF SpawnFails, Down, NoMonitor, GiveUp, BackOff, SetState
    <2>5. CASE AwaitFails
        BY <2>5, <1>t DEF AwaitFails, Reap, Down, NoMonitor, GiveUp, BackOff, SetState
    <2>6. CASE NoticeExit
        BY <2>6, <1>t DEF NoticeExit, BackOff, SetState
    <2>7. CASE Respawn
        BY <2>7, <1>t DEF Respawn, Goto, SetState, TypeOK
    <2>8. CASE MonitorStops
        BY <2>8, <1>t DEF MonitorStops, Goto, Down, NoMonitor, TypeOK
    <2>9. CASE StopChild
        BY <2>9, <1>t DEF StopChild, Down, NoMonitor
    <2> QED
        BY <1>4, <2>1, <2>2, <2>3, <2>4, <2>5, <2>6, <2>7, <2>8, <2>9 DEF MonitorStep
<1>5. ASSUME NEW p \in Pid, Load(p) \/ Die(p) \/ Recycle(p) PROVE TaskInv'
    BY <1>5, <1>t DEF Load, Die, Recycle, Unrelated, TypeOK, Alive, Supervised
<1>6. CASE UNCHANGED vars
    BY <1>6, <1>t DEF vars
<1> QED
    BY <1>1, <1>2, <1>3, <1>4, <1>5, <1>6 DEF Next

LEMMA TaskAlways == Spec => []TaskInv
BY TaskInit, TaskStep, PTL DEF Spec

-----------------------------------------------------------------------------
(* Servers and the pid file.                                               *)

\* Before a spawn and between two every server there is was missed; from the
\* record on the pid file names the child, or it was missed as well.
ServerInv ==
    /\ ServersAreAccountedFor
    /\ monitor.pc \in {"spawn", "backoff"} => \A p \in Pid : Alive(p) => p \in missed
    /\ monitor.pc \in {"await", "watch", "term"} => pidFile = monitor.child \/ monitor.child \in missed

LEMMA ServerStep == TaskInv /\ ServerInv /\ [Next]_vars => ServerInv'
<1> SUFFICES ASSUME TaskInv, ServerInv, [Next]_vars PROVE ServerInv'
    OBVIOUS
<1>t. TypeOK /\ TaskInv'
    BY TaskStep DEF TaskInv
<1> USE RerankAssumption DEF TypeOK, ServerInv, ServersAreAccountedFor, Alive, Monitor
<1>1. ASSUME NEW looked \in BOOLEAN, Start(looked) PROVE ServerInv'
    <2>1. monitor'.pc = "spawn" /\ monitor.child = NoPid
        BY <1>1, <1>t DEF Start, TaskInv, NoMonitor
    <2>2. ASSUME NEW p \in Pid, Alive(p)' PROVE p \in missed'
        BY <1>1, <1>t, <2>1, <2>2 DEF Start, KilledAsOrphan
    <2> QED
        BY <2>1, <2>2
<1>2. CASE RequestShutdown
    BY <1>2, <1>t DEF RequestShutdown
<1>3. CASE Killed
    <2>1. /\ monitor'.child = NoPid /\ monitor'.pc = "none"
          /\ \A p \in Pid : Alive(p)' => Alive(p)
        BY <1>3 DEF Killed, Down, NoMonitor
    <2>2. CASE monitor.pc = "record"
        BY <1>3, <1>t, <2>1, <2>2 DEF Killed, TaskInv
    <2>3. CASE monitor.pc # "record"
        BY <1>3, <1>t, <2>1, <2>3 DEF Killed, TaskInv, MonitorPc
    <2> QED
        BY <2>2, <2>3
<1>4. CASE MonitorStep
    <2>1. ASSUME NEW p \in Pid, Spawn(p) PROVE ServerInv'
        <3>1. monitor'.child = p /\ monitor'.pc = "record"
            BY <2>1 DEF Spawn
        <3>2. \A q \in Pid : Alive(q)' => q = p \/ q \in missed'
            BY <2>1 DEF Spawn
        <3>3. p # NoPid
            OBVIOUS
        <3> QED
            BY <3>1, <3>2, <3>3
    <2>2. ASSUME NEW ok \in BOOLEAN, RecordPid(ok) PROVE ServerInv'
        BY <2>2, <1>t DEF RecordPid, Goto, TaskInv
    <2>3. CASE BecomeReady
        BY <2>3, <1>t DEF BecomeReady
    <2>4. CASE SpawnFails
        BY <2>4, <1>t DEF SpawnFails, Down, NoMonitor, GiveUp, BackOff
    <2>r. ASSUME Reap, monitor.child # NoPid
          PROVE  \A p \in Pid : Alive(p)' => p \in missed'
        BY <2>r, <1>t DEF Reap
    <2>d. ASSUME \A p \in Pid : Alive(p)' => p \in missed', Down \/ (\E n \in 0..MaxAttempts : BackOff(n))
          PROVE  ServerInv'
        BY <2>d DEF Down, NoMonitor, BackOff
    <2>5. CASE AwaitFails
        <3>1. Reap /\ monitor.child # NoPid /\ (Down \/ GiveUp)
            BY <2>5, <1>t DEF AwaitFails, TaskInv
        <3>2. NextAttempt(monitor.attempt) \in 0..MaxAttempts
            BY <1>t, NextAttemptType
        <3> QED
            BY <3>1, <3>2, <2>r, <2>d DEF GiveUp
    <2>6. CASE NoticeExit
        BY <2>6, <1>t, <2>r, <2>d, NoMonitorType DEF NoticeExit, TaskInv
    <2>7. CASE Respawn
        BY <2>7, <1>t DEF Respawn, Goto
    <2>8. CASE MonitorStops
        <3>1. CASE monitor.pc = "backoff"
            BY <2>8, <3>1, <2>d DEF MonitorStops
        <3>2. CASE monitor.pc # "backoff"
            BY <2>8, <3>2, <1>t DEF MonitorStops, Goto
        <3> QED
            BY <3>1, <3>2
    <2>9. CASE StopChild
        BY <2>9, <1>t, <2>r, <2>d DEF StopChild, TaskInv
    <2> QED
        BY <1>4, <2>1, <2>2, <2>3, <2>4, <2>5, <2>6, <2>7, <2>8, <2>9 DEF MonitorStep
<1>5. ASSUME NEW p \in Pid, Load(p) \/ Die(p) \/ Recycle(p) PROVE ServerInv'
    BY <1>5, <1>t DEF Load, Die, Recycle, Unrelated
<1>6. CASE UNCHANGED vars
    BY <1>6 DEF vars
<1> QED
    BY <1>1, <1>2, <1>3, <1>4, <1>5, <1>6 DEF Next

\* A running server is the child of the running daemon or the process the pid
\* file names, unless the orphan guard failed on it (ServersAreAccountedFor):
\* there is never a second one but by a kill before the record, a failed write
\* of it, or a start that could not tell what the recorded pid is.
THEOREM NoServerIsLost == Spec => []ServersAreAccountedFor
<1>1. Init => ServerInv
    BY DEF Init, ServerInv, ServersAreAccountedFor, Alive, NoMonitor
<1>2. TaskInv /\ ServerInv /\ [Next]_vars => ServerInv'
    BY ServerStep
<1>3. ServerInv => ServersAreAccountedFor
    BY DEF ServerInv
<1> QED
    BY <1>1, <1>2, <1>3, TaskAlways, PTL DEF Spec

\* No step but a program's own end takes a pid from a program that is not
\* ours and does not mention llama-server (StrangersAreSpared): kill_recorded_orphan looks at what the pid is
\* now, and the monitor's child is never a stranger.
THEOREM StrangersSurvive == Spec => StrangersAreSpared
<1> DEFINE Spared == \A p \in Pid : proc[p] = "stranger" /\ proc'[p] # "stranger"
                                        => UNCHANGED <<daemon, pidFile>>
<1>1. TaskInv /\ [Next]_vars => [Spared]_vars
    <2> SUFFICES ASSUME TaskInv, Next PROVE Spared
        OBVIOUS
    <2> USE DEF TaskInv, TypeOK
    <2>1. ASSUME NEW looked \in BOOLEAN, Start(looked) PROVE Spared
        BY <2>1 DEF Start, KilledAsOrphan, Alive
    <2>2. CASE RequestShutdown \/ Killed
        BY <2>2 DEF RequestShutdown, Killed
    <2>3. CASE MonitorStep
        BY <2>3 DEF MonitorStep, Spawn, RecordPid, BecomeReady, SpawnFails, AwaitFails,
                    NoticeExit, Respawn, MonitorStops, StopChild, Reap, Monitor
    <2>4. ASSUME NEW p \in Pid, Load(p) \/ Die(p) \/ Recycle(p) PROVE Spared
        BY <2>4 DEF Load, Die, Recycle, Unrelated
    <2> QED
        BY <2>1, <2>2, <2>3, <2>4 DEF Next
<1> QED
    BY <1>1, TaskAlways, PTL DEF Spec, StrangersAreSpared

-----------------------------------------------------------------------------
(* The degraded cause.                                                     *)

LEMMA OutageStep == TaskInv /\ DegradedTracksTheOutage /\ [Next]_vars => DegradedTracksTheOutage'
<1> SUFFICES ASSUME TaskInv, DegradedTracksTheOutage, [Next]_vars
             PROVE  DegradedTracksTheOutage'
    OBVIOUS
<1>n. /\ monitor.attempt \in 0..MaxAttempts
      /\ \A n \in 0..MaxAttempts : NextAttempt(n) \in 0..MaxAttempts /\ n <= NextAttempt(n)
    BY NextAttemptType DEF TaskInv, TypeOK, Monitor
<1> USE RerankAssumption DEF TaskInv, TypeOK, DegradedTracksTheOutage
<1>1. ASSUME NEW looked \in BOOLEAN, Start(looked) PROVE DegradedTracksTheOutage'
    BY <1>1 DEF Start
<1>2. CASE RequestShutdown
    BY <1>2 DEF RequestShutdown
<1>3. ASSUME Down PROVE DegradedTracksTheOutage'
    BY <1>3 DEF Down
<1>4. ASSUME GiveUp PROVE DegradedTracksTheOutage'
    <2> DEFINE next == NextAttempt(monitor.attempt)
    <2>1. /\ monitor'.attempt = next
          /\ state' = "restarting"
          /\ degraded' = (degraded \/ NextAttempt(next) >= RERANK_CRASHLOOP_ATTEMPTS)
        BY <1>4 DEF GiveUp, BackOff, SetState, DegradedAfter
    <2>2. next \in 0..MaxAttempts /\ next <= NextAttempt(next) /\ NextAttempt(next) \in 0..MaxAttempts
        BY <1>n
    <2>3. degraded => NextAttempt(next) >= RERANK_CRASHLOOP_ATTEMPTS
        BY <2>2
    <2> HIDE DEF next
    <2> QED
        BY <2>1, <2>3
<1>5. CASE MonitorStep
    <2>1. ASSUME NEW p \in Pid, Spawn(p) PROVE DegradedTracksTheOutage'
        BY <2>1 DEF Spawn, Monitor
    <2>2. ASSUME NEW ok \in BOOLEAN, RecordPid(ok) PROVE DegradedTracksTheOutage'
        BY <2>2 DEF RecordPid, Goto, Monitor
    <2>3. CASE BecomeReady
        BY <2>3 DEF BecomeReady, SetState, DegradedAfter
    <2>4. CASE SpawnFails
        BY <2>4, <1>3, <1>4 DEF SpawnFails
    <2>5. CASE AwaitFails
        BY <2>5, <1>3, <1>4 DEF AwaitFails
    <2>6. CASE NoticeExit
        BY <2>6, <1>n DEF NoticeExit, BackOff, SetState, DegradedAfter
    <2>7. CASE Respawn
        BY <2>7 DEF Respawn, Goto, SetState, DegradedAfter, Monitor
    <2>8. CASE MonitorStops
        BY <2>8, <1>3 DEF MonitorStops, Goto, Monitor
    <2>9. CASE StopChild
        BY <2>9, <1>3 DEF StopChild
    <2> QED
        BY <1>5, <2>1, <2>2, <2>3, <2>4, <2>5, <2>6, <2>7, <2>8, <2>9 DEF MonitorStep
<1>6. CASE Killed
    BY <1>6, <1>3 DEF Killed
<1>7. ASSUME NEW p \in Pid, Load(p) \/ Die(p) \/ Recycle(p) PROVE DegradedTracksTheOutage'
    BY <1>7 DEF Load, Die, Recycle
<1>8. CASE UNCHANGED vars
    BY <1>8 DEF vars
<1> QED
    BY <1>1, <1>2, <1>5, <1>6, <1>7, <1>8 DEF Next

\* The crash-loop cause is set from the threshold's attempt of an outage until
\* a server is ready (DegradedTracksTheOutage), for any threshold.
THEOREM OutagesAreReported == Spec => []DegradedTracksTheOutage
<1>1. Init => DegradedTracksTheOutage
    BY DEF Init, DegradedTracksTheOutage
<1> QED
    BY <1>1, OutageStep, TaskAlways, PTL DEF Spec
=============================================================================
