----------------------------- MODULE Subsystem -----------------------------
(***************************************************************************)
(* The subsystems of one Capcom process: a DAG of state machines           *)
(* (capcom/state_machine.cc) that exchange messages through one FIFO pipe  *)
(* each, own a set of processes and reach StageZero through an umbilical.  *)
(*                                                                         *)
(* Capcom runs cooperative coroutines in one thread, so the code between   *)
(* two suspension points is atomic.  EnterState() changes the operational  *)
(* state at once but only spawns the coroutine that runs the new state,    *)
(* so a state is left in one step and entered (its prologue) in another.   *)
(* One step is: the prologue of a state, the handling of one message or of *)
(* one StageZero event, a timer, or a step of the environment.             *)
(*                                                                         *)
(* Abstractions: all the processes of a subsystem are on one compute, so a *)
(* subsystem has one umbilical; the RPCs that launch or stop the processes *)
(* of a subsystem are one step; StageZero kills the processes of a closed  *)
(* connection at once; the graph does not change; output, log, parameter   *)
(* and telemetry traffic is left out.                                      *)
(***************************************************************************)
EXTENDS Integers, Sequences, FiniteSets

CONSTANTS
    Subsystem,        \* the subsystems loaded into Capcom
    Process,          \* their processes
    Client,           \* the ids of connected Capcom clients
    NoClient,         \* kNoClient
    Nobody,           \* the null sender of a client's message
    Children,         \* Children[s]: the subsystems s depends on
    Processes,        \* Processes[s]: the processes of s
    OneShot,          \* the processes that are meant to run once
    Critical,         \* the critical subsystems
    Policy,           \* Policy[s]: the restart policy of s
    Interactive,      \* clients whose start command is interactive
    MaxRestarts,      \* max_restarts_ of a subsystem
    MaxProcRestarts,  \* max_restarts_ of a process
    Slot,             \* bound: concurrent state coroutines of a subsystem
    Commands,         \* Commands[c]: the kinds of command client c gives
    Targets,          \* Targets[c]: the subsystems client c commands
    MaxCommands,      \* bound: commands sent by clients
    MaxCrashes,       \* bound: process crashes and failed launches
    MaxDrops,         \* bound: lost StageZero connections
    MaxAborts         \* bound: calls of Capcom::Abort

AdminState == {"Offline", "Online"}

OperState ==
    {"Offline", "StartingChildren", "Connecting", "StartingProcesses",
     "Online", "StoppingProcesses", "StoppingChildren", "Restarting",
     "RestartingProcesses", "Broken", "Degraded"}

ClientId == Client \cup {NoClient}

ASSUME GraphAssumption ==
    /\ Children \in [Subsystem -> SUBSET Subsystem]
    /\ \A s \in Subsystem : s \notin Children[s]

ASSUME ProcessAssumption ==
    /\ Processes \in [Subsystem -> SUBSET Process]
    /\ \A s \in Subsystem : IsFiniteSet(Processes[s])

ASSUME ClientAssumption == NoClient \notin Client /\ Interactive \subseteq Client

ASSUME TargetAssumption ==
    /\ Targets \in [Client -> SUBSET Subsystem]
    /\ Commands \in
         [Client -> SUBSET {"Start", "Stop", "Restart", "RestartProcesses"}]

ASSUME PolicyAssumption ==
    Policy \in [Subsystem -> {"automatic", "manual", "processOnly"}]

ASSUME BoundAssumption ==
    /\ MaxRestarts \in Nat /\ MaxProcRestarts \in Nat
    /\ MaxCommands \in Nat /\ MaxCrashes \in Nat
    /\ MaxDrops \in Nat /\ MaxAborts \in Nat

ASSUME SlotAssumption == 1 \in Slot

Parents(s) == {t \in Subsystem : s \in Children[t]}

VARIABLES
    sub,        \* sub[s]: the Subsystem object s and StageZero's side of it
    pipe,       \* pipe[s]: the messages s has not read yet
    emergency,  \* Capcom's emergency_aborting_
    abort,      \* the coroutine of Capcom::Abort
    spent       \* how much of each bound is used

vars == <<sub, pipe, emergency, abort, spent>>

-----------------------------------------------------------------------------
(* Messages and StageZero events.                                          *)

ChangeAdmin(from, c, a) ==
    [code |-> "ChangeAdmin", from |-> from, client |-> c, state |-> a, procs |-> {}]

ReportOper(from, o) ==
    [code |-> "ReportOper", from |-> from, client |-> NoClient, state |-> o,
     procs |-> {}]

\* A message that carries no state: its state.admin is zero, i.e. kOffline.
Order(code, c, procs) ==
    [code |-> code, from |-> Nobody, client |-> c, state |-> "Offline",
     procs |-> procs]

\* Every message that reports an operational state has a sender.
Message ==
    {m \in
        [code : {"ChangeAdmin", "ReportOper", "Abort", "EmergencyAbort", "Restart",
                 "RestartProcesses", "RestartCrashed"},
         from : Subsystem \cup {Nobody},
         client : ClientId,
         state : OperState,
         procs : SUBSET Process] :
     m.code = "ReportOper" => m.from \in Subsystem}

\* how: an exit with status 0, any other exit, or a signal.
Event(kind, p, how) == [kind |-> kind, proc |-> p, how |-> how]

StageZeroEvent ==
    [kind : {"start", "stop"}, proc : Process,
      how : {"ok", "fail", "signal"}]
        \cup [kind : {"connect", "disconnect"}]

\* The pipes after s reads its next message, after NotifyParents() of s in
\* operational state o, and after SendToChildren(a, c) of s.
Take(s) == [pipe EXCEPT ![s] = Tail(@)]

NotifyParents(P, s, o) ==
    [t \in Subsystem |->
        IF s \in Children[t] THEN Append(P[t], ReportOper(s, o)) ELSE P[t]]

SendToChildren(P, s, a, c) ==
    [t \in Subsystem |->
        IF t \in Children[s] THEN Append(P[t], ChangeAdmin(s, c, a)) ELSE P[t]]

-----------------------------------------------------------------------------
(* A state coroutine: where it is suspended ("enter": spawned, its         *)
(* prologue not run yet; "run": in RunSubsystemInState; "wait": in         *)
(* WaitForRestart; "nap": in the Sleep of RestartIfPossible), the state it *)
(* runs, and the locals the handlers capture.                              *)

Coroutine ==
    [at : {"dead", "enter", "run", "wait", "nap"},
     state : OperState,
     cid : ClientId,
     next : OperState,
     told : SUBSET Subsystem,       \* child_notified
     off : SUBSET ClientId,         \* offline_requests
     started : SUBSET Process]      \* started_processes

NewCoroutine(at, st, c) ==
    [at |-> at, state |-> st, cid |-> c, next |-> st,
     told |-> {}, off |-> {}, started |-> {}]

Dead == NewCoroutine("dead", "Offline", NoClient)

\* The phases of an instance of a process: registered at StageZero and waiting to
\* notify it, registered and up, or told to stop before and after it notified.
Phase == {"starting", "up", "halting", "dying"}

\* A subsystem: Capcom's object, then the socket of its umbilical and
\* StageZero's view of its processes.
Local ==
    [admin : AdminState,
     oper : OperState,
     active : SUBSET Client,            \* active_clients_
     interactive : BOOLEAN,
     restarts : Nat,                    \* num_restarts_
     co : [Slot -> Coroutine],
     running : SUBSET Process,          \* the processes with running_
     maybe : SUBSET Process,            \* the processes with maybe_connected_
     exit : [Process -> {"unset", "launched", "ok", "fail"}],
     tries : [Process -> Nat],          \* Process::num_restarts_
     alarm : SUBSET Process,            \* alarm_raised_
     todo : SUBSET Process,             \* processes_to_restart_
     timers : Nat,                      \* delayed kRestartCrashedProcesses
     umb : {"closed", "connecting", "connected"},
     refs : Int,                        \* dynamicRefs_
     conn : Nat,                        \* coroutines that connect the umbilical
     sock : {"none", "open", "eof"},    \* the client's sockets
     events : Seq(StageZeroEvent),      \* events not read yet
     live : [Process -> {"none", "starting", "up"}],  \* named by process_id_
     others : [Process -> [Phase -> Nat]]]   \* instances with other ids

-----------------------------------------------------------------------------
(* The helpers of the Subsystem and Process classes, as functions from one *)
(* state L of a subsystem to the next.                                     *)

EnterState(L, i, st, c) ==
    [L EXCEPT !.oper = st, !.co[i] = NewCoroutine("enter", st, c)]

\* The coroutine suspends in RunSubsystemInState, with the local next_state.
RunIn(L, i, next) == [L EXCEPT !.co[i].at = "run", !.co[i].next = next]

IsConnected(L) == L.umb = "connected" /\ L.sock # "none"

AllProcessesConnected(s, L) == Processes[s] # {} => IsConnected(L)

\* Mutant: one running process is enough.
SomeProcessRunning(s, L) == L.running # {}

\* A oneshot that is not running counts when Exited() and ExitStatus() are both
\* zero, which is so only before its first launch.
AllProcessesRunning(s, L) ==
    \A p \in Processes[s] \ L.running : p \in OneShot /\ L.exit[p] = "unset"

AllProcessesStopped(L, D) == D \cap L.running = {}

SetStopped(L, p) == [L EXCEPT !.running = @ \ {p}]

\* Mutant: the alarm stays.
SetRunningOnly(L, p) == [L EXCEPT !.running = @ \cup {p}]

SetRunning(L, p) == [L EXCEPT !.running = @ \cup {p}, !.alarm = @ \ {p}]

\* StageZero reacts to the end of a connection by killing its processes.
CloseSocket(L) ==
    [L EXCEPT !.sock = "none", !.events = <<>>,
              !.live = [p \in Process |-> "none"],
              !.others = [p \in Process |-> [f \in Phase |-> 0]]]

\* Process::Connect of every process of s: the first one to find the umbilical
\* closed spawns the coroutine that connects it.
Connect(s, L) ==
    LET new == Processes[s] \ L.maybe
        up  == [L EXCEPT !.maybe = @ \cup new, !.refs = @ + Cardinality(new),
                         !.umb = "connecting"]
    IN  CASE new = {} -> L
          [] new # {} /\ L.umb # "closed" -> up
          [] new # {} /\ L.umb = "closed" -> [up EXCEPT !.conn = @ + 1]

\* Mutant: a process that was never connected gives up a reference too.
DisconnectAll(L, D) ==
    LET down == [L EXCEPT !.running = @ \ D, !.maybe = @ \ D,
                          !.refs = @ - Cardinality(D)]
    IN  IF down.refs <= 0 THEN [CloseSocket(down) EXCEPT !.umb = "closed"]
        ELSE down

\* Process::Disconnect of the processes D.
Disconnect(L, D) ==
    LET gone == D \cap L.maybe
        down == [L EXCEPT !.running = @ \ gone, !.maybe = @ \ gone,
                          !.refs = @ - Cardinality(gone)]
    IN  IF gone # {} /\ down.refs <= 0
        THEN [CloseSocket(down) EXCEPT !.umb = "closed"]
        ELSE down

\* Client::ReadEvent: end of file closes the sockets and reads as "disconnect".
ReadEvent(L) ==
    IF Head(L.events).kind = "disconnect" THEN CloseSocket(L)
    ELSE [L EXCEPT !.events = Tail(@)]

Halted(f) == IF f = "starting" THEN "halting" ELSE "dying"

\* One more of the instances n is in phase f.
OneMore(n, f) == [n EXCEPT ![f] = @ + 1]

\* Process::Stop of the processes D: StageZero forgets the instance named by the
\* recorded id and goes on to kill it; an unknown id is only logged, and a call
\* on a broken connection closes the sockets.
Stop(L, D) ==
    LET hit == {p \in D : L.live[p] # "none" /\ L.sock = "open"}
        M   == [L EXCEPT
                  !.tries  = [p \in Process |-> IF p \in D THEN 0 ELSE @[p]],
                  !.live   = [p \in Process |-> IF p \in hit THEN "none" ELSE @[p]],
                  !.others = [p \in Process |->
                                IF p \in hit
                                THEN OneMore(@[p], Halted(L.live[p]))
                                ELSE @[p]]]
    IN  IF D # {} /\ L.sock = "eof" THEN CloseSocket(M) ELSE M

StopProcesses(s, L) ==
    LET M == Disconnect(L, Processes[s] \ L.running)
    IN  Stop(M, M.running)

\* Process::Launch of the processes D. StageZero looks for a process of that name
\* in a map that nothing fills and always makes a new instance; its id replaces
\* the one recorded before.
Launch(L, D) ==
    [L EXCEPT
       !.exit   = [p \in Process |-> IF p \in D THEN "launched" ELSE @[p]],
       !.live   = [p \in Process |-> IF p \in D THEN "starting" ELSE @[p]],
       !.others = [p \in Process |->
                     IF p \in D /\ L.live[p] # "none"
                     THEN OneMore(@[p], L.live[p]) ELSE @[p]]]

ResetProcessRestarts(L) == [L EXCEPT !.tries = [p \in Process |-> 0]]

\* BitSet::Set and Clear ignore kNoClient.
Bits(c) == {c} \ {NoClient}

SetClient(L, m) ==
    IF m.state = "Online" THEN [L EXCEPT !.active = @ \cup Bits(m.client)]
    ELSE [L EXCEPT !.active = @ \ Bits(m.client)]

\* Mutant: the active clients are looked at before the command changes them.
HandleCommandEarly(s, L, P, m, ifActive, ifNone) ==
    LET next == IF L.active = {} THEN ifNone ELSE ifActive
    IN  [sub  |-> SetClient(L, m), next |-> next, pipe |-> P]

\* HandleAdminCommand(m, ifActive, ifNone) of s: the subsystem and the pipes
\* after it, and the state it returns.
HandleAdminCommand(s, L, P, m, ifActive, ifNone) ==
    LET M    == SetClient(L, m)
        next == IF M.active = {} THEN ifNone ELSE ifActive
    IN  [sub  |-> M,
         next |-> next,
         pipe |-> IF next = M.oper THEN NotifyParents(P, s, M.oper) ELSE P]

-----------------------------------------------------------------------------
Idle ==
    [admin |-> "Offline", oper |-> "Offline", active |-> {},
     interactive |-> FALSE, restarts |-> 0,
     co |-> [[i \in Slot |-> Dead] EXCEPT ![1].at = "enter"],
     running |-> {}, maybe |-> {},
     exit |-> [p \in Process |-> "unset"], tries |-> [p \in Process |-> 0],
     alarm |-> {}, todo |-> {}, timers |-> 0,
     umb |-> "closed", refs |-> 0, conn |-> 0, sock |-> "none", events |-> <<>>,
     live |-> [p \in Process |-> "none"],
     others |-> [p \in Process |-> [f \in Phase |-> 0]]]

\* AddSubsystem has built each subsystem and Run() has entered Offline.
Init ==
    /\ sub = [s \in Subsystem |-> Idle]
    /\ pipe = [s \in Subsystem |-> <<>>]
    /\ emergency = FALSE
    /\ abort = [asked |-> 0, waiting |-> [e \in BOOLEAN |-> 0]]
    /\ spent = [commands |-> 0, crashes |-> 0, drops |-> 0, aborts |-> 0]

-----------------------------------------------------------------------------
(* How a step of a state coroutine i of s ends.                            *)

Put(s, L, P) == sub' = [sub EXCEPT ![s] = L] /\ pipe' = P

Set(s, L, P) == Put(s, L, P) /\ UNCHANGED <<emergency, abort, spent>>

Goto(s, i, L, P, st, c) == Set(s, EnterState(L, i, st, c), P)

\* Suspend in RunSubsystemInState after telling the parents.
NotifyAndRun(s, i, L, next) ==
    Set(s, RunIn(L, i, next), NotifyParents(pipe, s, L.oper))

RestartNow(s, i, L, P, c) ==
    Goto(s, i, L, SendToChildren(P, s, "Online", c), "StartingChildren", c)

Entering(s, i, st) == sub[s].co[i].at = "enter" /\ sub[s].co[i].state = st

Running(s, i, st) == sub[s].co[i].at = "run" /\ sub[s].co[i].state = st

-----------------------------------------------------------------------------
(* The prologues: what a state function does before RunSubsystemInState.   *)

\* Mutant: the umbilical stays connected.
EnterOfflineConnected(s, i) ==
    /\ Entering(s, i, "Offline")
    /\ NotifyAndRun(s, i, ResetProcessRestarts([sub[s] EXCEPT !.restarts = 0]),
                    "Offline")

EnterOffline(s, i) ==
    /\ Entering(s, i, "Offline")
    /\ LET L == Disconnect([sub[s] EXCEPT !.restarts = 0], Processes[s])
       IN  NotifyAndRun(s, i, ResetProcessRestarts(L), "Offline")

EnterStartingChildren(s, i) ==
    /\ Entering(s, i, "StartingChildren")
    /\ LET L == sub[s] IN
       IF Children[s] = {} THEN Goto(s, i, L, pipe, "Connecting", L.co[i].cid)
       ELSE NotifyAndRun(s, i, L, "Connecting")

EnterConnecting(s, i) ==
    /\ Entering(s, i, "Connecting")
    /\ LET L == Connect(s, [sub[s] EXCEPT !.oper = "Connecting"]) IN
       IF AllProcessesConnected(s, L)
       THEN Goto(s, i, L, pipe, "StartingProcesses", L.co[i].cid)
       ELSE NotifyAndRun(s, i, L, "Connecting")

\* Mutant: one restart more.
RestartOnceMore(L, i) ==
    IF L.restarts > MaxRestarts THEN EnterState(L, i, "Broken", L.co[i].cid)
    ELSE [L EXCEPT !.restarts = @ + 1, !.co[i].at = "nap"]

\* RestartIfPossible of the coroutine i in L.
RestartIfPossible(L, i) ==
    IF L.restarts = MaxRestarts THEN EnterState(L, i, "Broken", L.co[i].cid)
    ELSE [L EXCEPT !.restarts = @ + 1, !.co[i].at = "nap"]

ToLaunch(s) == Processes[s] \ sub[s].running

\* A launch on a broken connection fails, but for the call that meets the end of
\* file: it reads the missing response as a success with an empty process id.
EnterStartingProcesses(s, i) ==
    /\ Entering(s, i, "StartingProcesses")
    /\ LET L == [sub[s] EXCEPT !.oper = "StartingProcesses"]
           D == ToLaunch(s)
           o == IF L.admin = "Offline" THEN "Offline" ELSE "Online"
       IN  IF o = "Offline" \/ Processes[s] = {}
           THEN Goto(s, i, L, NotifyParents(pipe, s, o), o, L.co[i].cid)
           ELSE \/ /\ D = {} \/ L.sock = "open"
                   /\ NotifyAndRun(s, i, Launch(L, D), "Online")
                \/ /\ Cardinality(D) = 1 /\ L.sock = "eof"
                   /\ NotifyAndRun(s, i, CloseSocket(Launch(L, D)), "Online")
                \/ /\ D # {} /\ L.sock # "open"
                   /\ Set(s, RestartIfPossible(CloseSocket(L), i), pipe)

\* StageZero refuses to launch a process after it has launched those in K.
LaunchFails(s, i) ==
    /\ Entering(s, i, "StartingProcesses")
    /\ sub[s].admin = "Online" /\ sub[s].sock = "open"
    /\ spent.crashes < MaxCrashes
    /\ \E K \in (SUBSET ToLaunch(s)) \ {ToLaunch(s)} :
         LET L == [sub[s] EXCEPT !.oper = "StartingProcesses"] IN
         Put(s, RestartIfPossible(Launch(L, K), i), pipe)
    /\ spent' = [spent EXCEPT !.crashes = @ + 1]
    /\ UNCHANGED <<emergency, abort>>

EnterOnline(s, i) ==
    /\ Entering(s, i, "Online")
    /\ NotifyAndRun(s, i, sub[s], "Online")

EnterStoppingProcesses(s, i) ==
    /\ Entering(s, i, "StoppingProcesses")
    /\ LET L == sub[s] c == L.co[i].cid IN
       IF AllProcessesStopped(L, Processes[s])
       THEN Goto(s, i, L, SendToChildren(pipe, s, "Offline", c),
                 "StoppingChildren", c)
       ELSE NotifyAndRun(s, i, StopProcesses(s, L), "StoppingChildren")

EnterStoppingChildren(s, i) ==
    /\ Entering(s, i, "StoppingChildren")
    /\ LET L == sub[s] c == L.co[i].cid IN
       IF Children[s] = {} THEN Goto(s, i, L, pipe, "Offline", c)
       ELSE NotifyAndRun(s, i, [L EXCEPT !.co[i].off = {c}], "Offline")

EnterRestarting(s, i) ==
    /\ Entering(s, i, "Restarting")
    /\ LET L == sub[s]
           stopped == AllProcessesStopped(L, Processes[s])
           M == RunIn(StopProcesses(s, L), i, "Restarting")
       IN  IF ~stopped THEN Set(s, M, pipe)
           ELSE IF Parents(s) = {} THEN RestartNow(s, i, L, pipe, L.co[i].cid)
           ELSE Set(s, M, NotifyParents(pipe, s, L.oper))

EnterRestartingProcesses(s, i) ==
    /\ Entering(s, i, "RestartingProcesses")
    /\ LET L == sub[s]
           M == RunIn(L, i, "RestartingProcesses")
       IN  IF ~AllProcessesStopped(L, L.todo) THEN Set(s, M, pipe)
           ELSE IF Parents(s) = {}
           THEN Goto(s, i, L, pipe, "Connecting", L.co[i].cid)
           ELSE Set(s, M, NotifyParents(pipe, s, L.oper))

EnterBroken(s, i) ==
    /\ Entering(s, i, "Broken") \/ Entering(s, i, "Degraded")
    /\ NotifyAndRun(s, i, sub[s], sub[s].co[i].state)

Prologue(s, i) ==
    \/ EnterOffline(s, i) \/ EnterStartingChildren(s, i)
    \/ EnterConnecting(s, i) \/ EnterStartingProcesses(s, i)
    \/ EnterOnline(s, i) \/ EnterStoppingProcesses(s, i)
    \/ EnterStoppingChildren(s, i) \/ EnterRestarting(s, i)
    \/ EnterRestartingProcesses(s, i) \/ EnterBroken(s, i)

-----------------------------------------------------------------------------
(* RestartIfPossibleAfterProcessCrash: process p has stopped, and the      *)
(* handler of coroutine i has read that in L.  A crash in a critical       *)
(* subsystem spawns an emergency abort instead.                            *)

\* Mutant: a process is restarted without end.
AlwaysRestart(s, i, L, p, how) ==
    [SetStopped(L, p) EXCEPT !.tries[p] = @ + 1, !.timers = @ + 1]

AfterCrash(s, i, L, p, how) ==
    LET c == L.co[i].cid
        M == SetStopped(L, p)
        A == [M EXCEPT !.alarm = @ \cup {p}]
        alone == Policy[s] = "processOnly" \/ L.oper = "RestartingProcesses"
    IN  IF p \in OneShot
        THEN IF how = "ok" THEN M ELSE EnterState(A, i, "Broken", c)
        ELSE IF alone
        THEN IF L.tries[p] = MaxProcRestarts THEN EnterState(A, i, "Degraded", c)
             ELSE [A EXCEPT !.tries[p] = @ + 1, !.timers = @ + 1]
        ELSE IF Policy[s] = "manual" THEN EnterState(A, i, "Degraded", c)
        ELSE IF L.restarts = MaxRestarts THEN EnterState(A, i, "Broken", c)
        ELSE [A EXCEPT !.restarts = @ + 1, !.co[i].at = "wait"]

Crash(s, i, L, P, p, how) ==
    IF emergency THEN Set(s, L, P)
    ELSE IF s \in Critical
    THEN /\ Put(s, L, P)
         /\ abort' = [abort EXCEPT !.asked = @ + 1]
         /\ UNCHANGED <<emergency, spent>>
    ELSE Set(s, AfterCrash(s, i, L, p, how), P)

-----------------------------------------------------------------------------
(* What the handlers of a state do after their switch: leave the state     *)
(* when its condition holds in L, else stay.                               *)

\* Mutant: the first answer of a child is enough.
AfterFirstChild(s, i, L, P) ==
    LET next == IF L.admin = "Offline" THEN "Offline" ELSE L.co[i].next
    IN  IF L.co[i].told # {} THEN Goto(s, i, L, P, next, L.co[i].cid)
        ELSE Set(s, L, P)

StartingChildrenTail(s, i, L, P) ==
    LET f == L.co[i]
        next == IF L.admin = "Offline" THEN "Offline" ELSE f.next
    IN  IF /\ Children[s] \subseteq f.told
           /\ next = "Connecting" => \A t \in Children[s] : sub[t].oper = "Online"
        THEN Goto(s, i, L, P, next, f.cid)
        ELSE Set(s, L, P)

ConnectingTail(s, i, L, P) ==
    LET c == L.co[i].cid IN
    IF AllProcessesConnected(s, L)
    THEN Goto(s, i, L, SendToChildren(P, s, "Online", c), "StartingProcesses", c)
    ELSE Set(s, L, P)

StartingProcessesTail(s, i, L, P) ==
    IF AllProcessesRunning(s, L)
    THEN Goto(s, i, L, P, L.co[i].next, L.co[i].cid)
    ELSE Set(s, L, P)

\* Mutant: the last process to stop is not noticed.
StoppingForever(s, i, L, P) == Set(s, L, P)

StoppingProcessesTail(s, i, L, P) ==
    LET f == L.co[i] IN
    IF AllProcessesStopped(L, Processes[s])
    THEN Goto(s, i, L, SendToChildren(P, s, "Offline", f.cid), f.next, f.cid)
    ELSE Set(s, L, P)

\* A child may stay online for another client: it has answered when it is admin
\* online or when it has dropped the clients that want s offline.
StoppingChildrenTail(s, i, L, P) ==
    LET f == L.co[i]
        dropped == \A t \in Children[s] :
                      sub[t].admin = "Online" \/ f.off \cap sub[t].active = {}
    IN  IF ~(Children[s] \subseteq f.told) THEN Set(s, L, P)
        ELSE IF f.next = "StartingChildren" THEN Goto(s, i, L, P, f.next, f.cid)
        ELSE IF ~dropped THEN Set(s, L, P)
        ELSE Goto(s, i, L, SendToChildren(P, s, "Offline", f.cid), f.next, f.cid)

RestartingTail(s, i, L, P) ==
    IF ~AllProcessesStopped(L, Processes[s]) THEN Set(s, L, P)
    ELSE IF Parents(s) = {} THEN RestartNow(s, i, L, P, L.co[i].cid)
    ELSE Set(s, L, NotifyParents(P, s, L.oper))

\* Mutant: the stopped processes are not launched again.
BackOnline(s, i, L, P) ==
    IF AllProcessesStopped(L, L.todo) THEN Goto(s, i, L, P, "Online", L.co[i].cid)
    ELSE Set(s, L, P)

RestartingProcessesTail(s, i, L, P) ==
    IF AllProcessesStopped(L, L.todo)
    THEN Goto(s, i, L, P, "Connecting", L.co[i].cid)
    ELSE Set(s, L, P)

-----------------------------------------------------------------------------
(* The messages.  Each action reads the first message m of the pipe of s.  *)

Receives(s, i, st, code) ==
    /\ Running(s, i, st)
    /\ pipe[s] # <<>>
    /\ Head(pipe[s]).code = code

\* Subsystem::Abort(emergency): forget the processes, whatever they do.
AbortSubsystem(s, L, i, m) ==
    IF m.code = "Abort" /\ s \in Critical THEN L
    ELSE EnterState([L EXCEPT !.admin = "Offline", !.active = {}, !.running = {}],
                    i, "Offline", NoClient)

GetsAbort(s, i) ==
    /\ \E st \in OperState \ {"Offline"}, code \in {"Abort", "EmergencyAbort"} :
          Receives(s, i, st, code)
    /\ Set(s, AbortSubsystem(s, sub[s], i, Head(pipe[s])), Take(s))

GetsRestart(s, i) ==
    /\ \E st \in {"StartingChildren", "Connecting", "StartingProcesses", "Online",
                  "StoppingProcesses", "StoppingChildren"} :
          Receives(s, i, st, "Restart")
    /\ Goto(s, i, sub[s], Take(s), "Restarting", sub[s].co[i].cid)

\* The messages a state reads and drops.
Ignores(st) ==
    CASE st = "Offline" -> {"Abort", "EmergencyAbort", "Restart",
                            "RestartProcesses", "RestartCrashed"}
      [] st \in {"StartingChildren", "Connecting", "StoppingProcesses",
                 "StoppingChildren"} -> {"RestartProcesses", "RestartCrashed"}
      [] st = "Restarting" -> {"Restart", "RestartProcesses", "RestartCrashed"}
      [] st = "RestartingProcesses" -> {"Restart", "RestartCrashed"}
      [] st \in {"Broken", "Degraded"} -> {"ReportOper", "RestartCrashed"}
      [] OTHER -> {}

GetsIgnored(s, i) ==
    /\ \E st \in OperState : \E code \in Ignores(st) : Receives(s, i, st, code)
    /\ Set(s, sub[s], Take(s))

\* Mutant: a stop leaves the admin state alone.
AdoptNext(H, i, m, stop) ==
    [H.sub EXCEPT !.co[i].next = H.next, !.co[i].cid = m.client]

\* After HandleAdminCommand returned H: the state to enter next, the client, and
\* the admin state, which is offline when the next state is stop.
Adopt(H, i, m, stop) ==
    [H.sub EXCEPT !.co[i].next = H.next, !.co[i].cid = m.client,
                  !.admin = IF H.next = stop THEN "Offline" ELSE @]

OfflineChangeAdmin(s, i) ==
    /\ Receives(s, i, "Offline", "ChangeAdmin")
    /\ LET L == sub[s]
           m == Head(pipe[s])
           H == HandleAdminCommand(s, L, Take(s), m, "StartingChildren", "Offline")
           M == [H.sub EXCEPT !.interactive =
                                m.from = Nobody /\ m.client \in Interactive]
       IN  IF m.state = "Offline"
           THEN Set(s, L, NotifyParents(Take(s), s, L.oper))
           ELSE IF H.next = "Offline" THEN Set(s, M, H.pipe)
           ELSE Goto(s, i, [M EXCEPT !.admin = "Online"],
                     SendToChildren(H.pipe, s, "Online", m.client),
                     "StartingChildren", NoClient)

OfflineReportOper(s, i) ==
    /\ Receives(s, i, "Offline", "ReportOper")
    /\ LET L == sub[s] IN
       IF Head(pipe[s]).state = "Restarting"
       THEN Goto(s, i, L, Take(s), "Restarting", L.co[i].cid)
       ELSE Set(s, L, NotifyParents(Take(s), s, L.oper))

StartingChildrenChangeAdmin(s, i) ==
    /\ Receives(s, i, "StartingChildren", "ChangeAdmin")
    /\ LET m == Head(pipe[s])
           H == HandleAdminCommand(s, sub[s], Take(s), m, "Connecting",
                                   "StoppingChildren")
       IN  StartingChildrenTail(s, i, Adopt(H, i, m, "StoppingChildren"),
                                SendToChildren(H.pipe, s, m.state, m.client))

StartingChildrenReportOper(s, i) ==
    /\ Receives(s, i, "StartingChildren", "ReportOper")
    /\ LET L == sub[s]
           m == Head(pipe[s])
           final == \/ m.state = "Online"
                    \/ m.state = "Offline" /\ L.admin = "Offline"
           M == IF final THEN [L EXCEPT !.co[i].told = @ \cup {m.from}] ELSE L
       IN  IF m.state = "Broken"
           THEN Goto(s, i, L, Take(s), "Broken", L.co[i].cid)
           ELSE StartingChildrenTail(s, i, M, NotifyParents(Take(s), s, L.oper))

ConnectingChangeAdmin(s, i) ==
    /\ Receives(s, i, "Connecting", "ChangeAdmin")
    /\ LET m == Head(pipe[s])
           H == HandleAdminCommand(s, sub[s], Take(s), m, "StoppingProcesses",
                                   "StoppingProcesses")
       IN  IF m.state = "Offline"
           THEN Goto(s, i, [H.sub EXCEPT !.admin = "Offline"], H.pipe,
                     "StoppingProcesses", m.client)
           ELSE ConnectingTail(s, i, sub[s], Take(s))

ConnectingReportOper(s, i) ==
    /\ Receives(s, i, "Connecting", "ReportOper")
    /\ ConnectingTail(s, i, sub[s], Take(s))

StartingProcessesChangeAdmin(s, i) ==
    /\ Receives(s, i, "StartingProcesses", "ChangeAdmin")
    /\ LET m == Head(pipe[s])
           H == HandleAdminCommand(s, sub[s], Take(s), m, "Online",
                                   "StoppingProcesses")
       IN  StartingProcessesTail(s, i, Adopt(H, i, m, "StoppingProcesses"),
                                 SendToChildren(H.pipe, s, m.state, m.client))

StartingProcessesReportOper(s, i) ==
    /\ Receives(s, i, "StartingProcesses", "ReportOper")
    /\ StartingProcessesTail(s, i, sub[s], NotifyParents(Take(s), s, sub[s].oper))

StartingProcessesRestartProcesses(s, i) ==
    /\ \E code \in {"RestartProcesses", "RestartCrashed"} :
          Receives(s, i, "StartingProcesses", code)
    /\ Goto(s, i, sub[s], Take(s), "StartingProcesses", Head(pipe[s]).client)

\* A stop is refused while some parent is admin online.
OnlineChangeAdmin(s, i) ==
    /\ Receives(s, i, "Online", "ChangeAdmin")
    /\ LET L == sub[s]
           m == Head(pipe[s])
           H == HandleAdminCommand(s, L, Take(s), m, "Online", "StoppingProcesses")
           M == Adopt(H, i, m, "StoppingProcesses")
           needed == \E t \in Parents(s) : sub[t].admin # "Offline"
       IN  IF m.state = "Offline" /\ needed
           THEN Set(s, L, NotifyParents(Take(s), s, L.oper))
           ELSE IF H.next = "Online" THEN Set(s, M, H.pipe)
           ELSE Goto(s, i, M, H.pipe, "StoppingProcesses", m.client)

OnlineReportOper(s, i) ==
    /\ Receives(s, i, "Online", "ReportOper")
    /\ LET o == Head(pipe[s]).state IN
       IF o \in {"Restarting", "Broken"}
       THEN Goto(s, i, sub[s], Take(s), o, sub[s].co[i].cid)
       ELSE Set(s, sub[s], Take(s))

\* An empty list of processes stands for all of them.
OnlineRestartProcesses(s, i) ==
    /\ Receives(s, i, "Online", "RestartProcesses")
    /\ LET L == sub[s]
           m == Head(pipe[s])
           M == IF m.procs = {}
                THEN [StopProcesses(s, L) EXCEPT !.todo = Processes[s]]
                ELSE [Stop(L, m.procs \cap L.running) EXCEPT !.todo = m.procs]
       IN  Goto(s, i, M, Take(s), "RestartingProcesses", m.client)

OnlineRestartCrashed(s, i) ==
    /\ Receives(s, i, "Online", "RestartCrashed")
    /\ Goto(s, i, sub[s], Take(s), "Connecting", Head(pipe[s]).client)

StoppingProcessesChangeAdmin(s, i) ==
    /\ Receives(s, i, "StoppingProcesses", "ChangeAdmin")
    /\ LET m == Head(pipe[s])
           H == HandleAdminCommand(s, sub[s], Take(s), m, "Connecting",
                                   "StoppingChildren")
           M == [H.sub EXCEPT !.co[i].next = H.next, !.co[i].cid = m.client]
       IN  StoppingProcessesTail(s, i, M, H.pipe)

StoppingProcessesReportOper(s, i) ==
    /\ Receives(s, i, "StoppingProcesses", "ReportOper")
    /\ StoppingProcessesTail(s, i, sub[s], NotifyParents(Take(s), s, sub[s].oper))

StoppingChildrenChangeAdmin(s, i) ==
    /\ Receives(s, i, "StoppingChildren", "ChangeAdmin")
    /\ LET m == Head(pipe[s])
           H == HandleAdminCommand(s, sub[s], Take(s), m, "StartingChildren",
                                   "Offline")
           M == [H.sub EXCEPT !.co[i].next = H.next, !.co[i].cid = m.client,
                              !.co[i].off = IF m.state = "Offline"
                                            THEN @ \cup {m.client}
                                            ELSE @ \ {m.client}]
       IN  StoppingChildrenTail(s, i, M, H.pipe)

StoppingChildrenReportOper(s, i) ==
    /\ Receives(s, i, "StoppingChildren", "ReportOper")
    /\ LET L == sub[s]
           m == Head(pipe[s])
           M == IF m.state \in {"Online", "Offline"}
                THEN [L EXCEPT !.co[i].told = @ \cup {m.from}] ELSE L
       IN  StoppingChildrenTail(s, i, M, NotifyParents(Take(s), s, L.oper))

RestartingChangeAdmin(s, i) ==
    /\ Receives(s, i, "Restarting", "ChangeAdmin")
    /\ LET L == sub[s] IN
       IF Head(pipe[s]).state = "Online"
       THEN RestartNow(s, i, L, Take(s), L.co[i].cid)
       ELSE RestartingTail(s, i, L, NotifyParents(Take(s), s, L.oper))

RestartingReportOper(s, i) ==
    /\ Receives(s, i, "Restarting", "ReportOper")
    /\ RestartingTail(s, i, sub[s], Take(s))

RestartingProcessesChangeAdmin(s, i) ==
    /\ Receives(s, i, "RestartingProcesses", "ChangeAdmin")
    /\ LET L == sub[s] IN
       IF Head(pipe[s]).state = "Online"
       THEN Goto(s, i, L, Take(s), "Connecting", L.co[i].cid)
       ELSE RestartingProcessesTail(s, i, L, NotifyParents(Take(s), s, L.oper))

RestartingProcessesOther(s, i) ==
    /\ \E code \in {"ReportOper", "RestartProcesses"} :
          Receives(s, i, "RestartingProcesses", code)
    /\ RestartingProcessesTail(s, i, sub[s], Take(s))

\* Broken and Degraded use the client that brought the subsystem there, not m's.
BrokenCommand(s, i) ==
    /\ \E st \in {"Broken", "Degraded"}, code \in {"ChangeAdmin", "Restart"} :
          Receives(s, i, st, code)
    /\ LET m == Head(pipe[s])
           c == sub[s].co[i].cid
           L == ResetProcessRestarts([sub[s] EXCEPT !.restarts = 0])
           P == SendToChildren(Take(s), s, m.state, m.client)
       IN  IF m.state = "Online" \/ m.code = "Restart"
           THEN Goto(s, i, [L EXCEPT !.active = @ \cup Bits(c)], P,
                     "StartingChildren", c)
           ELSE Goto(s, i, [L EXCEPT !.active = @ \ Bits(c), !.admin = "Offline"],
                     P, "StoppingChildren", c)

BrokenRestartProcesses(s, i) ==
    /\ \E st \in {"Broken", "Degraded"} : Receives(s, i, st, "RestartProcesses")
    /\ LET c == sub[s].co[i].cid
           L == ResetProcessRestarts([sub[s] EXCEPT !.restarts = 0])
       IN  Goto(s, i, [L EXCEPT !.active = @ \cup Bits(c)], Take(s),
                "Connecting", c)

\* WaitForRestart drops every message but a start, which ends the wait, and an
\* abort, which enters Offline before the wait's caller enters Restarting.
Waits(s, i) == sub[s].co[i].at = "wait"

WaitForRestartMessage(s, i) ==
    /\ Waits(s, i)
    /\ pipe[s] # <<>>
    /\ LET L == sub[s]
           m == Head(pipe[s])
           abortion == \/ m.code = "EmergencyAbort"
                       \/ m.code = "Abort" /\ s \notin Critical
       IN  \/ /\ m.code = "ChangeAdmin" /\ m.state = "Online"
              /\ Goto(s, i, L, Take(s), "Restarting", L.co[i].cid)
           \/ /\ abortion
              /\ \E j \in Slot :
                    /\ L.co[j].at = "dead"
                    /\ Goto(s, i, AbortSubsystem(s, L, j, m), Take(s),
                            "Restarting", L.co[i].cid)
           \/ /\ ~abortion
              /\ m.code = "ChangeAdmin" => m.state = "Offline"
              /\ Set(s, L, Take(s))

GetsMessage(s, i) ==
    \/ GetsAbort(s, i) \/ GetsRestart(s, i) \/ GetsIgnored(s, i)
    \/ OfflineChangeAdmin(s, i) \/ OfflineReportOper(s, i)
    \/ StartingChildrenChangeAdmin(s, i) \/ StartingChildrenReportOper(s, i)
    \/ ConnectingChangeAdmin(s, i) \/ ConnectingReportOper(s, i)
    \/ StartingProcessesChangeAdmin(s, i) \/ StartingProcessesReportOper(s, i)
    \/ StartingProcessesRestartProcesses(s, i)
    \/ OnlineChangeAdmin(s, i) \/ OnlineReportOper(s, i)
    \/ OnlineRestartProcesses(s, i) \/ OnlineRestartCrashed(s, i)
    \/ StoppingProcessesChangeAdmin(s, i) \/ StoppingProcessesReportOper(s, i)
    \/ StoppingChildrenChangeAdmin(s, i) \/ StoppingChildrenReportOper(s, i)
    \/ RestartingChangeAdmin(s, i) \/ RestartingReportOper(s, i)
    \/ RestartingProcessesChangeAdmin(s, i) \/ RestartingProcessesOther(s, i)
    \/ BrokenCommand(s, i) \/ BrokenRestartProcesses(s, i)
    \/ WaitForRestartMessage(s, i)

-----------------------------------------------------------------------------
(* The events of StageZero.  Each action reads the first event; the pipes  *)
(* of s are polled only when its umbilical is connected.                   *)

HasEvent(s) == IsConnected(sub[s]) /\ sub[s].events # <<>>

Reads(s, i, st) == Running(s, i, st) /\ HasEvent(s)

IgnoreEvent(s, i) ==
    /\ \E st \in {"Offline", "Broken", "Degraded"} : Reads(s, i, st)
    /\ Set(s, ReadEvent(sub[s]), pipe)

StartingChildrenEvent(s, i) ==
    /\ Reads(s, i, "StartingChildren")
    /\ LET L == ReadEvent(sub[s]) IN
       IF Head(sub[s].events).kind = "stop" THEN Set(s, L, pipe)
       ELSE StartingChildrenTail(s, i, L, pipe)

ConnectingEvent(s, i) ==
    /\ Reads(s, i, "Connecting")
    /\ LET L == ReadEvent(sub[s]) IN
       IF Head(sub[s].events).kind = "stop" THEN Set(s, L, pipe)
       ELSE ConnectingTail(s, i, L, pipe)

StartingProcessesEvent(s, i) ==
    /\ Reads(s, i, "StartingProcesses")
    /\ LET L == ReadEvent(sub[s])
           e == Head(sub[s].events)
       IN  CASE e.kind = "start" ->
                  StartingProcessesTail(s, i, SetRunning(L, e.proc), pipe)
             [] e.kind = "stop" /\ ~emergency ->
                  IF e.proc \in OneShot /\ e.how # "signal"
                  THEN StartingProcessesTail(s, i,
                         [SetStopped(L, e.proc) EXCEPT !.exit[e.proc] = e.how], pipe)
                  ELSE Crash(s, i, L, pipe, e.proc, e.how)
             [] OTHER -> StartingProcessesTail(s, i, L, pipe)

OnlineEvent(s, i) ==
    /\ Reads(s, i, "Online")
    /\ LET L == ReadEvent(sub[s])
           e == Head(sub[s].events)
       IN  CASE e.kind = "disconnect" ->
                  Goto(s, i, Disconnect(L, Processes[s]), pipe, "Restarting", NoClient)
             [] e.kind = "stop" /\ L.interactive ->
                  Goto(s, i, [SetStopped(L, e.proc) EXCEPT !.admin = "Offline"],
                       pipe, "Offline", NoClient)
             [] e.kind = "stop" /\ ~L.interactive ->
                  Crash(s, i, L, pipe, e.proc, e.how)
             [] OTHER -> Set(s, L, pipe)

\* Mutant: the stop event is read and dropped.
ReadOnly(L) == ReadEvent(L)

\* In L the subsystem takes note of a stop event, and of no other one.
NoteStop(L) ==
    IF Head(L.events).kind = "stop"
    THEN SetStopped(ReadEvent(L), Head(L.events).proc) ELSE ReadEvent(L)

StoppingProcessesEvent(s, i) ==
    /\ Reads(s, i, "StoppingProcesses")
    /\ LET L == sub[s] IN
       StoppingProcessesTail(s, i,
           IF Head(L.events).kind = "disconnect"
           THEN Disconnect(ReadEvent(L), Processes[s]) ELSE NoteStop(L), pipe)

StoppingChildrenEvent(s, i) ==
    /\ Reads(s, i, "StoppingChildren")
    /\ StoppingChildrenTail(s, i, ReadEvent(sub[s]), pipe)

RestartingEvent(s, i) ==
    /\ Reads(s, i, "Restarting")
    /\ RestartingTail(s, i, NoteStop(sub[s]), pipe)

\* A process that starts and stops while the subsystem is in this state crashes.
RestartingProcessesEvent(s, i) ==
    /\ Reads(s, i, "RestartingProcesses")
    /\ LET L == ReadEvent(sub[s])
           e == Head(sub[s].events)
       IN  CASE e.kind = "start" ->
                  RestartingProcessesTail(s, i,
                      [SetRunning(L, e.proc) EXCEPT !.co[i].started = @ \cup {e.proc}],
                      pipe)
             [] e.kind = "stop" /\ e.proc \in L.co[i].started ->
                  Crash(s, i, [L EXCEPT !.co[i].started = @ \ {e.proc}], pipe,
                        e.proc, "signal")
             [] OTHER -> RestartingProcessesTail(s, i, NoteStop(sub[s]), pipe)

WaitForRestartEvent(s, i) ==
    /\ Waits(s, i)
    /\ HasEvent(s)
    /\ Set(s, NoteStop(sub[s]), pipe)

GetsEvent(s, i) ==
    \/ IgnoreEvent(s, i) \/ StartingChildrenEvent(s, i) \/ ConnectingEvent(s, i)
    \/ StartingProcessesEvent(s, i) \/ OnlineEvent(s, i)
    \/ StoppingProcessesEvent(s, i) \/ StoppingChildrenEvent(s, i)
    \/ RestartingEvent(s, i) \/ RestartingProcessesEvent(s, i)
    \/ WaitForRestartEvent(s, i)

\* The delay of WaitForRestart, or of RestartIfPossible, is over.
DelayOver(s, i) ==
    /\ sub[s].co[i].at \in {"wait", "nap"}
    /\ Goto(s, i, sub[s], pipe, "Restarting", sub[s].co[i].cid)

StateStep(s, i) ==
    Prologue(s, i) \/ GetsMessage(s, i) \/ GetsEvent(s, i) \/ DelayOver(s, i)

-----------------------------------------------------------------------------
(* The other coroutines of a subsystem.                                    *)

\* ConnectUmbilical's coroutine: a new connection replaces the client's sockets.
ConnectorConnects(s) ==
    /\ sub[s].conn > 0 /\ sub[s].umb = "connecting"
    /\ LET L == CloseSocket(sub[s]) IN
       Set(s, [L EXCEPT !.conn = @ - 1, !.umb = "connected", !.sock = "open",
                        !.events = <<[kind |-> "connect"]>>], pipe)

\* Mutant: a connector that has connected quits too.
QuitsTwice(s) ==
    /\ sub[s].oper # "Connecting"
    /\ Set(s, [sub[s] EXCEPT !.conn = @ - 1], pipe)

ConnectorQuits(s) ==
    /\ sub[s].conn > 0 /\ sub[s].oper # "Connecting"
    /\ Set(s, [sub[s] EXCEPT !.conn = @ - 1], pipe)

\* Mutant: the message of the timer is lost.
SilentTimer(s) ==
    /\ sub[s].timers > 0
    /\ Set(s, [sub[s] EXCEPT !.timers = @ - 1], pipe)

\* The delay before a process restarts is over.
CrashTimer(s) ==
    /\ sub[s].timers > 0
    /\ Set(s, [sub[s] EXCEPT !.timers = @ - 1],
           [pipe EXCEPT ![s] = Append(@, Order("RestartCrashed", NoClient, {}))])

-----------------------------------------------------------------------------
(* StageZero's processes and its connection.                               *)

\* L after an event of an instance of p, and with another instance moved from
\* one phase to the next or, to "gone", ended.
Tell(L, e) == [L EXCEPT !.events = Append(@, e)]

Move(L, p, from, to) ==
    [L EXCEPT !.others[p] = [f \in Phase |-> IF f = from THEN @[f] - 1
                                             ELSE IF f = to THEN @[f] + 1 ELSE @[f]]]

\* An instance notifies StageZero; one that was told to stop may still do so.
Started(s, p) ==
    LET L == sub[s] e == Event("start", p, "ok") IN
    \/ /\ L.live[p] = "starting"
       /\ Set(s, Tell([L EXCEPT !.live[p] = "up"], e), pipe)
    \/ \E move \in {<<"starting", "up">>, <<"halting", "dying">>} :
          /\ L.others[p][move[1]] > 0
          /\ Set(s, Tell(Move(L, p, move[1], move[2]), e), pipe)

\* How p ends matters for a oneshot only.
Outcomes(p) == IF p \in OneShot THEN {"ok", "fail", "signal"} ELSE {"signal"}

\* An instance that was told to stop is dead.
Dies(s, p) ==
    \E f \in {"halting", "dying"}, how \in Outcomes(p) :
        /\ sub[s].others[p][f] > 0
        /\ Set(s, Tell(Move(sub[s], p, f, "gone"), Event("stop", p, how)), pipe)

\* A registered instance in one of the phases F ends.
Ends(s, p, F, how) ==
    LET L == sub[s] e == Event("stop", p, how) IN
    \/ /\ L.live[p] \in F
       /\ Put(s, Tell([L EXCEPT !.live[p] = "none"], e), pipe)
    \/ \E f \in F : /\ L.others[p][f] > 0
                    /\ Put(s, Tell(Move(L, p, f, "gone"), e), pipe)

OneShotEnds(s, p) ==
    /\ p \in OneShot
    /\ Ends(s, p, {"up"}, "ok")
    /\ UNCHANGED <<emergency, abort, spent>>

Crashes(s, p) ==
    /\ spent.crashes < MaxCrashes
    /\ \E how \in Outcomes(p) \ {"ok"} : Ends(s, p, {"starting", "up"}, how)
    /\ spent' = [spent EXCEPT !.crashes = @ + 1]
    /\ UNCHANGED <<emergency, abort>>

\* The end of the connection; StageZero kills the processes.
Drop(s) ==
    /\ spent.drops < MaxDrops
    /\ sub[s].sock = "open"
    /\ Put(s, [CloseSocket(sub[s]) EXCEPT
                  !.sock = "eof",
                  !.events = Append(sub[s].events, [kind |-> "disconnect"])], pipe)
    /\ spent' = [spent EXCEPT !.drops = @ + 1]
    /\ UNCHANGED <<emergency, abort>>

StageZeroStep(s) ==
    \E p \in Processes[s] : Started(s, p) \/ Dies(s, p) \/ OneShotEnds(s, p)

-----------------------------------------------------------------------------
(* Clients, and Capcom::Abort.                                             *)

\* The messages that a command of client c may put into the pipe of s.
Sends(c, s, kind) ==
    CASE kind = "Start" -> {ChangeAdmin(Nobody, c, "Online")}
      [] kind = "Stop" -> {ChangeAdmin(Nobody, c, "Offline")}
      [] kind = "Restart" -> {Order("Restart", c, {})}
      [] OTHER -> {Order("RestartProcesses", c, D) : D \in SUBSET Processes[s]}

ClientCommand(c, s) ==
    /\ spent.commands < MaxCommands
    /\ \E kind \in Commands[c] : \E m \in Sends(c, s, kind) :
          pipe' = [pipe EXCEPT ![s] = Append(@, m)]
    /\ spent' = [spent EXCEPT !.commands = @ + 1]
    /\ UNCHANGED <<sub, emergency, abort>>

\* Abort's messages are sent, and the coroutine waits for the subsystems.
AbortAll(e, asked) ==
    /\ emergency' = e
    /\ pipe' = [s \in Subsystem |->
                  IF s \in Critical THEN pipe[s]
                  ELSE Append(pipe[s], Order(IF e THEN "EmergencyAbort" ELSE "Abort",
                                             NoClient, {}))]
    /\ abort' = [abort EXCEPT !.asked = asked, !.waiting[e] = @ + 1]
    /\ UNCHANGED sub

ClientAbort(e) ==
    /\ spent.aborts < MaxAborts
    /\ AbortAll(e, abort.asked)
    /\ spent' = [spent EXCEPT !.aborts = @ + 1]

CriticalAbort ==
    /\ abort.asked > 0
    /\ AbortAll(TRUE, abort.asked - 1)
    /\ UNCHANGED spent

AllOffline ==
    \A s \in Subsystem \ Critical : sub[s].admin = "Offline" /\ sub[s].oper = "Offline"

\* StageZero::KillAllProcesses, of the processes of L.
KillAll(L) ==
    LET all(p, f) == L.others[p][f] + IF L.live[p] = f THEN 1 ELSE 0 IN
    [L EXCEPT
       !.live = [p \in Process |-> "none"],
       !.others = [p \in Process |->
          [f \in Phase |-> CASE f = "halting" -> @[p][f] + all(p, "starting")
                             [] f = "dying" -> @[p][f] + all(p, "up")
                             [] OTHER -> 0]]]

\* The computes with a connected main umbilical, R, kill the processes; only an
\* emergency kills those of a critical subsystem.
AbortKills(e) ==
    /\ abort.waiting[e] > 0
    /\ AllOffline
    /\ \E R \in SUBSET Subsystem :
         LET hit(s) == s \in R /\ (e \/ s \notin Critical) /\ sub[s].sock = "open"
         IN  sub' = [s \in Subsystem |->
                IF hit(s)
                THEN KillAll(sub[s]) ELSE sub[s]]
    /\ abort' = [abort EXCEPT !.waiting[e] = @ - 1]
    /\ UNCHANGED <<pipe, emergency, spent>>

-----------------------------------------------------------------------------
Next ==
    \/ \E s \in Subsystem :
          \/ \E i \in Slot : StateStep(s, i) \/ LaunchFails(s, i)
          \/ ConnectorConnects(s) \/ ConnectorQuits(s) \/ CrashTimer(s)
          \/ StageZeroStep(s) \/ Drop(s)
          \/ \E p \in Processes[s] : Crashes(s, p)
          \/ \E c \in Client : s \in Targets[c] /\ ClientCommand(c, s)
    \/ \E e \in BOOLEAN : ClientAbort(e) \/ AbortKills(e)
    \/ CriticalAbort

Spec == Init /\ [][Next]_vars

\* Capcom's scheduler runs every coroutine that can run; the delays end, a
\* reachable StageZero accepts the connection, and a process that was launched
\* or told to stop starts or dies.
Fairness ==
    /\ \A s \in Subsystem :
          /\ \A i \in Slot : WF_vars(StateStep(s, i))
          /\ WF_vars(ConnectorConnects(s)) /\ WF_vars(ConnectorQuits(s))
          /\ WF_vars(CrashTimer(s))
          /\ \A p \in Processes[s] : WF_vars(Started(s, p)) /\ WF_vars(Dies(s, p))
    /\ \A e \in BOOLEAN : WF_vars(AbortKills(e))
    /\ WF_vars(CriticalAbort)

FairSpec == Spec /\ Fairness

-----------------------------------------------------------------------------
(* Properties.                                                             *)

\* Every variable has its type.
TypeOK ==
    /\ sub \in [Subsystem -> Local]
    /\ pipe \in [Subsystem -> Seq(Message)]
    /\ emergency \in BOOLEAN
    /\ abort \in [asked : Nat, waiting : [BOOLEAN -> Nat]]
    /\ spent \in [commands : Nat, crashes : Nat, drops : Nat, aborts : Nat]

\* The coroutines of s have run the prologue of their state, and none waits to
\* restart.
Settled(s) == \A i \in Slot : sub[s].co[i].at \in {"dead", "run"}

\* The umbilical of a subsystem has one reference for every process that may be
\* connected, and it is closed exactly when it has none: reconnecting, stopping
\* and losing StageZero in any order neither leak a reference, which would keep
\* the connection open for ever, nor drop it under a process (umbilical.cc).
RefsCountConnections ==
    \A s \in Subsystem :
        /\ sub[s].maybe \subseteq Processes[s]
        /\ sub[s].refs = Cardinality(sub[s].maybe)
        /\ sub[s].umb = "closed" <=> sub[s].refs = 0

\* How many instances of p StageZero runs or kills for s.
Instances(s, p) ==
    LET O == sub[s].others[p] IN
    (IF sub[s].live[p] = "none" THEN 0 ELSE 1)
        + O["starting"] + O["up"] + O["halting"] + O["dying"]

\* However a subsystem gets there (a stop, an abort, an interactive exit, a start
\* that is given up), offline leaves nothing behind: no process that Capcom
\* believes to run, none that StageZero runs, no connection.
OfflineIsClean ==
    \A s \in Subsystem :
        sub[s].oper = "Offline" /\ Settled(s) =>
            /\ sub[s].running = {}
            /\ sub[s].umb = "closed"
            /\ \A p \in Process : Instances(s, p) = 0

\* An online subsystem knows of every process that StageZero runs or kills for it:
\* whatever a retried launch, a lost connection or a restart left behind, it is an
\* instance of a process that Capcom believes to run.
KnowsItsProcesses ==
    \A s \in Subsystem :
        sub[s].oper = "Online" /\ Settled(s) =>
            \A p \in Processes[s] : Instances(s, p) > 0 => p \in sub[s].running

\* A subsystem goes online only when StageZero has reported that each of its
\* processes runs; a oneshot need not run any more.
OnlineMeansRunning ==
    [][\A s \in Subsystem :
          sub[s].oper # "Online" /\ sub'[s].oper = "Online" =>
              Processes[s] \ OneShot \subseteq sub'[s].running]_vars

\* The two places that restart a subsystem compare num_restarts_ with the limit
\* for equality: no sequence of crashes and failed launches gets past it, and a
\* subsystem that can break for no other reason (a broken child, a failed
\* oneshot) is broken only when it has used its restarts up.
RestartsLimited ==
    \A s \in Subsystem :
        /\ sub[s].restarts <= MaxRestarts
        /\ sub[s].oper = "Broken" =>
              \/ sub[s].restarts = MaxRestarts
              \/ Children[s] # {} \/ Processes[s] \cap OneShot # {}

\* The same for the restarts of one process, which a stop resets.
AttemptsLimited ==
    \A s \in Subsystem :
        /\ \A p \in Process : sub[s].tries[p] <= MaxProcRestarts
        /\ Policy[s] = "processOnly" /\ sub[s].oper = "Degraded" =>
              \E p \in Processes[s] : sub[s].tries[p] = MaxProcRestarts

\* The crash alarm of a process is cleared when the process runs again, and a
\* degraded subsystem has an alarm that tells why.
AlarmsTell ==
    \A s \in Subsystem :
        /\ sub[s].alarm \cap sub[s].running = {}
        /\ sub[s].oper = "Degraded" => sub[s].alarm # {}

\* While no connection is lost, a process that Capcom believes to run is one that
\* StageZero runs or kills, or whose end Capcom has still to read: no stop event
\* is forgotten, and the waits for "all stopped" end.
RunningIsReal ==
    \A s \in Subsystem : \A p \in sub[s].running :
        \/ Instances(s, p) > 0
        \/ \E k \in DOMAIN sub[s].events :
              LET e == sub[s].events[k] IN e.kind = "stop" /\ e.proc = p

\* A subsystem launches a process only when every subsystem it depends on is
\* online with all its processes running.
ChildrenFirst ==
    [][\A s \in Subsystem : \A p \in Processes[s] :
          sub[s].live[p] = "none" /\ sub'[s].live[p] = "starting" =>
              \A t \in Children[s] :
                  sub[t].oper = "Online" /\ Processes[t] \subseteq sub[t].running]_vars

\* A subsystem that should be online is one that some client wants: the commands
\* of several clients, sent to it and through its parents, never leave it
\* administratively online for nobody.
OnlineIsWanted ==
    \A s \in Subsystem : sub[s].admin = "Online" => sub[s].active # {}

\* Under the automatic policy no sequence of commands, crashes and failed
\* launches leaves a subsystem with one process in a transient state.
Settles ==
    \A s \in Subsystem :
        Policy[s] = "automatic" => []<>(sub[s].oper \in {"Offline", "Online", "Broken"})

\* Under the policy processOnly a crashed process runs again, or the subsystem
\* has given up or was stopped.
RetriesCrashed ==
    \A s \in Subsystem : \A p \in Processes[s] :
        Policy[s] = "processOnly" =>
            (p \in sub[s].alarm ~>
                p \in sub[s].running \/ sub[s].oper \in {"Degraded", "Broken", "Offline"})

\* A subsystem that no client wants any more goes down, whatever crashes on the
\* way.
StopsUnwanted ==
    \A s \in Subsystem :
        []<>(sub[s].active = {} => sub[s].oper \in {"Offline", "Broken", "Degraded"})

-----------------------------------------------------------------------------
(* What the documentation says and the code does not do.                   *)

\* "A oneshot that exits while in this state is counted as a process that is
\* running for the purposes of leaving the state" (StartingProcesses): no
\* subsystem stays there once its other processes run.
OneShotCounts ==
    \A s \in Subsystem :
        LET ended == {p \in Processes[s] \cap OneShot : sub[s].exit[p] = "ok"}
        IN  ~ /\ sub[s].oper = "StartingProcesses"
              /\ Settled(s)
              /\ ended # {}
              /\ Processes[s] \subseteq sub[s].running \cup ended

\* "Stopping a subsystem will also being down its dependencies, unless they are
\* needed by another running subsystem" (README): no dependency of an online
\* subsystem is offline.
NeededStaysUp ==
    \A s \in Subsystem : sub[s].oper = "Online" =>
        \A t \in Children[s] : sub[t].oper # "Offline"

\* "If a process crashes, Capcom will stop all the other processes in its
\* subsystem ... before attempting to restart the subsystems, subject to restart
\* limits" (README): a restart ends.
RestartEnds ==
    \A s \in Subsystem :
        sub[s].oper = "Restarting" ~> sub[s].oper \in {"Online", "Broken", "Offline"}

\* The same for a subsystem that others depend on: its restart ends, too.
ChildRestartEnds ==
    \A s \in Subsystem :
        Parents(s) # {} =>
            (sub[s].oper = "Restarting" ~> sub[s].oper \in {"Online", "Broken", "Offline"})

\* "Process already exists so it is already running.  Report an start event for
\* it" (HandleLaunchStaticProcess): StageZero never runs two instances of a process.
OneInstance ==
    \A s \in Subsystem : \A p \in Processes[s] : Instances(s, p) <= 1

\* "Make sure all the subsystems are admin offline, oper offline" (Capcom::Abort):
\* the wait ends, unless a client starts a subsystem meanwhile.
AbortCompletes ==
    \A e \in BOOLEAN :
        []<>(\/ abort.waiting[e] = 0
             \/ \E s \in Subsystem \ Critical : sub[s].active # {})

=============================================================================
