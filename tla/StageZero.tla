----------------------------- MODULE StageZero -----------------------------
(***************************************************************************)
(* The lives of processes in one StageZero (src/stagezero): how they are   *)
(* launched (static processes, zygotes, virtual processes forked by a      *)
(* zygote), watched, stopped, killed and reported to clients.              *)
(*                                                                         *)
(* StageZero is one thread of coroutines: an action is what one coroutine  *)
(* does between two suspensions.  The coroutines are the handler of each   *)
(* client, the waiter of each process, the stopper of a process being      *)
(* stopped and the acceptor of each zygote.  Processes are the operating   *)
(* system's and do what they like.                                         *)
(***************************************************************************)
EXTENDS Naturals, Sequences, FiniteSets

CONSTANTS
    Process,     \* process instances; one instance is launched once
    Client,      \* connections of clients; a new connection is a new client
    None,
    Zygote, Virtual,      \* kinds; the others are static processes
    ZygoteName,           \* [Zygote -> names], [Virtual -> names]
    Notify,      \* opts.notify: the process writes when it has started
    Detached,    \* opts.detached: outlives its client
    Critical,    \* spared by an abort that is not an emergency
    Telemetry, IntTimeout, TermTimeout,  \* which stop stages have a timeout
    MaxLaunches  \* bound: how many of the processes are launched

ASSUME KindsAssumption ==
    /\ Zygote \cup Virtual \subseteq Process /\ Zygote \cap Virtual = {}
    /\ Zygote \subseteq Notify  \* src/stagezero/client/client.cc sets it
    /\ None \notin Process \cup Client
    /\ MaxLaunches \in Nat

VARIABLES
    proc,      \* Process objects and what the kernel knows of the process
    procs,     \* StageZero::processes_
    mine,      \* ClientHandler::processes_
    zygotes,   \* StageZero::zygotes_, by name
    virtuals,  \* StageZero::virtual_processes_
    zyg,       \* Zygote objects: acceptor, children, unread death notices
    client,    \* ClientHandler objects
    up         \* "up", "dying" (an emergency abort was served), "down"

vars == <<proc, procs, mine, zygotes, virtuals, zyg, client, up>>

Names == {ZygoteName[z] : z \in Zygote}
Dead == {"zombie", "reaped"}

\* A Process object before its launch.
NewProcess ==
    [os |-> "none", running |-> TRUE, stopping |-> FALSE, wrote |-> FALSE,
     waiter |-> "none", stopper |-> "none", owner |-> None, death |-> "none",
     told |-> <<>>]

Init ==
    /\ proc = [p \in Process |-> NewProcess]
    /\ procs = {} /\ virtuals = {}
    /\ mine = [c \in Client |-> {}]
    /\ zygotes = [n \in Names |-> None]
    /\ zyg = [z \in Zygote |-> [acceptor |-> "none", children |-> {}, notices |-> {}]]
    /\ client = [c \in Client |-> [handler |-> "none", channel |-> FALSE,
                                   here |-> FALSE, launching |-> None, victims |-> {}]]
    /\ up = "up"

Alive(p) == proc[p].os = "alive"
ZygoteOf(v) == zygotes[ZygoteName[v]]

\* A startup timeout ends in a read of the notify pipe that blocks the
\* thread until the process writes or exits.
Stuck == \E p \in Process :
            proc[p].waiter = "read" /\ Alive(p) /\ ~proc[p].wrote

\* StageZero can run a coroutine.
Runs == up # "down" /\ ~Stuck

----------------------------------------------------------------------------
(* Removing processes from the maps.                                       *)

\* RemoveProcess stops at the first map that lacks the process.
Removed(S) == {p \in S : /\ p \in mine[proc[p].owner]
                         /\ p \in Zygote => zygotes[ZygoteName[p]] # None}

NamesLess(zs) == [n \in Names |-> IF \E z \in zs : ZygoteName[z] = n THEN None ELSE zygotes[n]]

RemoveProcess(S) ==
    /\ mine' = [c \in Client |-> mine[c] \ S]
    /\ procs' = procs \ Removed(S)
    /\ zygotes' = NamesLess(Removed(S) \cap Zygote)
    /\ UNCHANGED virtuals

\* (mutant) The owner's map is forgotten.
TryRemoveOnce(p) ==
    /\ procs' = procs \ {p}
    /\ zygotes' = NamesLess({p} \cap Zygote)
    /\ UNCHANGED <<mine, virtuals>>

\* TryRemoveProcess: whatever is there goes, and the zygote of that name.
TryRemoveProcess(p) ==
    /\ mine' = [c \in Client |-> mine[c] \ {p}]
    /\ procs' = procs \ {p}
    /\ zygotes' = NamesLess({p} \cap Zygote)
    /\ UNCHANGED virtuals

----------------------------------------------------------------------------
(* Events.  They go to the owner, once its event channel is open, or to    *)
(* every client if the process is detached.                                *)

CanTell(p) == p \in Detached \/ client[proc[p].owner].channel

Told(r, p, what) == IF CanTell(p) THEN [r EXCEPT !.told = Append(@, what)] ELSE r

----------------------------------------------------------------------------
(* Killing and stopping.                                                   *)

Killed(r) == IF r.os = "alive" THEN [r EXCEPT !.os = "zombie"] ELSE r

\* KillNow on each process of S: SIGKILL and out of the maps.
KillNow(S) ==
    /\ proc' = [p \in Process |-> IF p \in S THEN Killed(proc[p]) ELSE proc[p]]
    /\ RemoveProcess(S)

\* (mutant) No stopper.
StoppingUnwatched(r) == [r EXCEPT !.stopping = TRUE]

\* Stop: the stopper coroutine takes it from here; out of the maps now.
Stopping(r) ==
    IF r.stopping THEN r ELSE [r EXCEPT !.stopping = TRUE, !.stopper = "begin"]

Stop(p, r) ==
    /\ proc' = [proc EXCEPT ![p] = Stopping(r)]
    /\ IF r.stopping
       THEN UNCHANGED <<mine, procs, zygotes, virtuals>>
       ELSE RemoveProcess({p})

\* The stages of a stop that have a timeout, in order, then SIGKILL.
Stages(p) == (IF p \in Telemetry THEN <<"telemetry">> ELSE <<>>)
             \o (IF p \in IntTimeout THEN <<"int">> ELSE <<>>)
             \o (IF p \in TermTimeout THEN <<"term">> ELSE <<>>)

StageAfter(p, s) ==
    LET all == <<"begin">> \o Stages(p) \o <<"kill">>
    IN  all[1 + CHOOSE i \in 1..Len(all) : all[i] = s]

\* (mutant) The last stage only waits.
EnterMildly(r, s) == [r EXCEPT !.stopper = IF s = "kill" THEN "done" ELSE s]

\* Enters a stage; the last one kills what is believed to run.
Enter(r, s) ==
    IF s # "kill" THEN [r EXCEPT !.stopper = s]
    ELSE [IF r.running THEN Killed(r) ELSE r EXCEPT !.stopper = "done"]

\* One suspension of the stopper: the process died, or the stage's timeout
\* (if the stage waits at all) has passed.
StopperRuns(p) ==
    LET r == proc[p] IN
    /\ Runs
    /\ r.stopper \in {"begin", "telemetry", "int", "term"}
    /\ \/ /\ IF r.stopper = "begin" THEN ~r.running
             ELSE r.stopper # "term" /\ r.os \in Dead
          /\ proc' = [proc EXCEPT ![p].stopper = "done"]
       \/ /\ r.stopper = "begin" => r.running
          /\ r.os \in Dead => r.stopper \in {"begin", "term"}
          /\ proc' = [proc EXCEPT ![p] = Enter(r, StageAfter(p, r.stopper))]
    /\ UNCHANGED <<procs, mine, zygotes, virtuals, zyg, client, up>>

----------------------------------------------------------------------------
(* The operating system: a process writes its startup notification, exits, *)
(* and is reaped by its zygote's monitor or, without one, by init.  What   *)
(* the processes do once StageZero is gone is not modelled.                *)

Notifies(p) ==
    /\ up # "down" /\ Alive(p) /\ p \in Notify /\ ~proc[p].wrote
    /\ proc' = [proc EXCEPT ![p].wrote = TRUE]
    /\ UNCHANGED <<procs, mine, zygotes, virtuals, zyg, client, up>>

Exits(p) ==
    /\ up # "down" /\ Alive(p)
    /\ proc' = [proc EXCEPT ![p] = Killed(@)]
    /\ UNCHANGED <<procs, mine, zygotes, virtuals, zyg, client, up>>

MotherOf(v) == {z \in Zygote : v \in zyg[z].children}
HasMother(v) == \E z \in MotherOf(v) : Alive(z)

MonitorReaps(z, v) ==
    /\ up # "down" /\ Alive(z) /\ v \in zyg[z].children /\ proc[v].os = "zombie"
    /\ proc' = [proc EXCEPT ![v].os = "reaped"]
    /\ zyg' = [zyg EXCEPT ![z].notices = @ \cup {v}]
    /\ UNCHANGED <<procs, mine, zygotes, virtuals, client, up>>

InitReaps(v) ==
    /\ up # "down" /\ v \in Virtual /\ proc[v].os = "zombie" /\ ~HasMother(v)
    /\ proc' = [proc EXCEPT ![v].os = "reaped"]
    /\ UNCHANGED <<procs, mine, zygotes, virtuals, zyg, client, up>>

----------------------------------------------------------------------------
(* Static processes and zygotes: the coroutine StartInternal spawns.       *)

\* Tells the start, unless the startup went wrong, and waits for the exit;
\* a start that cannot be told ends the coroutine.
Watch(r, p, tell) ==
    IF tell /\ ~CanTell(p) THEN [r EXCEPT !.waiter = "done"]
    ELSE [IF tell THEN Told(r, p, "start") ELSE r EXCEPT !.waiter = "wait"]

\* (mutant) Every coroutine tells the start.
AlwaysSays(p) == TRUE

\* A zygote's start is told by its acceptor.
SaysStart(p) == p \notin Zygote

\* The first run of the coroutine: at once, or when the notify pipe has the
\* notification or is at its end.
Started(p) ==
    /\ Runs /\ p \notin Virtual /\ proc[p].waiter = "begin"
    /\ p \in Notify => proc[p].wrote \/ ~Alive(p)
    /\ proc' = [proc EXCEPT ![p] =
                  Watch(@, p, SaysStart(p) /\ (p \in Notify => proc[p].wrote))]
    /\ UNCHANGED <<procs, mine, zygotes, virtuals, zyg, client, up>>

\* No notification in time: stop it, say nothing, and read the pipe.
StartupTimesOut(p) ==
    /\ Runs /\ p \notin Virtual /\ proc[p].waiter = "begin"
    /\ p \in Notify /\ ~proc[p].wrote /\ Alive(p)
    /\ Stop(p, [proc[p] EXCEPT !.waiter = "read"])
    /\ UNCHANGED <<zyg, client, up>>

ReadReturns(p) ==
    /\ up # "down" /\ proc[p].waiter = "read"
    /\ proc[p].wrote \/ ~Alive(p)
    /\ proc' = [proc EXCEPT ![p] = Watch(@, p, FALSE)]
    /\ UNCHANGED <<procs, mine, zygotes, virtuals, zyg, client, up>>

\* (mutant) The exit of a process that was stopped is not told.
SeesOnlyCrash(p) ==
    /\ Runs /\ p \notin Virtual /\ proc[p].waiter = "wait" /\ proc[p].os = "zombie"
    /\ LET r == [proc[p] EXCEPT !.running = FALSE, !.os = "reaped", !.waiter = "done"]
       IN  proc' = [proc EXCEPT ![p] = IF r.stopping THEN r ELSE Told(r, p, "stop")]
    /\ TryRemoveProcess(p)
    /\ UNCHANGED <<zyg, client, up>>

\* WaitLoop returns: reap, forget, tell the stop.
SeesExit(p) ==
    /\ Runs /\ p \notin Virtual /\ proc[p].waiter = "wait" /\ proc[p].os = "zombie"
    /\ proc' = [proc EXCEPT ![p] =
                  Told([@ EXCEPT !.running = FALSE, !.os = "reaped", !.waiter = "done"],
                       p, "stop")]
    /\ TryRemoveProcess(p)
    /\ UNCHANGED <<zyg, client, up>>

----------------------------------------------------------------------------
(* Zygotes: the acceptor.                                                  *)

\* The zygote connects after it has written its notification; the
\* connection can still be accepted when the zygote is dead.
Accepts(z) ==
    /\ Runs /\ zyg[z].acceptor = "accept" /\ proc[z].wrote
    /\ LET heard == client[proc[z].owner].channel IN
       /\ proc' = IF heard THEN [proc EXCEPT ![z].told = Append(@, "start")] ELSE proc
       /\ zyg' = [zyg EXCEPT ![z].acceptor = IF heard THEN "read" ELSE "deaf"]
    /\ UNCHANGED <<procs, mine, zygotes, virtuals, client, up>>

\* A death notice goes to the virtual process of that pid.
Relays(z, v) ==
    /\ Runs /\ zyg[z].acceptor = "read" /\ v \in zyg[z].notices
    /\ zyg' = [zyg EXCEPT ![z].notices = @ \ {v}]
    /\ proc' = IF v \in virtuals /\ proc[v].death = "none"
               THEN [proc EXCEPT ![v].death = "status"] ELSE proc
    /\ UNCHANGED <<procs, mine, zygotes, virtuals, client, up>>

\* The end of the pipe: the zygote is gone, and with it all news of its
\* virtual processes.
LosesZygote(z) ==
    /\ Runs /\ zyg[z].acceptor = "read" /\ zyg[z].notices = {} /\ ~Alive(z)
    /\ zyg' = [zyg EXCEPT ![z].acceptor = "done"]
    /\ proc' = [p \in Process |->
                  IF p \in zyg[z].children /\ proc[p].death = "none"
                  THEN [proc[p] EXCEPT !.death = "eof"] ELSE proc[p]]
    /\ UNCHANGED <<procs, mine, zygotes, virtuals, client, up>>

----------------------------------------------------------------------------
(* Virtual processes: the coroutine VirtualProcess::Start spawns.          *)

\* Its first run tells the start.
BeginsWatch(v) ==
    /\ Runs /\ v \in Virtual /\ proc[v].waiter = "begin"
    /\ proc' = [proc EXCEPT ![v] = Watch(@, v, TRUE)]
    /\ UNCHANGED <<procs, mine, zygotes, virtuals, zyg, client, up>>

\* (mutants) A process out of reach is not stopped; its stop is told again.
HearsDeathOnly(v) ==
    LET r == [proc[v] EXCEPT !.waiter = "done"] IN
    /\ Runs /\ v \in Virtual /\ proc[v].waiter = "wait" /\ proc[v].death # "none"
    /\ virtuals' = virtuals \ {v}
    /\ proc' = [proc EXCEPT ![v] = Told(r, v, "stop")]
    /\ zyg' = [z \in Zygote |-> [zyg[z] EXCEPT !.children = @ \ {v}]]
    /\ UNCHANGED <<procs, mine, zygotes, client, up>>

HearsAgain(v) ==
    /\ Runs /\ v \in Virtual /\ proc[v].waiter = "wait" /\ proc[v].death # "none"
    /\ proc' = [proc EXCEPT ![v] = Told(@, v, "stop")]
    /\ UNCHANGED <<procs, mine, zygotes, virtuals, zyg, client, up>>

\* Its zygote has said that it died, or has died itself: then the process
\* is stopped and reported as stopped.  running_ stays, and so does the
\* entry in processes_ unless it was stopped.
HearsDeath(v) ==
    LET r == [proc[v] EXCEPT !.waiter = "done"] IN
    /\ Runs /\ v \in Virtual /\ proc[v].waiter = "wait" /\ proc[v].death # "none"
    /\ \/ /\ proc[v].death = "status"
          /\ virtuals' = virtuals \ {v}
          /\ proc' = [proc EXCEPT ![v] = Told(r, v, "stop")]
          /\ UNCHANGED <<mine, procs, zygotes>>
       \/ proc[v].death = "eof" /\ Stop(v, Told(r, v, "stop"))
    /\ zyg' = [z \in Zygote |-> [zyg[z] EXCEPT !.children = @ \ {v}]]
    /\ UNCHANGED <<client, up>>

----------------------------------------------------------------------------
(* Clients: their connections and the handlers of their requests.          *)

Idle(c) == Runs /\ client[c].here /\ client[c].handler = "idle"

Connects(c) ==
    /\ Runs /\ client[c].handler = "none"
    /\ client' = [client EXCEPT ![c].handler = "idle", ![c].here = TRUE]
    /\ UNCHANGED <<proc, procs, mine, zygotes, virtuals, zyg, up>>

\* The event channel is accepted by a coroutine of its own, some time after
\* the client may send requests.
OpensChannel(c) ==
    /\ Runs /\ client[c].here /\ ~client[c].channel
    /\ client' = [client EXCEPT ![c].channel = TRUE]
    /\ UNCHANGED <<proc, procs, mine, zygotes, virtuals, zyg, up>>

Leaves(c) ==
    /\ up # "down" /\ client[c].here
    /\ client' = [client EXCEPT ![c].here = FALSE]
    /\ UNCHANGED <<proc, procs, mine, zygotes, virtuals, zyg, up>>

\* (mutant) Zygotes outlive their client.
HandlerEndsMildly(c) ==
    /\ Runs /\ client[c].handler = "idle" /\ ~client[c].here
    /\ client' = [client EXCEPT ![c].handler = "ended"]
    /\ KillNow(mine[c] \ (Detached \cup Zygote))
    /\ UNCHANGED <<zyg, up>>

\* Run returns at the end of the command channel, never inside a request.
HandlerEnds(c) ==
    /\ Runs /\ client[c].handler = "idle" /\ ~client[c].here
    /\ client' = [client EXCEPT ![c].handler = "ended"]
    /\ KillNow(mine[c] \ Detached)
    /\ UNCHANGED <<zyg, up>>

\* The processes are new, and not too many (bound).
MayLaunch(p) ==
    proc[p].os = "none" /\ Cardinality({q \in Process : proc[q].os # "none"}) < MaxLaunches

AddProcess(c, p) ==
    /\ procs' = procs \cup {p}
    /\ mine' = [mine EXCEPT ![c] = @ \cup {p}]

Launched(c) == [NewProcess EXCEPT !.os = "alive", !.owner = c, !.waiter = "begin"]

\* The child dies before it reports on the startup pipe: the launch fails,
\* its object is dropped and nothing waits for the child.
LaunchFails(c, p) ==
    /\ Idle(c) /\ p \notin Virtual /\ MayLaunch(p)
    /\ proc' = [proc EXCEPT ![p] = [NewProcess EXCEPT !.os = "zombie"]]
    /\ UNCHANGED <<procs, mine, zygotes, virtuals, zyg, client, up>>

HandleLaunchStaticProcess(c, p) ==
    /\ Idle(c) /\ p \notin Zygote \cup Virtual /\ MayLaunch(p)
    /\ proc' = [proc EXCEPT ![p] = Launched(c)]
    /\ AddProcess(c, p)
    /\ UNCHANGED <<zygotes, virtuals, zyg, client, up>>

\* A zygote whose name is taken runs, but only processes_ knows it.
HandleLaunchZygote(c, z) ==
    /\ Idle(c) /\ z \in Zygote /\ MayLaunch(z)
    /\ proc' = [proc EXCEPT ![z] = Launched(c)]
    /\ zyg' = [zyg EXCEPT ![z].acceptor = "accept"]
    /\ IF zygotes[ZygoteName[z]] = None
       THEN /\ AddProcess(c, z)
            /\ zygotes' = [zygotes EXCEPT ![ZygoteName[z]] = z]
       ELSE procs' = procs \cup {z} /\ UNCHANGED <<mine, zygotes>>
    /\ UNCHANGED <<virtuals, client, up>>

\* The zygote forks the process; with notify the handler itself waits for
\* the notification, and the maps have to wait too.
HandleLaunchVirtualProcess(c, v) ==
    LET z == ZygoteOf(v) IN
    /\ Idle(c) /\ v \in Virtual /\ MayLaunch(v)
    /\ z # None /\ zyg[z].acceptor \in {"read", "deaf"} /\ Alive(z)
    /\ virtuals' = virtuals \cup {v}
    /\ zyg' = [zyg EXCEPT ![z].children = @ \cup {v}]
    /\ IF v \in Notify
       THEN /\ proc' = [proc EXCEPT ![v] = [Launched(c) EXCEPT !.waiter = "none"]]
            /\ client' = [client EXCEPT ![c].handler = "launch", ![c].launching = v]
            /\ UNCHANGED <<procs, mine>>
       ELSE /\ proc' = [proc EXCEPT ![v] = Launched(c)]
            /\ AddProcess(c, v)
            /\ UNCHANGED client
    /\ UNCHANGED <<zygotes, up>>

\* The rest of the handler.  On a timeout the process is stopped before it
\* is in any map, put into the maps, and left without a coroutine to tell
\* anything of it.
LaunchReturns(c) ==
    LET v == client[c].launching IN
    /\ Runs /\ client[c].handler = "launch"
    /\ \/ proc[v].wrote /\ proc' = [proc EXCEPT ![v].waiter = "begin"]
       \/ ~proc[v].wrote /\ proc' = [proc EXCEPT ![v] = Stopping(@)]
    /\ AddProcess(c, v)
    /\ client' = [client EXCEPT ![c].handler = "idle", ![c].launching = None]
    /\ UNCHANGED <<zygotes, virtuals, zyg, up>>

\* Any client may stop any process.
HandleStopProcess(c, p) ==
    /\ Idle(c) /\ p \in procs /\ ~proc[p].stopping
    /\ Stop(p, proc[p])
    /\ UNCHANGED <<zyg, client, up>>

\* Kill, and wait for all that were killed.
HandleAbort(c, emergency) ==
    LET victims == IF emergency THEN procs ELSE procs \ Critical IN
    /\ Idle(c) /\ victims # {}
    /\ KillNow(victims)
    /\ client' = [client EXCEPT ![c].handler = IF emergency THEN "emergency" ELSE "abort",
                                ![c].victims = victims]
    /\ UNCHANGED <<zyg, up>>

AbortReturns(c) ==
    /\ Runs /\ client[c].handler \in {"abort", "emergency"}
    /\ \A p \in client[c].victims : ~proc[p].running
    /\ up' = IF client[c].handler = "emergency" THEN "dying" ELSE up
    /\ client' = [client EXCEPT ![c].handler = "idle", ![c].victims = {}]
    /\ UNCHANGED <<proc, procs, mine, zygotes, virtuals, zyg>>

\* An emergency abort takes StageZero down one second later; Stop() makes
\* Run() return, which kills what is in the maps.
StageZeroDies ==
    /\ Runs /\ up = "dying" /\ up' = "down"
    /\ UNCHANGED <<proc, procs, mine, zygotes, virtuals, zyg, client>>

StageZeroStops ==
    /\ Runs /\ up' = "down"
    /\ KillNow(procs)
    /\ UNCHANGED <<zyg, client>>

----------------------------------------------------------------------------
Waits(p) ==
    \/ Started(p) \/ StartupTimesOut(p) \/ ReadReturns(p) \/ SeesExit(p)
    \/ BeginsWatch(p) \/ HearsDeath(p)

Acceptor(z) == LosesZygote(z) \/ \E v \in Virtual : Relays(z, v)

Reaps == \E v \in Virtual : InitReaps(v) \/ \E z \in Zygote : MonitorReaps(z, v)

Handles(c) ==
    \/ \E p \in Process : \/ LaunchFails(c, p) \/ HandleLaunchStaticProcess(c, p)
                          \/ HandleLaunchZygote(c, p) \/ HandleLaunchVirtualProcess(c, p)
                          \/ HandleStopProcess(c, p)
    \/ \E emergency \in BOOLEAN : HandleAbort(c, emergency)

Next ==
    \/ \E p \in Process : Notifies(p) \/ Exits(p) \/ Waits(p) \/ StopperRuns(p)
    \/ \E z \in Zygote : Accepts(z) \/ Acceptor(z)
    \/ Reaps
    \/ \E c \in Client : \/ Connects(c) \/ OpensChannel(c) \/ Leaves(c) \/ HandlerEnds(c)
                         \/ Handles(c) \/ LaunchReturns(c) \/ AbortReturns(c)
    \/ StageZeroDies \/ StageZeroStops

Spec == Init /\ [][Next]_vars

\* Coroutines that can run do, timers fire, and dead processes are reaped.
\* Nothing makes a process write or exit, or a client do anything.
Fairness ==
    /\ \A p \in Process : WF_vars(Waits(p)) /\ WF_vars(StopperRuns(p))
    /\ \A z \in Zygote : WF_vars(Acceptor(z))
    /\ WF_vars(Reaps) /\ WF_vars(StageZeroDies)
    /\ \A c \in Client : WF_vars(HandlerEnds(c)) /\ WF_vars(LaunchReturns(c))
                         /\ WF_vars(AbortReturns(c))

FairSpec == Spec /\ Fairness

----------------------------------------------------------------------------
(* Properties.                                                             *)

\* The types of the variables.
TypeOK ==
    /\ proc \in [Process -> [os: {"none", "alive"} \cup Dead, running: BOOLEAN,
                             stopping: BOOLEAN, wrote: BOOLEAN,
                             waiter: {"none", "begin", "read", "wait", "done"},
                             stopper: {"none", "begin", "telemetry", "int", "term", "done"},
                             owner: Client \cup {None}, death: {"none", "status", "eof"},
                             told: {<<>>, <<"start">>, <<"stop">>, <<"start", "stop">>,
                                    <<"stop", "start">>}]]
    /\ procs \subseteq Process /\ virtuals \subseteq Virtual
    /\ mine \in [Client -> SUBSET Process]
    /\ zygotes \in [Names -> Zygote \cup {None}]
    /\ zyg \in [Zygote -> [acceptor: {"none", "accept", "read", "deaf", "done"},
                           children: SUBSET Virtual, notices: SUBSET Virtual]]
    /\ client \in [Client -> [handler: {"none", "idle", "launch", "abort", "emergency", "ended"},
                              channel: BOOLEAN, here: BOOLEAN,
                              launching: Virtual \cup {None}, victims: SUBSET Process]]
    /\ up \in {"up", "dying", "down"}

\* StageZero never loses track of a living process: it is in processes_, a
\* stopper is at work on it, or a handler is still launching it.
KeepsTrack ==
    \A p \in Process :
        Alive(p) /\ up # "down" =>
            \/ p \in procs
            \/ proc[p].stopper \in {"begin", "telemetry", "int", "term"}
            \/ \E c \in Client : client[c].launching = p

\* Zygotes are told apart by their names alone.
DistinctZygotes ==
    \A y, z \in Zygote : ZygoteName[y] = ZygoteName[z] => y = z

\* As long as no two zygotes share a name, the three maps agree on a
\* process, though RemoveProcess gives up half way when one lacks it.
MapsAgree ==
    DistinctZygotes =>
        /\ \A c \in Client : mine[c] \subseteq procs
        /\ \A p \in procs : p \in mine[proc[p].owner]
        /\ \A z \in Zygote : z \in procs <=> zygotes[ZygoteName[z]] = z

\* A stop event for a process that runs is sent only for a virtual process
\* whose zygote is dead, and then the process is being stopped.
StopMeansDead ==
    \A p \in Process :
        (\E i \in 1..Len(proc[p].told) : proc[p].told[i] = "stop") /\ Alive(p) =>
            proc[p].death = "eof" /\ proc[p].stopping

\* A process that was stopped, by request or for not starting in time,
\* dies, unless StageZero is gone or blocked in the read of a notify pipe.
StopKills ==
    \A p \in Process : proc[p].stopping ~> (~Alive(p) \/ ~Runs)

\* A zygote whose name another zygote bears may be in processes_ only.
SharesName(p) == p \in Zygote /\ \E z \in Zygote \ {p} : ZygoteName[z] = ZygoteName[p]

\* Nothing a client launched outlives it, unless it is detached or a zygote
\* whose name was taken: the end of its client does not reach that one.
LeavesNothing ==
    \A c \in Client, p \in Process :
        (client[c].handler = "ended" /\ proc[p].owner = c
         /\ p \notin Detached /\ ~SharesName(p))
            ~> (~Alive(p) \/ ~Runs)

\* Nothing at all outlives its client unless it is detached.
AllEndWithClient ==
    \A c \in Client, p \in Process :
        (client[c].handler = "ended" /\ proc[p].owner = c /\ p \notin Detached)
            ~> (~Alive(p) \/ ~Runs)

HasTold(p, what) == \E i \in 1..Len(proc[p].told) : proc[p].told[i] = what

\* The exit of a watched process is told, whether it was stopped or not, if
\* its owner has an event channel; for a virtual process, had one already
\* when its zygote connected.
ExitIsTold ==
    \A p \in Process :
        (/\ proc[p].os \in Dead /\ proc[p].waiter = "wait" /\ CanTell(p)
         /\ \A z \in MotherOf(p) : zyg[z].acceptor # "deaf")
            ~> (HasTold(p, "stop") \/ ~Runs)

\* An abort returns once all that it killed is dead (KillAllProcesses: "Wait
\* for all the processes to stop.").
AbortEnds ==
    \A c \in Client :
        (client[c].handler \in {"abort", "emergency"})
            ~> (client[c].handler \notin {"abort", "emergency"} \/ ~Runs)

----------------------------------------------------------------------------
(* What a client sees of a static or virtual process is a ProcessLife.     *)

Watched == Process \ Zygote

phaseOf == [p \in Watched |->
              CASE proc[p].told \in {<<"stop">>, <<"start", "stop">>} -> "stopped"
                [] proc[p].told = <<"start">> -> "started"
                [] proc[p].told = <<>> /\ proc[p].owner = None -> "none"
                [] proc[p].told = <<>> /\ proc[p].owner # None -> "launched"
                [] OTHER -> "out of order"]

overOf == {p \in Watched : proc[p].owner # None /\ (proc[p].os \in Dead \/ proc[p].death = "eof")}

Life == INSTANCE ProcessLife WITH Process <- Watched, phase <- phaseOf, over <- overOf

\* The events of static and virtual processes follow the protocol of
\* ProcessLife, whatever the interleaving.
TellsALife == Life!Spec
=============================================================================
