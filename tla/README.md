# Formal model of Adastra

Adastra launches and supervises the processes of a robot. **StageZero** runs on
every computer and starts, stops and watches processes. **Capcom** groups
processes in *subsystems*, a directed acyclic graph, and drives each subsystem
through a state machine. **FlightDirector** loads subsystems into Capcom and
switches the robot between modes. Modules (`module/`) are the processes a robot
is made of; Fido is a user interface.

The project models the supervision, from the commands of a client down to the
descriptors of a process: what Capcom does with subsystems, computes and
parameters, what StageZero does with processes and their pipes, and how
FlightDirector loads the one and passes on the events of the other. It states
what these promise, checks it with TLC on small instances, and proves nearly all of
its invariants with TLAPS for all instances. Line numbers below are those of `src/`.

## Inventory

| Component | State | Operations | Interacts through |
|---|---|---|---|
| Capcom subsystem (`capcom/state_machine.cc`, `subsystem.*`) | admin and operational state, active clients, restart counters, one coroutine per state, processes with running, connected, exit, restarts, alarm | eleven states, each with a prologue and handlers of messages and StageZero events | FIFO message pipe per subsystem, StageZero events, parents and children pointers |
| Umbilical (`capcom/umbilical.*`) | closed / connecting / connected, dynamic and static references | precondition, connect, disconnect | StageZero client sockets |
| Capcom server (`capcom/capcom.*`) | computes, main umbilicals, cgroups, subsystems, parameters, client ids, emergency flag | add and remove computes, subsystems and cgroups, abort, parameter propagation, alarms | umbilicals, client handlers |
| Capcom client handler and client | client id, event mask, output | RPCs of clients, events | TCP |
| StageZero server (`stagezero/stagezero.*`, `client_handler.*`) | maps of processes by id, of zygotes by name, handlers, parameters, cgroups | launch, stop, list, upload, kill all | TCP, pipes to processes |
| StageZero process (`stagezero/process.*`), zygote | pid, running and stopping flags, streams, notify pipe | start with notification timeout, stop escalation, wait | fork/exec, signals, zygote socket |
| Streams (`stagezero/process.cc`) | pipes and their descriptors in StageZero, zygote and process | build, redirect, read, write, close | kernel descriptor tables, fork |
| Parameters (`common/parameters.*`, `stagezero/parameters`) | a tree of values at Capcom, one at each StageZero | set, delete, get, upload, event | StageZero client, pipes |
| TCP handler (`common/tcp_client_handler.h`) | event queue, trigger, sender coroutine | queue, flush, stop | sockets |
| FlightDirector (`flight/*`) | graph of subsystems, interfaces, autostarts, event cache | load, check, register, start, stop | Capcom client |
| Module runtime (`module/*`) | subscribers, publishers, timers | run, notify, shutdown | external IPC library |
| Fido, command line tools, capabilities, symbols | displays, text and I/O | | |

What makes each hard, and what makes it correct:

* *Subsystem*: commands of several clients, reports of children, start and stop
  events, delayed restarts and aborts arrive in any order in any of eleven
  states. Correct: online means running, offline leaves nothing behind, children
  run before parents, restarts are bounded and end, a stop stops.
* *Umbilicals*: a connection shared by processes and subsystems, lost at any time,
  counted in two ways. Correct: counted exactly, never closed under a process,
  never leaked, and connected while somebody needs it.
* *StageZero process*: startup timeout, stop escalation, crash, the loss of a zygote
  and the end of the client's connection race. Correct: one start and one stop event
  per process, no living process forgotten, none outlives its client.
* *Streams*: numbers are used again and every child inherits all of them. Correct:
  a descriptor is its own process's, a pipe ends when its process does, and
  everything comes back.
* *Parameters*: several copies, updates from both ends, deletions that take their
  time. Correct: the copies agree, reading changes nothing.
* *TCP handler*: a sender that blocks while events are queued. Correct: none lost,
  none overtaken, no handler left.
* *FlightDirector*: registers while it already serves, over a shared connection, and
  restarts beside other clients. Correct: all registered in order, loops
  refused, autostarts stay up.

`PROJECT.json` lists the hazards line by line, each with the properties about it.

## The modules

| Module | What it is |
|---|---|
| `Subsystem` | The subsystems of a Capcom, their umbilicals, StageZero's processes as Capcom sees them, clients and `Capcom::Abort` |
| `Computes` | Capcom's computes: main umbilicals shared by subsystems, cgroups |
| `Parameters` | The parameter trees of Capcom and of the StageZeros and how changes travel |
| `ProcessLife` | Abstract: what a client of StageZero may be told of its processes |
| `StageZero` | Processes, zygotes and virtual processes in one StageZero; implements `ProcessLife` |
| `Streams` | The pipes and descriptors of these processes |
| `Events` | The event channels of FlightDirector's clients |
| `Flight` | FlightDirector's graph, registration, autostart and commands, over Capcom's client ids |
| `MC<Module>` | The graphs, placements, masks and names that the runs instantiate |
| `SubsystemProofs`, `LimitsProofs`, `ComputesProofs`, `StageZeroProofs`, `StreamsProofs`, `ParametersProofs`, `EventsProofs`, `FlightProofs` | TLAPS proofs about the modules above; `LimitsProofs` builds on `SubsystemProofs` |

The modules meet at interfaces instead of being one state machine, whose state
space nobody could check. `Subsystem` contains StageZero's processes as a few
counters per process: they start, die and end with events in the order that
`ProcessLife` allows, and `StageZero` is shown to implement `ProcessLife`.
`Computes` takes of a subsystem only when it connects and disconnects, `Streams`
takes of a process that it is launched and exits, `Flight` takes of Capcom which
clients a subsystem is active for.

Adastra's servers are single threads of cooperative coroutines: in all modules an
action is what one coroutine does between two suspensions, and processes, clients
and connections act whenever they like. Operators marked *(mutant)* are broken
variants of the definition next to them; no specification uses them, they serve to
check that the properties notice.

### `Subsystem`

Capcom is single-threaded with cooperative coroutines, so the code between two
suspension points is one step. `EnterState` sets the operational state at once
and spawns a coroutine that runs the new state's function. A state is therefore
left in one step (`Goto`) and entered in another (`Enter<State>`: everything the
state function does before `RunSubsystemInState`). Every state handler is an
action, named after state and message (`OnlineChangeAdmin`) or state and event
(`OnlineEvent`); code that a handler runs after its switch is an operator named
`<State>Tail`.

* `sub[s]` is the `Subsystem` object with its processes and umbilical
  (`admin_state_`, `oper_state_`, `active_clients_`, `num_restarts_`,
  `processes_to_restart_`, per process `running_`, `maybe_connected_`,
  `process_id_`, `exited_`/`exit_status_`, `num_restarts_`, `alarm_raised_`), and
  StageZero's side: the socket, the events in it, and the instances of its
  processes. `live[p]` is the instance that `process_id_` names; `others[p]` counts
  the instances with other ids by phase: registered (starting or up) or told to
  stop (halting or dying).
* `sub[s].co` are the state coroutines. Normally there is one. An abort read in
  `WaitForRestart` makes a second one; `Slot` bounds how many the model keeps.
* `pipe[s]` is `message_pipe_`. `emergency` is `emergency_aborting_`; `abort`
  counts coroutines of `Capcom::Abort`. `spent` counts what the bounds limit.
* A subsystem's helpers (`Connect`, `Disconnect`, `StopProcesses`, `Launch`,
  `HandleAdminCommand`, `RestartIfPossible`, `AfterCrash`) are functions from
  one state of a subsystem to the next.

Details of the code that matter and are kept: `Precondition()` always sets
"connecting" and counts a reference; StageZero looks for a running process of
the same name in `processes_by_name_`, which nothing fills, so a second launch
makes a second instance and its id replaces the recorded one; the first call on a broken
connection reads the missing response as success; `BitSet` ignores `kNoClient`;
a message without a state reads as offline; `Broken` uses the client that
brought it there and not the message's; `AllProcessesRunning` tests
`Exited() == 0`.

Abstractions:

* All processes of a subsystem are on one compute, so it has one umbilical.
* The RPCs that launch or stop the processes of a subsystem are one step, so
  what another coroutine does between two of them is not seen.
* StageZero kills the processes of a closed connection at once (`LeavesNothing`
  of `StageZero` says that it does in the end, but for a second zygote of one name: the
  zygotes of a compute are taken to have names of their own). Processes of
  critical subsystems are configured critical, detached processes are not used.
* The connection attempt of `ConnectUmbilical` succeeds in any state of the
  subsystem in which the umbilical still is connecting, which covers an attempt
  in flight when the subsystem leaves `Connecting`.
* Restart delays are nondeterministic; `TestMode()` is false; Capcom's exit one
  second after an emergency abort is not modelled; the graph does not change
  while it runs; output, logs and telemetry are left out.
* A stop event names the process; Capcom's map of process ids never forgets one
  (`DeleteProcessId` erases from the other map), so the lookup never fails.

### `StageZero`

The coroutines are the handler of each client, the waiter of each process
(`StartInternal`, `VirtualProcess::Start`), the stopper of a process (`Stop`) and the
acceptor of each zygote.

* `proc[p]` is a `Process` object: what the kernel knows (`os`), `running_`,
  `stopping_`, whether it has written its notification, where its waiter and its
  stopper are, its owner, how its end was learnt, and the events told of it.
* `procs` is `processes_`, `mine[c]` the client handler's map, `zygotes` and
  `virtuals` the other two maps. `RemoveProcess` stops at the first map that
  lacks the process, as the code does; `TryRemoveProcess` does not.
* `zyg[z]` is a zygote: its acceptor, its children, the death notices not read yet.
  Of a virtual process only its zygote brings news; when the zygote is lost the
  process is stopped and told as stopped although it may still be alive.
* `client[c]` is a handler: idle, launching, aborting, ended; whether its event
  channel is open; whom its abort waits for.

Details kept: after a startup timeout the waiter stops the process and then reads
the notification pipe, which blocks the whole thread until the process writes or
exits (`Stuck`, and `Runs` in the guards); `running_` of a virtual process is never
cleared; a start that cannot be told ends the waiter. Timeouts may pass
whenever they run. Zygotes notify, which is what `stagezero/client` sets
(`KindsAssumption`). A process object is launched once.

`ProcessLife` says what Capcom relies on: of each process, one launch, at most one
start and only before the stop, one stop and only when the process has exited or is
out of reach. `TellsALife == Life!Spec` is the refinement (`phaseOf`, `overOf`).
Zygotes are outside of it: a zygote's start is told by its acceptor, which may run
after its stop.

### `Streams`

`fds` is StageZero's descriptor table, from numbers to ends of pipes; a launch
takes the lowest free numbers in the order in which the code calls `pipe`. `obj[p]` are
the numbers a `Process` object refers to, `held[p]` the ends the process has after
fork, redirection and exec, `reader` and `writing` the coroutines that read its output and
write its input. The kernel decides what a read or write finds. Interactive
terminals and the dispositions that log or name a file are left out. Two oddities are
kept: the descriptor of an FD stream is closed by StageZero after every launch that names it
and may by then be another's, and a CLOSE stream of a virtual process makes the
zygote close the first descriptor of the message. `stale` holds the numbers that
were closed behind an object's back; the properties except them.

### `Parameters`

A tree is a function from names to values, with `Null` for the null pointer that
`operator[]` leaves where a search ends. Every request of Capcom's client
handler and of StageZero's processes is an action. An update goes to Capcom's
tree and to all computes without a suspension; a deletion waits for each compute in turn
(`deleting`, capcom.cc:661); a compute gets everything when it connects. `unsure` is
history: computes that Capcom has left behind by an upload (`SetAllParameters` tells
nobody), a partial deletion, a change in the middle of a deletion, or, when the compute
connected, by what `GetAllParameters` leaves out (`Omits`): a node hidden by null nodes below it,
and the value that a node had before it got children (parameters.cc:99 keeps it,
parameters.cc:260 does not send it), which shows again when the children are deleted. For
all others `CopiesAgree` compares nodes and values exactly, inner nodes included.

`Unset` is the value of a node that nobody gave one. The type of such a `Value` is not initialised
(parameters.h:139), so a request that has to send it may throw: whatever reads a childless
`Unset` node, and the upload to a compute that connects, may end the server. Each compute has one subsystem with processes; local parameters
use the same tree inside one process object and are not modelled.

### `Computes`

`main[c]` is the main umbilical with its references, static references and socket,
`own[s]` the umbilical of a subsystem as far as it goes with the main one, `task[w]` the
coroutines that wait for a connection, `config` and `groups` the cgroups that Capcom has
configured and that StageZero has. `AddUmbilical` may move the others in their
hash map (`Moved`); who waits for one of those, or for one that was removed, is
`dangling`, and what it does then is either a crash of Capcom or nothing. Not modelled: removal of
computes, global variables, freezing, thawing and killing a cgroup.

### `Events`

`TCPClientHandler` as FlightDirector uses it: the cache of the last events, a queue, a trigger
and a sender per client, sockets that hold `Room` events. `HandleInit` reopens the triggers,
so a stop that was not seen is lost; the sender compares the stop trigger with a
duplicate's number, so a stop does not end it (tcp_client_handler.h:271–281), which is why
`Released` excepts handlers that were told to stop.

### `Flight`

`graph` is what is on disk; FlightDirector loads it, refuses or flattens it, and a coroutine
registers it over the same connection that its clients' commands use: whoever waits takes the
next answer (`Answered`). Capcom is its list of clients by number, with requests and
answers, the known subsystems, and for each the clients it is active for (`bitset.h`, with the words
of the bit set: a bit two words past the end is ignored). Parsing of processes and streams,
registration of computes and the requests that only read are left out.

## The runs

`CHECK_DEADLOCK FALSE` everywhere: the budgets of the environment run out and
everything is then at rest.

| Run | Instance | Shows |
|---|---|---|
| `abort` | s1 with p1, p2; critical s2 with p3; two coroutine slots; 2 commands, 1 crash, 1 lost connection, 1 abort | `RefsCountConnections`, `OfflineIsClean`, `KnowsItsProcesses`, `RestartsLimited`, `OnlineMeansRunning` |
| `process_only` | policy processOnly, p1 and oneshot p2, an interactive client, restarts of single processes; 2 commands, 2 crashes | `AttemptsLimited`, `AlarmsTell` |
| `live` | s1 automatic, s2 processOnly, one process each; 3 commands, 2 crashes; fairness | `RunningIsReal`, `Settles`, `RetriesCrashed`, `StopsUnwanted` |
| `shared_child` | s1 and s2 on s3, two clients, one of which restarts subsystems and processes too; 3 commands | `ChildrenFirst`, `OnlineIsWanted` |
| `processes` | a static process with an interrupt stage, a critical zygote, a virtual process, one client; two launches; fairness | `TypeOK`, `KeepsTrack`, `MapsAgree`, `StopMeansDead`, `TellsALife`, `StopKills`, `LeavesNothing`, `ExitIsTold` |
| `streams` | a static process with input and output, a zygote with an FD input, a virtual process with a CLOSE stream; six descriptors; fairness | `OwnPipes`, `WritesAlone`, `Returned`, `NotKeptWaiting` |
| `parameters` | two computes (symmetric), a client, the names `/a` and `/a/b`, two values, four requests | `CopiesAgree`, `ReadsKeepAnswers`, `DiesOfGaps` |
| `computes` | subsystems of two and of one process on one of two computes, one cgroup with two settings; 2 starts, 1 change or failure | `TypeOK`, `OnlyConfigured`, `ClosedWhenUnused`, `ServedAlone` |
| `events` | two clients with different masks, one of which leaves, three events, cache of two, room for one; fairness | `TypeOK`, `NoneMissed`, `Delivered`, `Released` |
| `flight` | all graphs of two subsystems and a subspace with single deps, some with modules or mistakes; two lives, two commands, one handler, one other client that starts; fairness | `TypeOK`, `LoopsRefused`, `AutostartsStay`, `AllRegistered` |
| `needed` (violation) | s1 on s2; 3 commands | `NeededStaysUp` |
| `computes_served` (violation) | two subsystems on one compute; 2 starts, no failure | `ServedByMain` |

**Bounds.** *Subsystem*: with `MaxRestarts = 1` and one crash more than that, broken
and degraded are reached; two commands reach stop during start and start during
stop; three reach a start, stop, start; two clients on two parents are the least
that keep a shared child up. One crash, one drop and one abort each hit every
state, since they may come at any time. `Commands` gives each client the kinds of
command it sends. Messages and events are not bounded: the budgets bound the pipes.
*StageZero*: two launches of three processes give a static process alone, a zygote
with its child, and a static process beside a zygote; every pair of coroutines that
can race is there. *Streams*: five descriptors besides the user's are fewer than
all pipes and duplicates need, so that launches fail for want of them in some orders and numbers are
used again in others. *Parameters*: four requests are a set, a read that leaves a
null node, a deletion and a change that overtakes it. *Computes*: two
subsystems on one compute are the least that share; the second compute makes
adding it move the umbilical of the first; one failure may come anywhere.
*Events*: three events fill the cache and overflow it, and fill the socket, the
sender's hand and the queue. *Flight*: two interfaces and the subspace give every
loop and both orders of registration; a second life is a restart.

**Fairness.** Always weak, and only of coroutines that the scheduler polls when they
are ready and of timers that end. `Subsystem`: each state coroutine, the connecting
coroutines, the delayed restart, `Abort`, and StageZero starting a launched process and
reaping a stopped one (the stop escalation ends in SIGKILL). `StageZero`: waiters,
stoppers and acceptors, handlers that end or return, the reaping of dead processes by
the kernel. `Streams`: readers, writers and the destruction of objects. `Events`: senders,
handlers, and a client that reads as long as it is there. `Flight`: Capcom serves,
FlightDirector's coroutines go on. Nothing is assumed of what clients ask, of
crashes and lost connections, or of processes: none has to write, read or exit.

**Findings.** The two violation runs contradict a sentence of src/README.md;
`PROJECT.json` quotes each.

* `needed`: stop and start read in StartingProcesses leave an online subsystem
  whose admin state is offline; its child obeys the forwarded stop.
* `computes_served`: a compute is added with a static umbilical, which connects; a
  subsystem starts, `Precondition()` marks the main umbilical as connecting, and
  `ConnectUmbilical` has nothing to connect: the subsystem runs with a main
  umbilical that is not `IsConnected()`, and no parameter or cgroup reaches it.

### Where the model shows more than the runs say

These properties are stated in the modules and are false on the instances given here, as
TLC shows; no run of the project contains them. The last three hold, and are checked, on the
instances of the runs `flight`, `abort` and `live`.

| Property | Instance | What happens |
|---|---|---|
| `OneShotCounts` (`Subsystem`) | s1 with p1 and oneshot p2 (`AllInS1`), `StartStop`, 1 command, no crash, `Spec` | A oneshot that ends well before its subsystem leaves StartingProcesses is never counted: subsystem.h:429 tests `Exited() == 0`, against the comment at 427; `OneshotOK` in `capcom_test.cc` reaches the other order only |
| `RestartEnds` (`Subsystem`) | s1 with p1, p2, 1 command, 1 crash, `FairSpec` | After a crash of one of two processes the others keep the umbilical connected, `Precondition()` (umbilical.cc:7) marks it connecting, and nobody connects it: the restart README.md:427 speaks of does not end |
| `ChildRestartEnds` (`Subsystem`) | `Chain`, `OneEach`, `StartOnly`, 1 command, 1 crash, `FairSpec` | A dependency that crashes waits in Restarting for its parent to start it again; the parent acts on that report only when online or offline (state_machine.cc:546 drops it), and both wait |
| `OneInstance` (`Subsystem`) | s1 with p1, p2, 2 commands, 1 crash, `Spec` | `AddProcessByName` is never called, so no launch finds the process that already runs (client_handler.cc:162 looks for it); a retried launch makes a second instance, which only the end of its connection stops |
| `AbortCompletes` (`Subsystem`) | s1 with p1, two slots, 1 command, 1 crash, 1 abort, `FairSpec` | An abort read in `WaitForRestart` leaves two coroutines in one subsystem; the offline one can eat the connect event, and capcom.cc:557 waits for ever |
| `AbortEnds` (`StageZero`) | the instance of `processes` | `KillAllProcesses` waits for `IsRunning()` of a virtual process, which is never cleared (stagezero.cc:243, "Wait for all the processes to stop.") |
| `AllEndWithClient` (`StageZero`) | zygotes z1, z2 of one name and v1, two launches, `FairSpec` | A second zygote of a taken name gets into `processes_` only (client_handler.cc:216): the end of its client does not kill it |
| `CopiesAlwaysAgree` (`Parameters`) | the instance of `parameters` | Set /a, then /a/b, connect a compute, delete /a/b: Capcom answers the old value of /a, the compute has none (parameters.cc:99 and 260). A read that leaves a null node below a parameter hides it from computes that connect; uploads and partial deletions tell no compute; with a second client, a set overtakes a deletion (capcom.cc:661): README.md:549 says that the parameters are distributed to all StageZeros |
| `OnlyWanted` (`Events`) | the instance of `events` | An event that one client wants goes to all (flight_director.cc:820) |
| `AutostartsStay` (`Flight`) | `OutsiderOps = {"start", "stop"}` | The autostart connection's number is free when it closes (comment at flight_director.cc:111); the client that gets it and stops a subsystem clears the autostart's bit |
| `KnowsItsProcesses` (`Subsystem`) | the instance of `process_only` | A restart of the processes that is read in StartingProcesses launches them a second time; when one instance ends, the subsystem stays online and forgets the process, although the other instance runs |
| `RunningIsReal` (`Subsystem`) | two processes in a subsystem that breaks | Broken and Degraded drop stop events (state_machine.cc:2056): Capcom believes that a dead process runs |

Liveness of subsystems holds only where these do not apply: `Settles`,
`RetriesCrashed` and `StopsUnwanted` are checked for one process per subsystem, no lost
connection and no abort. Under `processOnly` a delayed restart that arrives after a stop and
a start can also leave a subsystem in StartingProcesses with nothing to launch,
which is why `Settles` speaks of the automatic policy; and one that is read in
RestartingProcesses is dropped, which is why the clients of `live` do not restart
single processes. `ChildrenFirst` is checked without crashes: a child that crashes while its parent connects
does not hold the parent's launch back.

## The proofs

For every value of the constants that the named assumptions of the modules allow:

| Theorem | Module | States |
|---|---|---|
| `TypeCorrect` | `SubsystemProofs` | `Spec => []TypeOK` |
| `ReferencesCounted` | `SubsystemProofs` | `Spec => []RefsCountConnections` |
| `GoesOnlineRunning` | `SubsystemProofs` | `Spec => OnlineMeansRunning` |
| `LimitsInvariance` | `LimitsProofs` | `Spec => [](IInv /\ LInv)`, the invariant behind the following |
| `RestartsCounted` | `LimitsProofs` | no counter of restarts passes its limit, no running process has an alarm |
| `BreaksAtItsLimit` | `LimitsProofs` | `Spec => [](Undivided => RestartsLimited)` |
| `DegradesAtItsLimit` | `LimitsProofs` | `Spec => [](Undivided => AttemptsLimited)` |
| `AlarmsTold` | `LimitsProofs` | `Spec => [](Undivided => AlarmsTell)` |
| `WantedOnline` | `LimitsProofs` | `Spec => [](Undivided => OnlineIsWanted)` |
| `KnowsWhenWhole` | `LimitsProofs` | if all subsystems are `Whole`: `Spec => [](Undivided => KnowsItsProcesses)` |
| `OfflineLeavesNothing` | `LimitsProofs` | `Undivided`: an offline subsystem has a closed umbilical and no instance of a process |
| `OfflineWhenQuiet` | `LimitsProofs` | if all subsystems are `Quiet`: `Spec => [](Undivided => OfflineIsClean)` |
| `BelievesWhatRuns` | `LimitsProofs` | if all subsystems are `Solitary`: `Spec /\ []Calmly => [](Undivided => RunningIsReal)` |
| `ComputesInvariance` | `ComputesProofs` | `Spec => []Sound`, types and who relies on what |
| `TypesOfComputes` | `ComputesProofs` | `Spec => []TypeOK` |
| `KeepsToItsConfiguration` | `ComputesProofs` | `Spec => []OnlyConfigured` |
| `CountsReferences` | `ComputesProofs` | `Spec => [](Sound /\ Sane)`, the references of untroubled umbilicals |
| `ClosesWhenUnused` | `ComputesProofs` | `Spec => []ClosedWhenUnused` |
| `ServesAlone` | `ComputesProofs` | `Spec => []ServedAlone` |
| `TypeCorrect` | `StageZeroProofs` | `Spec => []TypeOK` |
| `NothingIsLost` | `StageZeroProofs` | `Spec => []KeepsTrack` |
| `MapsStayTogether` | `StageZeroProofs` | `Spec => []MapsAgree` |
| `StopIsTrue` | `StageZeroProofs` | `Spec => []StopMeansDead` |
| `TellsOneLife` | `StageZeroProofs` | `Spec => TellsALife` (the refinement) |
| `TypeCorrect` | `StreamsProofs` | `Spec => []TypeOK` |
| `ObjectsOwnTheirPipes` | `StreamsProofs` | `Spec => []OwnPipes` |
| `OutputWrittenAlone` | `StreamsProofs` | `Spec => []WritesAlone` |
| `TypeCorrect` | `ParametersProofs` | `Spec => []TypeOK` |
| `ReadsKeep` | `ParametersProofs` | `Spec => ReadsKeepAnswers` |
| `OnlyGapsKill` | `ParametersProofs` | `Spec => DiesOfGaps` |
| `CopiesExplained` | `ParametersProofs` | for finitely many names: `Spec => [](TypeOK /\ Copied)` |
| `CopiesComeToAgree` | `ParametersProofs` | for finitely many names: `Spec => []CopiesAgree` |
| `EventsInvariance` | `EventsProofs` | `Spec => []EInv` |
| `TypesOfEvents` | `EventsProofs` | `Spec => []TypeOK` |
| `MissesNoEvent` | `EventsProofs` | `Spec => []NoneMissed` |
| `TypeCorrect` | `FlightProofs` | `Spec => []TypeOK` |
| `ChecksLoops` | `FlightProofs` | for every well-formed graph: `CheckForSubsystemLoops` is true exactly if some subsystem reaches itself |
| `NoLoopServed` | `FlightProofs` | `Spec => []LoopsRefused` |
| `RefusedForCause` | `FlightProofs` | `Spec => []Refused` |
| `AutostartsKept` | `FlightProofs` | if other clients of Capcom only start and the numbers fit one word: `Spec => []AutostartsStay` |
| `AddsInOrder` | `FlightProofs` | `Spec => []NeverRefused` |
| `AllGetsRegistered` | `FlightProofs` | `Spec => []Registered` |

*Subsystem: types and references.* The inductive invariant is `IInv == TypeOK /\ RefsCountConnections`:
the counts need the types, in particular `maybe \subseteq Processes[s]`, which
makes the sets finite. `Sound(s)` is the set of states of one subsystem that
satisfy both. Bottom up: each function on a subsystem keeps its state in
`Sound(s)`; only `Connect` and `Disconnect` change the umbilical, and their
lemmas (`ConnectSound`, `DisconnectSound`) carry the arithmetic of
cardinalities. Then the ways to end a step (`Put`, `Set`, `Goto`,
`NotifyAndRun`, `RestartNow`, `Crash`, the tails) keep `IInv`, then every action.
The graph need not be acyclic.

*Subsystem: going online.* The places that enter Online are a subsystem without processes, the tail
of StartingProcesses, and, as far as the code's text goes, the tails of
StartingChildren, StoppingProcesses and StoppingChildren, which enter the
coroutine's local `next_state` whatever it is. The proof therefore strengthens
the invariant with `AimsRight`: a coroutine that runs one of those states never has
Online in `next_state`. `Calm(s)` adds that, and "online only if it was", to
`Sound(s)`; every function keeps a state in it, and `TailsGood` says when a tail
may still enter Online: only after `AllProcessesRunning`, which gives the
conclusion.

*Subsystem: limits, alarms, offline and online* (`LimitsProofs`). What these six invariants
say of an operational state depends on what was true when the coroutine entered it and
on what it has read since. `LInv` therefore says of each subsystem, in layers:

* always, `Kept` (counters within their limits, no alarm of a running process) and `Wires`
  (the socket carries events of the subsystem's own processes only; nothing lives behind a
  closed umbilical). `Wires` is what makes offline clean: Offline's prologue disconnects, and a
  connection that ends takes its instances and its events with it;
* with one state coroutine (`Alone`), `Shape`: `Fit(s, L, st)` holds when the coroutine
  enters `st` and `Waiting` while it waits there. `Fit` for Broken is that the restarts are
  used up, for Degraded that there is an alarm, for Online that the processes run, for a
  stopping state that the admin state is offline; `Waiting` bounds the local `next_state`;
* of the messages in the pipes, `OwnMessage`: only a child reports, and only a report carries an
  operational state.

Each action is shown to end in a state that is steady, and fit for what it enters. Three
hypotheses mark where this argument ends:

* `Undivided`, all subsystems have one state coroutine: an abort that finds a subsystem in `WaitForRestart`
  leaves it with two (`AbortCompletes` in the table above), and what one of them has
  established of the operational state the other may undo. `RestartsCounted` needs no such
  hypothesis. The run `abort` checks its properties with two coroutines too, on its instance.
* `Quiet`, no client restarts single processes: `RestartProcesses` disconnects a process
  that Capcom does not believe to run, and the start of a newer instance may still be read
  afterwards, so that `running` has a process that `maybe`, by which the references are counted,
  has not. TLC finds no offline subsystem with such a process (one subsystem
  of two processes under processOnly, four commands and a crash), but nothing in
  the invariant rules it out. `OfflineLeavesNothing`, about the processes themselves, holds without it.
* `Whole`, no policy processOnly and no oneshots: with either, a process may end and its
  subsystem stay online, and `KnowsItsProcesses` is false (see the table above).

*Subsystem: what Capcom believes to run* (`LimitsProofs`, last part). Five of the eleven states
take note of a stop event, and Offline, Connecting, StartingChildren, StoppingChildren, Broken and
Degraded read one and drop it. So `RunningIsReal` needs two facts that are inductive
together. `Genuine`: each process that is believed to run, and each one that a start event still to be
read will add, is there or has a stop event behind (`Vouched`). `Attentive`: in a state
that drops events nothing is believed to run. The second is where the hypotheses come from, and each
of them marks a way in which the code does forget:

* `Solitary`, one process, no children, not critical. A crash of one of two processes
  brings the subsystem to Broken or Degraded with the other one running (the run quoted
  above). With children, StartingChildren and StoppingChildren are states in which a
  subsystem waits; without, it leaves them in their prologue. A crash in a critical subsystem only
  asks for an emergency abort and leaves the process in `running`.
* `Calmly`, no emergency abort and no lost connection. During an emergency abort a crash is
  read and nothing else happens (state_machine.cc:1492), and a lost connection takes
  the events with it.

Restarts of single processes, oneshots, plain aborts, failed launches and every policy are covered.

*Computes.* `Sound` (types; a coroutine that holds a pointer, or a subsystem that is
connected, has something to hold; the cgroups of a connected StageZero are configured) is
inductive by itself. References are counted only where nothing has gone wrong: `Sane` says
of each compute whose umbilical has not failed or been taken away, if it is dynamic, that its
subsystems connect one coroutine at a time (`Orderly`), that it has no more references than
`Holders`, and at least one holder while it is connecting or connected (`Counted`), and that a
subsystem that never shared it is past its connection only when it is connected (`Lone`). "No more" instead of "exactly"
is what the code does: each process of a subsystem gives a reference back, although the
subsystem took one. `Disconnections` is a recursive function over the number of processes; `Lowered`
and `Within` say what any number of disconnections leaves, by induction up to
that number (`UpTo`).

*StageZero.* None of the properties is inductive: whether a map still has a process
depends on where its waiter and stopper are, and what a client has heard on both. The
invariant `IInv` is the conjunction of `Objects` (each object is in `Good(p)`, which
relates the phases of its coroutines to what the kernel knows and to the events
told), `Maps`, `Zygotes` and `Handlers`. An action that launches nothing only lets objects
age and maps shrink (`Aged`, `Shrunk`); the lemma about such steps is
proved once, and then each action. Types and `StopIsTrue` follow from it; `NothingIsLost`
and `MapsStayTogether` are inductive beside it. For the first, `Keeps(p)` says what a
step may do to a living process: it leaves processes_ only when a stopper takes over,
and a stopper never lets it go alive. For the second, `RemovesAll`: while the maps agree,
`RemoveProcess` removes all it was asked to.
*The refinement* sorts the steps by what is heard in them: nothing (`NothingHeard`, which
is `End` or a stutter), or one thing about one process (`OneHeard`: `Launch`,
`TellStart`, `TellStop`).

*Streams.* Most of the work is in the numbers: the i-th free descriptor exists
(`NthExists`, an injection between finite sets), so the ends a launch creates get free and
distinct numbers (`BuiltApart`). `OwnPipes` is inductive with `Apart`: a reader's
duplicate has not the number it was made from, so that the reader closes its own only.
`WritesAlone` is inductive with `Fresh`: nobody has an end of a pipe that is not there yet,
so a forked child inherits write ends of other processes only if StageZero kept them open,
which it does not.

*Parameters: trees.* The trees stay well formed under every operation on them (one lemma
each); with that a search changes no answer, and a server dies only in the branches of
the actions where a null node, or a childless node without a value, is on the way.

*Parameters: copies.* `CopiesAgree` compares values exactly and says something only at
rest, so the invariant has to say what a difference means on the way there. It looks at
one name at a time: `At(t, q)` is what a tree says of `q`, and an operation writes it,
erases it, or makes sure that there is a node (`Applied`; `SetAt`, `ErasedAt`,
`LookupAt` show that the operations on trees do just that). `Explained`: a compute says
of `q` exactly what Capcom says, or an event in its queue that no later one overrides
accounts for the difference (`Accounts`): it wrote the value; or it erased `q`, and at
most an `Unset` node is there again, while Capcom still has a node; or it made an
`Unset` node and Capcom has none. Which of the two has a node matters: without it a
value of Capcom's could outlive the queue under a compute's `Unset` node. Adding an
event at the end (`ExplainedHere`), handling the first (`ExplainedHandled`) and carrying
out a change in both (`ExplainedBoth`) keep that. While a deletion is under way, the
names it has still to erase in a compute are `Doomed`: Capcom has none of them.
`OneByOne` is why that is enough: a second deletion makes all computes `unsure`. That a
compute which connects gets everything (`UploadAt`), unless the upload `Omits` a name and
the compute is `unsure`, needs finitely many names: below
every node that is alive there is then a leaf that `GetAllParameters` lists. A running
system has finitely many, since each comes of a request.

*Events.* `Held(c)` is all an event channel holds, from what the client has read to
the sender's queue; reading, taking and sending move an event along it and leave it as it is. An event
of Capcom is added at the end of the cache and of every `Held` in one step; opening a channel adds
the cache to nothing (`Unopened`). With `Recent` (the cache is the last events without a gap), `NoneMissed`
is inductive. What the recursive function in `Dumped` selects from the cache is proved by
induction up to the length of the cache.

*FlightDirector: graphs.* The search for loops and the flattening are recursive functions over a depth that the
number of names bounds; what they compute is proved by induction up to that bound.
`ChecksLoops` has two directions. A search that finds nothing leaves a set of visited
subsystems that is closed under the deps and has all that the root needs, but not the root (`Found`), so the root
does not need itself. This is not obvious from the code, whose branches share what they
visited and do not visit it twice. And a search calls nothing a loop that is none (`Silent`). A flattening
is `Sorted`: all a subsystem needs comes before it, which is why Capcom never refuses to add one.

*FlightDirector: connections.* `TypeOK` bounds the numbers that Capcom gives its clients by the connections that can
be there at once; the proof counts them. `AutostartsStay` is inductive with two facts
(`AInv`): only a connection of a FlightDirector's clients carries stops, and the number that a subsystem is
active for, once its autostart is through, is not free for such a connection. Its two hypotheses mark where this ends:
another client of Capcom that stops a subsystem may get that number (the run quoted
above, `OutsiderOps = {"start", "stop"}`), and `bitset.h` ignores bits past its last word.
For the registration, `RInv` says that what Capcom knows is closed under the deps, that it stays so after each
request on its way, on connections of this life and of earlier ones, and after each that the coroutine has still to
make, and that then all interfaces are known. That an answer may be taken by the wrong waiter changes none of it.

Only model-checked: liveness everywhere (`AllRegistered`, `Settles`, `Delivered` and the like;
`AllGetsRegistered` is the safety half of the first); `RunningIsReal` for more than one process,
where it is false (see above);
and `ChildrenFirst`, which depends on what parents and children tell each other
on the way and holds without crashes only.

## Not modelled

* The removal of subsystems from a running Capcom's state machine and of computes: both need an
  idle object and only drop it (`Computes` has the removal of a subsystem's reference).
* Local parameters, telemetry beyond its shutdown command and its pipes, global
  variables, input to and output of processes as data, logs, symbols: opaque data or text.
* Capabilities and the writes to cgroup files, interactive terminals: kernel I/O.
* The command-line tools, Fido, the clients' request formats: one request, one answer.
* The module runtime: its scheduling is decided by IPC and coroutine libraries that
  are not in the repository.
* Undefined behaviour of containers that are changed under an iterator
  (stagezero.cc:333): listed as a hazard.

## Plan

Done: the eight modules above, all their invariants proved, the refinement, and all action
properties but `ChildrenFirst` and those about liveness.
What would come next:

1. `ChildrenFirst` proved for a graph without crashes.
2. The removal of subsystems and computes; subsystems on several computes.
3. Two subsystems with processes per compute in `Parameters`.
