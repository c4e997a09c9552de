---------------------------- MODULE LimitsProofs ----------------------------
(***************************************************************************)
(* Proofs of the invariants of one subsystem at a time: its restarts and   *)
(* the retries of its processes stay within their limits, its alarms tell  *)
(* why it is degraded, and offline and online mean what they say.          *)
(*                                                                         *)
(* Kept and Wires hold of every state of a subsystem and each function of  *)
(* Subsystem keeps them (Steady).  What is true of the operational state   *)
(* only holds while the subsystem has one state coroutine (Alone): an      *)
(* abort that interrupts a wait to restart leaves it with two.  For such a *)
(* subsystem, Fit(s, L, st) is what L satisfies when the coroutine enters  *)
(* st, and Waiting what it satisfies while it waits there (Told).  A step  *)
(* is proved by showing that it ends in a state that is steady, and fit    *)
(* for the state it enters or stays in.                                    *)
(*                                                                         *)
(* The last part is about the processes that Capcom believes to run, for   *)
(* subsystems with one process and no children: Genuine says that each of  *)
(* them is there or has an event that tells its end, and Attentive in      *)
(* which states nothing is believed, because they drop these events.       *)
(***************************************************************************)
EXTENDS SubsystemProofs

\* No client asks s to restart its processes.
Quiet(s) ==
    \A c \in Client : s \in Targets[c] => "RestartProcesses" \notin Commands[c]

\* s restarts as a whole when one of its processes ends.
Whole(s) == Policy[s] # "processOnly" /\ Processes[s] \cap OneShot = {}

Alone(L) == \A j \in Slot \ {1} : L.co[j].at = "dead"

Kept(s, L) ==
    /\ L.restarts <= MaxRestarts
    /\ \A p \in Process : L.tries[p] <= MaxProcRestarts
    /\ L.alarm \cap L.running = {}
    /\ Alone(L) /\ Quiet(s) => L.running \subseteq L.maybe

\* Only the processes of s tell events, and none is left without a connection.
OwnEvent(s) ==
    {e \in StageZeroEvent : e.kind \in {"start", "stop"} => e.proc \in Processes[s]}

Still(L) ==
    \A p \in Process : L.live[p] = "none" /\ \A f \in Phase : L.others[p][f] = 0

Wires(s, L) ==
    /\ L.events \in Seq(OwnEvent(s))
    /\ L.umb = "closed" => L.sock = "none" /\ Still(L)

Stopping == {"StoppingProcesses", "StoppingChildren"}

Fit(s, L, st) ==
    /\ st = "Broken" => \/ L.restarts = MaxRestarts
                        \/ Children[s] # {} \/ Processes[s] \cap OneShot # {}
    /\ st = "Degraded" => /\ L.alarm # {}
                          /\ Policy[s] = "processOnly" =>
                                \E p \in Processes[s] : L.tries[p] = MaxProcRestarts
    /\ st = "StartingProcesses" => L.maybe = Processes[s]
    /\ st = "Online" /\ Whole(s) => Processes[s] \subseteq L.running
    /\ st \in Stopping => L.admin = "Offline"
    /\ st = "RestartingProcesses" => ~Quiet(s)

Waiting(s, L, st, next) ==
    /\ st = "Offline" => L.umb = "closed"
    /\ st = "Connecting" => L.maybe = Processes[s]
    /\ st = "StartingChildren" => next \in {"Connecting", "StoppingChildren"}
    /\ st = "StartingProcesses" => next \in {"Online", "StoppingProcesses"}
    /\ st = "StoppingProcesses" => next \in {"StoppingChildren", "Connecting"}
    /\ st = "StoppingChildren" => next \in {"Offline", "StartingChildren"}
    /\ next \in Stopping => L.admin = "Offline"

Wanted(L) == L.admin = "Online" => L.active # {}

\* The states in which a subsystem reads that a process has crashed.
Crashing == {"StartingProcesses", "Online", "RestartingProcesses"}

Shape(s, L) ==
    LET f == L.co[1] IN
    /\ f.at # "dead" /\ L.oper = f.state
    /\ Wanted(L)
    /\ f.at \in {"enter", "run"} => Fit(s, L, f.state)
    /\ f.at = "run" => Waiting(s, L, f.state, f.next)
    /\ f.at \in {"wait", "nap"} => f.state \in Crashing

Loose(s) == {L \in Sound(s) : Kept(s, L)}

Steady(s) == {L \in Loose(s) : Wires(s, L)}

Told(s) == {L \in Steady(s) : Alone(L) => Shape(s, L)}

\* A child that reports has a parent, the clients send what they may, and only
\* a report carries another state than an admin state.
OwnMessage(s) ==
    {m \in Message : /\ m.code = "ReportOper" => Children[s] # {}
                     /\ m.code # "ReportOper" => m.state \in AdminState
                     /\ m.code = "RestartProcesses" => ~Quiet(s)}

OwnPipes == {P \in Pipes : \A s \in Subsystem : P[s] \in Seq(OwnMessage(s))}

\* The inductive invariant.
LInv == (\A s \in Subsystem : sub[s] \in Told(s)) /\ pipe \in OwnPipes

\* L and M differ at most in what Kept and Wires do not look at; in what the
\* operational state does not depend on; in neither.
SameBody(L, M) ==
    /\ M.restarts = L.restarts /\ M.tries = L.tries /\ M.alarm = L.alarm
    /\ M.running = L.running /\ M.maybe = L.maybe /\ M.umb = L.umb
    /\ M.sock = L.sock /\ M.events = L.events
    /\ M.live = L.live /\ M.others = L.others

Poised(L, M) ==
    /\ M.oper = L.oper /\ M.admin = L.admin /\ M.active = L.active
    /\ \A j \in Slot : /\ M.co[j].at = L.co[j].at
                       /\ M.co[j].state = L.co[j].state
                       /\ M.co[j].next = L.co[j].next

-----------------------------------------------------------------------------
(* The sets, and when a state stays in them.                               *)

LEMMA SteadySound ==
    ASSUME NEW s \in Subsystem, NEW L, L \in Loose(s) \/ L \in Steady(s) \/ L \in Told(s)
    PROVE  L \in Sound(s) /\ L \in Local /\ L \in Loose(s)
BY DEF Told, Steady, Loose, Sound

LEMMA PoisedAlone ==
    ASSUME NEW L, NEW M, Poised(L, M)
    PROVE  Alone(M) <=> Alone(L)
BY DEF Poised, Alone

LEMMA SameSteady ==
    ASSUME NEW s \in Subsystem, NEW L \in Steady(s), NEW M \in Sound(s),
           SameBody(L, M), Alone(M) => Alone(L)
    PROVE  M \in Steady(s)
<1>1. Kept(s, M)
    BY DEF Steady, Loose, Kept, SameBody
<1>2. Wires(s, M)
    BY DEF Steady, Wires, SameBody, Still
<1> QED
    BY <1>1, <1>2 DEF Steady, Loose

LEMMA SameTold ==
    ASSUME NEW s \in Subsystem, NEW L \in Told(s), NEW M \in Sound(s),
           SameBody(L, M), Poised(L, M)
    PROVE  M \in Told(s)
<1>1. M \in Steady(s)
    BY SameSteady, PoisedAlone DEF Told
<1>2. ASSUME Alone(M) PROVE Shape(s, M)
  <2>1. Shape(s, L)
      BY <1>2, PoisedAlone DEF Told
  <2> QED
      BY <2>1, SlotAssumption
         DEF Shape, Wanted, Fit, Waiting, SameBody, Poised
<1> QED
    BY <1>1, <1>2 DEF Told

\* The states of which only the admin state, the next state and the client matter.
Plain == {"StartingChildren", "StoppingProcesses", "StoppingChildren", "Restarting",
          "RestartingProcesses"}

LEMMA PoisedTold ==
    ASSUME NEW s \in Subsystem, NEW L \in Told(s), NEW M \in Steady(s), Poised(L, M),
           Alone(L) => L.co[1].at \in {"wait", "nap"} \/ L.co[1].state \in Plain
    PROVE  M \in Told(s)
<1>1. ASSUME Alone(M) PROVE Shape(s, M)
  <2>1. Shape(s, L) /\ Alone(L)
      BY <1>1, PoisedAlone DEF Told
  <2> QED
      BY <2>1, SlotAssumption DEF Shape, Wanted, Fit, Waiting, Poised, Plain
<1> QED
    BY <1>1 DEF Told

\* A coroutine that is not dead is the only one of a subsystem with one.
LEMMA OnlyOne ==
    ASSUME NEW L, NEW i \in Slot, L.co[i].at # "dead", Alone(L)
    PROVE  i = 1
BY DEF Alone

LEMMA FreeStates ==
    ASSUME NEW s, NEW L,
           NEW st \in {"Offline", "StartingChildren", "Connecting", "Restarting"}
    PROVE  Fit(s, L, st) /\ st \in OperState
BY DEF Fit, Stopping, OperState

LEMMA EnterStateTold ==
    ASSUME NEW s \in Subsystem, NEW L \in Steady(s), NEW i \in Slot,
           NEW st \in OperState, NEW c \in ClientId,
           Alone(L) /\ i = 1 => Wanted(L) /\ Fit(s, L, st)
    PROVE  EnterState(L, i, st, c) \in Told(s)
<1> DEFINE M == EnterState(L, i, st, c)
<1>1. L \in Local /\ M \in Sound(s)
    BY SteadySound, EnterStateSound
<1>2. /\ M.oper = st /\ M.admin = L.admin /\ M.active = L.active
      /\ M.co = [L.co EXCEPT ![i] = NewCoroutine("enter", st, c)]
    BY <1>1, Zenon DEF EnterState, Local
<1>3. SameBody(L, M)
    BY <1>1, Zenon DEF EnterState, Local, SameBody
<1>4. L.co \in [Slot -> Coroutine]
    BY <1>1, Fields
<1> HIDE DEF M
<1>5. /\ M.co[i].at = "enter" /\ M.co[i].state = st
      /\ \A j \in Slot \ {i} : M.co[j] = L.co[j]
    BY <1>2, <1>4 DEF NewCoroutine
<1>6. Alone(M) => Alone(L) /\ i = 1
    BY <1>5, SlotAssumption DEF Alone
<1>7. M \in Steady(s)
    BY <1>1, <1>3, <1>6, SameSteady
<1>8. ASSUME Alone(M) PROVE Shape(s, M)
  <2>1. Fit(s, M, st)
      BY <1>2, <1>3, <1>6, <1>8 DEF Fit, SameBody
  <2> QED
      BY <1>2, <1>5, <1>6, <1>8, <2>1 DEF Shape, Wanted
<1> QED
    BY <1>7, <1>8 DEF Told, M

LEMMA RunInTold ==
    ASSUME NEW s \in Subsystem, NEW L \in Steady(s), NEW i \in Slot,
           NEW next \in OperState,
           Alone(L) /\ i = 1 => /\ L.oper = L.co[1].state /\ Wanted(L)
                                /\ Fit(s, L, L.co[1].state)
                                /\ Waiting(s, L, L.co[1].state, next)
    PROVE  RunIn(L, i, next) \in Told(s)
<1> DEFINE M == RunIn(L, i, next)
<1>1. L \in Local /\ M \in Sound(s)
    BY SteadySound, RunInSound
<1>2. /\ M.oper = L.oper /\ M.admin = L.admin /\ M.active = L.active
      /\ M.co = [L.co EXCEPT ![i].at = "run", ![i].next = next]
    BY <1>1, Zenon DEF RunIn, Local
<1>3. SameBody(L, M)
    BY <1>1, Zenon DEF RunIn, Local, SameBody
<1>4. L.co \in [Slot -> Coroutine] /\ L.co[i] \in Coroutine
    BY <1>1, Fields
<1> HIDE DEF M
<1>5. M.co[i].at = "run" /\ M.co[i].state = L.co[i].state /\ M.co[i].next = next
    BY <1>2, <1>4 DEF Coroutine
<1>6. \A j \in Slot \ {i} : M.co[j] = L.co[j]
    BY <1>2, <1>4
<1>7. Alone(M) => Alone(L) /\ i = 1
    BY <1>5, <1>6, SlotAssumption DEF Alone
<1>8. M \in Steady(s)
    BY <1>1, <1>3, <1>7, SameSteady
<1>9. ASSUME Alone(M) PROVE Shape(s, M)
  <2>1. Fit(s, M, L.co[1].state) /\ Waiting(s, M, L.co[1].state, next)
      BY <1>2, <1>3, <1>7, <1>9 DEF Fit, Waiting, SameBody
  <2> QED
      BY <1>2, <1>5, <1>7, <1>9, <2>1 DEF Shape, Wanted
<1> QED
    BY <1>8, <1>9 DEF Told, M

-----------------------------------------------------------------------------
(* The functions on the state of a subsystem keep it steady.               *)

\* Killing all its processes repairs whatever was wrong with its instances.
LEMMA CloseSocketSteady ==
    ASSUME NEW s \in Subsystem, NEW L \in Loose(s)
    PROVE  LET M == CloseSocket(L) IN
           /\ M \in Steady(s) /\ Poised(L, M)
           /\ M.running = L.running /\ M.maybe = L.maybe /\ M.umb = L.umb
           /\ M.restarts = L.restarts /\ M.tries = L.tries /\ M.alarm = L.alarm
<1> DEFINE M == CloseSocket(L)
<1>1. L \in Local /\ L \in Sound(s) /\ M \in Sound(s)
    BY SteadySound, CloseSocketSound
<1>2. /\ M.running = L.running /\ M.maybe = L.maybe /\ M.umb = L.umb
      /\ M.restarts = L.restarts /\ M.tries = L.tries /\ M.alarm = L.alarm
      /\ M.oper = L.oper /\ M.admin = L.admin /\ M.active = L.active /\ M.co = L.co
    BY <1>1, Zenon DEF CloseSocket, Local
<1>3. /\ M.sock = "none" /\ M.events = <<>>
      /\ M.live = [p \in Process |-> "none"]
      /\ M.others = [p \in Process |-> [f \in Phase |-> 0]]
    BY <1>1, Zenon DEF CloseSocket, Local
<1> HIDE DEF M
<1>4. Poised(L, M)
    BY <1>2 DEF Poised
<1>5. Kept(s, M)
    BY <1>2, <1>4, PoisedAlone DEF Loose, Kept
<1>6. Still(M)
    BY <1>3 DEF Still
<1>7. M.events \in Seq(OwnEvent(s))
    BY <1>3
<1>8. M \in Steady(s)
    BY <1>1, <1>3, <1>5, <1>6, <1>7 DEF Steady, Loose, Wires
<1> QED
    BY <1>2, <1>4, <1>8 DEF M

LEMMA SetStoppedSteady ==
    ASSUME NEW s \in Subsystem, NEW L \in Steady(s), NEW p \in Process
    PROVE  LET M == SetStopped(L, p) IN
           /\ M \in Steady(s) /\ Poised(L, M)
           /\ M.running = L.running \ {p} /\ M.maybe = L.maybe /\ M.umb = L.umb
           /\ M.restarts = L.restarts /\ M.tries = L.tries /\ M.alarm = L.alarm
<1> DEFINE M == SetStopped(L, p)
<1>1. L \in Local /\ M \in Sound(s)
    BY SteadySound, SetRunningSound
<1>2. /\ M.running = L.running \ {p} /\ M.maybe = L.maybe /\ M.umb = L.umb
      /\ M.restarts = L.restarts /\ M.tries = L.tries /\ M.alarm = L.alarm
      /\ M.oper = L.oper /\ M.admin = L.admin /\ M.active = L.active /\ M.co = L.co
      /\ M.sock = L.sock /\ M.events = L.events /\ M.live = L.live /\ M.others = L.others
    BY <1>1, Zenon DEF SetStopped, Local
<1> HIDE DEF M
<1>3. Poised(L, M)
    BY <1>2 DEF Poised
<1>4. Kept(s, M)
    BY <1>2, <1>3, PoisedAlone DEF Steady, Loose, Kept
<1>5. Wires(s, M)
    BY <1>2 DEF Steady, Wires, Still
<1> QED
    BY <1>1, <1>2, <1>3, <1>4, <1>5 DEF Steady, Loose, M

\* A process that runs is one that may be connected, if all of s may be.
LEMMA SetRunningSteady ==
    ASSUME NEW s \in Subsystem, NEW L \in Steady(s), NEW p \in Process,
           Alone(L) /\ Quiet(s) => p \in L.maybe
    PROVE  LET M == SetRunning(L, p) IN
           /\ M \in Steady(s) /\ Poised(L, M)
           /\ M.running = L.running \cup {p} /\ M.maybe = L.maybe /\ M.umb = L.umb
<1> DEFINE M == SetRunning(L, p)
<1>1. L \in Local /\ M \in Sound(s)
    BY SteadySound, SetRunningSound
<1>2. /\ M.running = L.running \cup {p} /\ M.alarm = L.alarm \ {p}
      /\ M.maybe = L.maybe /\ M.umb = L.umb
      /\ M.restarts = L.restarts /\ M.tries = L.tries
      /\ M.oper = L.oper /\ M.admin = L.admin /\ M.active = L.active /\ M.co = L.co
      /\ M.sock = L.sock /\ M.events = L.events /\ M.live = L.live /\ M.others = L.others
    BY <1>1, Zenon DEF SetRunning, Local
<1> HIDE DEF M
<1>3. Poised(L, M)
    BY <1>2 DEF Poised
<1>4. Kept(s, M)
  <2>1. M.alarm \cap M.running = {}
      BY <1>2 DEF Steady, Loose, Kept
  <2> QED
      BY <1>2, <1>3, <2>1, PoisedAlone DEF Steady, Loose, Kept
<1>5. Wires(s, M)
    BY <1>2 DEF Steady, Wires, Still
<1> QED
    BY <1>1, <1>2, <1>3, <1>4, <1>5 DEF Steady, Loose, M

LEMMA ResetSteady ==
    ASSUME NEW s \in Subsystem, NEW L \in Steady(s)
    PROVE  LET M == ResetProcessRestarts(L) IN
           M \in Steady(s) /\ Poised(L, M) /\ M.umb = L.umb
<1> DEFINE M == ResetProcessRestarts(L)
<1>1. L \in Local /\ M \in Sound(s)
    BY SteadySound, ResetSound
<1>2. /\ M.running = L.running /\ M.maybe = L.maybe /\ M.umb = L.umb
      /\ M.restarts = L.restarts /\ M.alarm = L.alarm
      /\ M.tries = [p \in Process |-> 0]
      /\ M.oper = L.oper /\ M.admin = L.admin /\ M.active = L.active /\ M.co = L.co
      /\ M.sock = L.sock /\ M.events = L.events /\ M.live = L.live /\ M.others = L.others
    BY <1>1, Zenon DEF ResetProcessRestarts, Local
<1> HIDE DEF M
<1>3. Poised(L, M)
    BY <1>2 DEF Poised
<1>4. Kept(s, M)
    BY <1>2, <1>3, PoisedAlone, BoundAssumption DEF Steady, Loose, Kept
<1>5. Wires(s, M)
    BY <1>2 DEF Steady, Wires, Still
<1> QED
    BY <1>1, <1>2, <1>3, <1>4, <1>5 DEF Steady, Loose, M

LEMMA NoRestartsSteady ==
    ASSUME NEW s \in Subsystem, NEW L \in Steady(s)
    PROVE  LET M == [L EXCEPT !.restarts = 0] IN
           M \in Steady(s) /\ Poised(L, M) /\ M.umb = L.umb
<1> DEFINE M == [L EXCEPT !.restarts = 0]
<1>1. L \in Local /\ M \in Sound(s)
    BY SteadySound, FieldSound
<1>2. /\ M.running = L.running /\ M.maybe = L.maybe /\ M.umb = L.umb
      /\ M.restarts = 0 /\ M.alarm = L.alarm /\ M.tries = L.tries
      /\ M.oper = L.oper /\ M.admin = L.admin /\ M.active = L.active /\ M.co = L.co
      /\ M.sock = L.sock /\ M.events = L.events /\ M.live = L.live /\ M.others = L.others
    BY <1>1, Zenon DEF Local
<1> HIDE DEF M
<1>3. Poised(L, M)
    BY <1>2 DEF Poised
<1>4. Kept(s, M)
    BY <1>2, <1>3, PoisedAlone, BoundAssumption DEF Steady, Loose, Kept
<1>5. Wires(s, M)
    BY <1>2 DEF Steady, Wires, Still
<1> QED
    BY <1>1, <1>2, <1>3, <1>4, <1>5 DEF Steady, Loose, M

LEMMA ReadEventSteady ==
    ASSUME NEW s \in Subsystem, NEW L \in Steady(s), L.events # <<>>
    PROVE  LET M == ReadEvent(L) IN
           /\ M \in Steady(s) /\ Poised(L, M)
           /\ M.running = L.running /\ M.maybe = L.maybe /\ M.umb = L.umb
           /\ M.restarts = L.restarts /\ M.tries = L.tries /\ M.alarm = L.alarm
           /\ Head(L.events) \in OwnEvent(s)
<1>1. L \in Local /\ L \in Loose(s) /\ L.events \in Seq(OwnEvent(s)) /\ L \in Sound(s)
    BY SteadySound DEF Steady, Wires
<1>2. Head(L.events) \in OwnEvent(s) /\ Tail(L.events) \in Seq(OwnEvent(s))
    BY <1>1
<1> DEFINE K == [L EXCEPT !.events = Tail(@)]
<1>3. /\ K.running = L.running /\ K.maybe = L.maybe /\ K.umb = L.umb
      /\ K.restarts = L.restarts /\ K.alarm = L.alarm /\ K.tries = L.tries
      /\ K.oper = L.oper /\ K.admin = L.admin /\ K.active = L.active /\ K.co = L.co
      /\ K.sock = L.sock /\ K.live = L.live /\ K.others = L.others
      /\ K.events = Tail(L.events)
    BY <1>1, Zenon DEF Local
<1>4. K \in Sound(s)
  <2>1. Tail(L.events) \in Seq(StageZeroEvent)
      BY <1>1, Fields
  <2> QED
      BY <2>1, <1>1, FieldSound
<1> HIDE DEF K
<1>5. Poised(L, K)
    BY <1>3 DEF Poised
<1>6. Kept(s, K)
    BY <1>3, <1>5, PoisedAlone DEF Steady, Loose, Kept
<1>7. Wires(s, K)
    BY <1>2, <1>3 DEF Steady, Wires, Still
<1>8. K \in Steady(s)
    BY <1>4, <1>6, <1>7 DEF Steady, Loose
<1>9. ReadEvent(L) = K \/ ReadEvent(L) = CloseSocket(L)
    BY DEF ReadEvent, K
<1> QED
    BY <1>1, <1>2, <1>3, <1>5, <1>8, <1>9, CloseSocketSteady

LEMMA OwnEventFields ==
    ASSUME NEW s \in Subsystem, NEW e \in OwnEvent(s), e.kind \in {"start", "stop"}
    PROVE  e.proc \in Processes[s] /\ e.proc \in Process
BY Finite DEF OwnEvent

LEMMA NoteStopSteady ==
    ASSUME NEW s \in Subsystem, NEW L \in Steady(s), L.events # <<>>
    PROVE  LET M == NoteStop(L) IN
           M \in Steady(s) /\ Poised(L, M)
<1> DEFINE K == ReadEvent(L)
           e == Head(L.events)
<1>1. K \in Steady(s) /\ Poised(L, K) /\ e \in OwnEvent(s)
    BY ReadEventSteady
<1>2. NoteStop(L) = IF e.kind = "stop" THEN SetStopped(K, e.proc) ELSE K
    BY DEF NoteStop
<1> HIDE DEF K, e
<1>3. CASE e.kind = "stop"
  <2>1. e.proc \in Process
      BY <1>1, <1>3, OwnEventFields
  <2> QED
      BY <1>1, <1>2, <1>3, <2>1, SetStoppedSteady DEF Poised
<1> QED
    BY <1>1, <1>2, <1>3

-----------------------------------------------------------------------------
(* Connections, stops and launches.                                        *)

LEMMA DisconnectSteady ==
    ASSUME NEW s \in Subsystem, NEW L \in Steady(s), NEW D
    PROVE  LET M == Disconnect(L, D) IN
           /\ M \in Steady(s) /\ Poised(L, M)
           /\ Processes[s] \subseteq D => M.umb = "closed"
<1> DEFINE gone == D \cap L.maybe
           n == Cardinality(gone)
           down == [L EXCEPT !.running = @ \ gone, !.maybe = @ \ gone, !.refs = @ - n]
           shut == CloseSocket(down)
           M == Disconnect(L, D)
<1>1. /\ L \in Local /\ L.maybe \subseteq Processes[s] /\ L.refs = Cardinality(L.maybe)
      /\ L.umb = "closed" <=> L.refs = 0
    BY SteadySound DEF Sound
<1>2. M \in Sound(s)
    BY SteadySound, DisconnectSound
<1>3. M = IF gone # {} /\ down.refs <= 0 THEN [shut EXCEPT !.umb = "closed"] ELSE down
    BY Zenon DEF Disconnect
<1>4. Processes[s] \subseteq D => gone = L.maybe
    BY <1>1
<1>5. n \in Int /\ L.refs \in Int /\ (L.refs = 0 <=> L.maybe = {})
    BY <1>1, Finite
<1>6. down.refs = L.refs - n
    BY <1>1, Zenon DEF Local
<1>7. Processes[s] \subseteq D /\ gone # {} => down.refs <= 0
  <2> SUFFICES ASSUME gone = L.maybe PROVE down.refs <= 0
      BY <1>4
  <2>1. n = L.refs
      BY <1>1
  <2> HIDE DEF down, n
  <2> QED
      BY <2>1, <1>5, <1>6
<1> HIDE DEF n, gone, M
<1>8. /\ down.running = L.running \ gone /\ down.maybe = L.maybe \ gone
      /\ down.restarts = L.restarts /\ down.tries = L.tries /\ down.alarm = L.alarm
      /\ down.oper = L.oper /\ down.admin = L.admin /\ down.active = L.active
      /\ down.co = L.co /\ down.umb = L.umb
      /\ down.sock = L.sock /\ down.events = L.events
      /\ down.live = L.live /\ down.others = L.others
    BY <1>1, Zenon DEF Local
<1>9. CASE gone # {} /\ down.refs <= 0
  <2>1. M = [shut EXCEPT !.umb = "closed"]
      BY <1>3, <1>9
  <2> HIDE DEF down
  <2>2. down \in Local
    <3>1. L.running \ gone \in SUBSET Process /\ L.maybe \ gone \in SUBSET Process
          /\ L.refs - n \in Int
        BY <1>1, <1>5, Fields
    <3> QED
        BY <3>1, <1>1, Zenon DEF Local, down
  <2>3. /\ M.running = down.running /\ M.maybe = down.maybe
        /\ M.restarts = down.restarts /\ M.tries = down.tries /\ M.alarm = down.alarm
        /\ M.oper = down.oper /\ M.admin = down.admin /\ M.active = down.active
        /\ M.co = down.co /\ M.umb = "closed" /\ M.sock = "none" /\ M.events = <<>>
        /\ M.live = [p \in Process |-> "none"]
        /\ M.others = [p \in Process |-> [f \in Phase |-> 0]]
      BY <2>1, <2>2, Zenon DEF CloseSocket, Local
  <2> HIDE DEF shut
  <2>4. Poised(L, M)
      BY <1>8, <2>3 DEF Poised
  <2>5. Kept(s, M)
      BY <1>8, <2>3, <2>4, PoisedAlone DEF Steady, Loose, Kept
  <2>6. Still(M)
      BY <2>3 DEF Still
  <2>7. M.events \in Seq(OwnEvent(s))
      BY <2>3
  <2> QED
      BY <1>2, <2>3, <2>4, <2>5, <2>6, <2>7 DEF Steady, Loose, Wires, M
<1>10. CASE ~(gone # {} /\ down.refs <= 0)
  <2>1. M = down
      BY <1>3, <1>10
  <2> HIDE DEF down
  <2>2. Poised(L, M)
      BY <1>8, <2>1 DEF Poised
  <2>3. Kept(s, M)
      BY <1>8, <2>1, <2>2, PoisedAlone DEF Steady, Loose, Kept
  <2>4. Wires(s, M)
      BY <1>8, <2>1 DEF Steady, Wires, Still
  <2>5. Processes[s] \subseteq D => M.umb = "closed"
      BY <1>1, <1>4, <1>5, <1>7, <1>8, <1>10, <2>1
  <2> QED
      BY <1>2, <2>2, <2>3, <2>4, <2>5 DEF Steady, Loose, M
<1> QED
    BY <1>9, <1>10

LEMMA StopSteady ==
    ASSUME NEW s \in Subsystem, NEW L \in Steady(s), NEW D
    PROVE  Stop(L, D) \in Steady(s) /\ Poised(L, Stop(L, D))
<1> DEFINE hit == {p \in D : L.live[p] # "none" /\ L.sock = "open"}
           tries == [p \in Process |-> IF p \in D THEN 0 ELSE L.tries[p]]
           live == [p \in Process |-> IF p \in hit THEN "none" ELSE L.live[p]]
           others == [p \in Process |->
                        IF p \in hit THEN OneMore(L.others[p], Halted(L.live[p]))
                        ELSE L.others[p]]
           M == [L EXCEPT !.tries = tries, !.live = live, !.others = others]
<1>1. L \in Local /\ Stop(L, D) \in Sound(s)
    BY SteadySound, StopSound
<1>2. Stop(L, D) = IF D # {} /\ L.sock = "eof" THEN CloseSocket(M) ELSE M
    BY Zenon DEF Stop
<1>3. \A p \in Process : tries[p] <= MaxProcRestarts
    BY BoundAssumption DEF Steady, Loose, Kept
<1>4. M \in Sound(s)
  <2>1. tries \in [Process -> Nat]
      BY <1>1, Fields
  <2>2. live \in [Process -> {"none", "starting", "up"}]
      BY <1>1, Fields
  <2>3. others \in [Process -> [Phase -> Nat]]
    <3>1. \A f : Halted(f) \in Phase
        BY DEF Halted, Phase
    <3>2. \A p \in Process : L.others[p] \in [Phase -> Nat]
        BY <1>1, Fields
    <3>3. \A p \in Process : OneMore(L.others[p], Halted(L.live[p])) \in [Phase -> Nat]
        BY <3>1, <3>2, OneMoreType
    <3> QED
        BY <3>2, <3>3
  <2> HIDE DEF tries, live, others
  <2> QED
      BY <2>1, <2>2, <2>3, <1>1, Fields, SteadySound, InstancesSound
<1>5. L.umb = "closed" => \A p \in Process : live[p] = L.live[p] /\ others[p] = L.others[p]
    BY <1>1 DEF Steady, Wires
<1> HIDE DEF tries, live, others
<1>6. /\ M.running = L.running /\ M.maybe = L.maybe /\ M.umb = L.umb
      /\ M.restarts = L.restarts /\ M.alarm = L.alarm /\ M.tries = tries
      /\ M.oper = L.oper /\ M.admin = L.admin /\ M.active = L.active /\ M.co = L.co
      /\ M.sock = L.sock /\ M.events = L.events /\ M.live = live /\ M.others = others
    BY <1>1, Zenon DEF Local
<1> HIDE DEF M
<1>7. Poised(L, M)
    BY <1>6 DEF Poised
<1>8. Kept(s, M)
    BY <1>3, <1>6, <1>7, PoisedAlone DEF Steady, Loose, Kept
<1>9. Wires(s, M)
    BY <1>5, <1>6 DEF Steady, Wires, Still
<1>10. M \in Steady(s)
    BY <1>4, <1>8, <1>9 DEF Steady, Loose
<1> QED
    BY <1>2, <1>7, <1>10, CloseSocketSteady, SteadySound DEF Poised

LEMMA StopProcessesSteady ==
    ASSUME NEW s \in Subsystem, NEW L \in Steady(s)
    PROVE  StopProcesses(s, L) \in Steady(s) /\ Poised(L, StopProcesses(s, L))
<1> DEFINE M == Disconnect(L, Processes[s] \ L.running)
<1>1. M \in Steady(s) /\ Poised(L, M)
    BY DisconnectSteady
<1>2. StopProcesses(s, L) = Stop(M, M.running)
    BY DEF StopProcesses
<1> HIDE DEF M
<1> QED
    BY <1>1, <1>2, StopSteady DEF Poised

\* An instance is launched over a connection only.
LEMMA LaunchSteady ==
    ASSUME NEW s \in Subsystem, NEW L \in Steady(s), NEW D
    PROVE  LET M == Launch(L, D) IN
           /\ M \in Loose(s) /\ Poised(L, M) /\ M.maybe = L.maybe
           /\ D = {} \/ L.sock = "open" => M \in Steady(s)
<1> DEFINE M == Launch(L, D)
           live == [p \in Process |-> IF p \in D THEN "starting" ELSE L.live[p]]
           others == [p \in Process |-> IF p \in D /\ L.live[p] # "none"
                                        THEN OneMore(L.others[p], L.live[p])
                                        ELSE L.others[p]]
<1>1. L \in Local /\ M \in Sound(s)
    BY SteadySound, LaunchSound
<1>2. /\ M.running = L.running /\ M.maybe = L.maybe /\ M.umb = L.umb
      /\ M.restarts = L.restarts /\ M.alarm = L.alarm /\ M.tries = L.tries
      /\ M.oper = L.oper /\ M.admin = L.admin /\ M.active = L.active /\ M.co = L.co
      /\ M.sock = L.sock /\ M.events = L.events
    BY <1>1, Zenon DEF Launch, Local
<1>3. M.live = live /\ M.others = others
    BY <1>1, Zenon DEF Launch, Local
<1>4. D = {} => \A p \in Process : live[p] = L.live[p] /\ others[p] = L.others[p]
    OBVIOUS
<1> HIDE DEF M, live, others
<1>5. Poised(L, M)
    BY <1>2 DEF Poised
<1>6. Kept(s, M)
    BY <1>2, <1>5, PoisedAlone DEF Steady, Loose, Kept
<1>7. D = {} \/ L.sock = "open" => Wires(s, M)
    BY <1>2, <1>3, <1>4 DEF Steady, Wires, Still
<1> QED
    BY <1>1, <1>2, <1>5, <1>6, <1>7 DEF Steady, Loose, M

LEMMA ConnectSteady ==
    ASSUME NEW s \in Subsystem, NEW L \in Steady(s)
    PROVE  LET M == Connect(s, L) IN
           M \in Steady(s) /\ Poised(L, M) /\ M.maybe = Processes[s]
<1> DEFINE M == Connect(s, L)
           new == Processes[s] \ L.maybe
           up == [L EXCEPT !.maybe = @ \cup new, !.refs = @ + Cardinality(new),
                           !.umb = "connecting"]
<1>1. L \in Local /\ M \in Sound(s) /\ L.maybe \subseteq Processes[s]
    BY SteadySound, ConnectSound DEF Sound
<1>2. CASE new = {}
  <2>1. M = L
      BY <1>2 DEF Connect
  <2> QED
      BY <1>1, <1>2, <2>1 DEF Poised
<1>3. CASE new # {}
  <2>1. M = up \/ M = [up EXCEPT !.conn = @ + 1]
      BY <1>3 DEF Connect
  <2>2. L.maybe \cup new = Processes[s]
      BY <1>1
  <2> HIDE DEF new, M
  <2>3. PICK n : M = [L EXCEPT !.maybe = @ \cup new, !.refs = @ + Cardinality(new),
                             !.umb = "connecting", !.conn = n]
    <3>1. up = [L EXCEPT !.maybe = @ \cup new, !.refs = @ + Cardinality(new),
                         !.umb = "connecting", !.conn = L.conn]
        BY <1>1, Zenon DEF Local
    <3>2. [up EXCEPT !.conn = @ + 1]
            = [L EXCEPT !.maybe = @ \cup new, !.refs = @ + Cardinality(new),
                        !.umb = "connecting", !.conn = L.conn + 1]
        BY <1>1, Zenon DEF Local
    <3> QED
        BY <2>1, <3>1, <3>2
  <2>4. /\ M.running = L.running /\ M.maybe = L.maybe \cup new /\ M.umb = "connecting"
        /\ M.restarts = L.restarts /\ M.alarm = L.alarm /\ M.tries = L.tries
        /\ M.oper = L.oper /\ M.admin = L.admin /\ M.active = L.active /\ M.co = L.co
        /\ M.events = L.events
      BY <1>1, <2>3, Zenon DEF Local
  <2> HIDE DEF up
  <2>5. Poised(L, M)
      BY <2>4 DEF Poised
  <2>6. Kept(s, M)
      BY <2>4, <2>5, PoisedAlone DEF Steady, Loose, Kept
  <2>7. Wires(s, M)
      BY <2>4 DEF Steady, Wires
  <2> QED
      BY <1>1, <2>2, <2>4, <2>5, <2>6, <2>7 DEF Steady, Loose, M
<1> QED
    BY <1>2, <1>3

-----------------------------------------------------------------------------
(* Restarts, crashes, aborts and commands.                                 *)

\* A coroutine that goes to sleep before a restart has nothing to be fit for.
LEMMA SleepTold ==
    ASSUME NEW s \in Subsystem, NEW L \in Steady(s), NEW i \in Slot,
           NEW at \in {"wait", "nap"}, L.restarts < MaxRestarts,
           Alone(L) /\ i = 1 => /\ L.oper = L.co[1].state /\ Wanted(L)
                                /\ L.co[1].state \in Crashing
    PROVE  [L EXCEPT !.restarts = @ + 1, !.co[i].at = at] \in Told(s)
<1> DEFINE M == [L EXCEPT !.restarts = @ + 1, !.co[i].at = at]
           K == [L EXCEPT !.co[i].at = at]
<1>1. L \in Local /\ L \in Sound(s) /\ L.co \in [Slot -> Coroutine] /\ L.co[i] \in Coroutine
    BY SteadySound, Fields
<1>2. M \in Sound(s)
  <2>1. K \in Sound(s)
      BY <1>1, CoroutineSound, Zenon
  <2>2. L.restarts + 1 \in Nat
      BY <1>1, Fields
  <2>3. M = [K EXCEPT !.restarts = L.restarts + 1]
      BY <1>1, Zenon DEF Local
  <2> HIDE DEF K, M
  <2> QED
      BY <2>1, <2>2, <2>3, FieldSound
<1>3. /\ M.running = L.running /\ M.maybe = L.maybe /\ M.umb = L.umb
      /\ M.restarts = L.restarts + 1 /\ M.alarm = L.alarm /\ M.tries = L.tries
      /\ M.oper = L.oper /\ M.admin = L.admin /\ M.active = L.active
      /\ M.co = [L.co EXCEPT ![i].at = at]
      /\ M.sock = L.sock /\ M.events = L.events /\ M.live = L.live /\ M.others = L.others
    BY <1>1, Zenon DEF Local
<1> HIDE DEF M
<1>4. M.co[i].at = at /\ M.co[i].state = L.co[i].state
    BY <1>1, <1>3 DEF Coroutine
<1>5. \A j \in Slot \ {i} : M.co[j] = L.co[j]
    BY <1>1, <1>3
<1>6. Alone(M) => Alone(L) /\ i = 1
    BY <1>4, <1>5, SlotAssumption DEF Alone
<1>7. Kept(s, M)
  <2>1. L.restarts \in Nat /\ MaxRestarts \in Nat
      BY <1>1, Fields, BoundAssumption
  <2>2. M.restarts <= MaxRestarts
      BY <1>3, <2>1
  <2> QED
      BY <1>3, <1>6, <2>2 DEF Steady, Loose, Kept
<1>8. Wires(s, M)
    BY <1>3 DEF Steady, Wires, Still
<1>9. ASSUME Alone(M) PROVE Shape(s, M)
    BY <1>3, <1>4, <1>6, <1>9 DEF Shape, Wanted
<1> QED
    BY <1>2, <1>7, <1>8, <1>9 DEF Told, Steady, Loose, M

LEMMA RestartIfPossibleTold ==
    ASSUME NEW s \in Subsystem, NEW L \in Steady(s), NEW i \in Slot,
           Alone(L) /\ i = 1 => /\ L.oper = L.co[1].state /\ Wanted(L)
                                /\ L.co[1].state \in Crashing
    PROVE  RestartIfPossible(L, i) \in Told(s)
<1>1. L.co[i].cid \in ClientId /\ "Broken" \in OperState
    BY SteadySound, CoroutineFields, States
<1>2. CASE L.restarts = MaxRestarts
  <2>1. Fit(s, L, "Broken")
      BY <1>2 DEF Fit, Stopping
  <2> QED
      BY <1>1, <1>2, <2>1, EnterStateTold DEF RestartIfPossible
<1>3. CASE L.restarts # MaxRestarts
  <2>1. L.restarts < MaxRestarts
      BY <1>3, SteadySound, Fields, BoundAssumption DEF Steady, Loose, Kept
  <2> QED
      BY <1>3, <2>1, SleepTold DEF RestartIfPossible
<1> QED
    BY <1>2, <1>3

\* A crash is read in three states; the handler stays, gives up, or sleeps.
LEMMA AfterCrashTold ==
    ASSUME NEW s \in Subsystem, NEW L \in Told(s), NEW i \in Slot, NEW how,
           NEW p \in Processes[s], L.co[i].at = "run",
           L.co[i].state \in Crashing
    PROVE  AfterCrash(s, i, L, p, how) \in Told(s)
<1> DEFINE c == L.co[i].cid
           st == L.co[i].state
           M == SetStopped(L, p)
           A == [M EXCEPT !.alarm = @ \cup {p}]
           T == [A EXCEPT !.tries[p] = @ + 1, !.timers = @ + 1]
           W == [A EXCEPT !.restarts = @ + 1, !.co[i].at = "wait"]
           alone == Policy[s] = "processOnly" \/ L.oper = "RestartingProcesses"
<1>1. /\ L \in Steady(s) /\ p \in Process /\ c \in ClientId /\ L \in Local
      /\ "Broken" \in OperState /\ "Degraded" \in OperState
    BY Finite, SteadySound, CoroutineFields, States DEF Told
<1>2. Alone(L) => i = 1 /\ L.oper = st /\ Wanted(L) /\ Fit(s, L, st)
                  /\ Waiting(s, L, st, L.co[i].next)
    BY OnlyOne DEF Told, Shape
<1>3. /\ M \in Steady(s) /\ M \in Local /\ Poised(L, M) /\ p \notin M.running
      /\ M.maybe = L.maybe
      /\ M.umb = L.umb /\ M.restarts = L.restarts /\ M.tries = L.tries
      /\ M.running \subseteq L.running
    BY <1>1, SetStoppedSteady, SteadySound
<1>4. ASSUME NEW N \in Steady(s), Poised(L, N), N.maybe = L.maybe, N.umb = L.umb,
             p \in OneShot \/ alone
      PROVE  N \in Told(s)
  <2>1. ASSUME Alone(N) PROVE Shape(s, N)
    <3>1. Alone(L) /\ i = 1 /\ Wanted(N)
        BY <1>2, <1>4, <2>1, PoisedAlone DEF Poised, Wanted
    <3>2. st = "Online" => ~Whole(s)
        BY <1>2, <1>4, <3>1 DEF Whole
    <3>3. Fit(s, N, st) /\ Waiting(s, N, st, L.co[i].next)
        BY <1>2, <1>4, <3>1, <3>2 DEF Fit, Waiting, Poised, Crashing
    <3> QED
        BY <1>2, <1>4, <3>1, <3>3 DEF Shape, Poised
  <2> QED
      BY <1>4, <2>1 DEF Told
<1>5. A \in Steady(s) /\ A \in Local /\ Poised(L, A) /\ p \in A.alarm /\ A.maybe = L.maybe
      /\ A.umb = L.umb /\ A.restarts = L.restarts /\ A.tries = L.tries
  <2> HIDE DEF M
  <2>1. A \in Sound(s)
    <3>1. M.alarm \cup {p} \in SUBSET Process
        BY <1>1, <1>3, Fields
    <3> QED
        BY <1>3, <3>1, SteadySound, FieldSound
  <2>2. /\ A.running = M.running /\ A.maybe = M.maybe /\ A.umb = M.umb
        /\ A.restarts = M.restarts /\ A.alarm = M.alarm \cup {p} /\ A.tries = M.tries
        /\ A.oper = M.oper /\ A.admin = M.admin /\ A.active = M.active /\ A.co = M.co
        /\ A.sock = M.sock /\ A.events = M.events /\ A.live = M.live /\ A.others = M.others
      BY <1>3, Zenon DEF Local
  <2> HIDE DEF A
  <2>3. Poised(M, A)
      BY <2>2 DEF Poised
  <2>4. A.alarm \cap A.running = {}
      BY <1>3, <2>2 DEF Steady, Loose, Kept
  <2>5. Kept(s, A)
      BY <1>3, <2>2, <2>3, <2>4, PoisedAlone DEF Steady, Loose, Kept
  <2>6. Wires(s, A)
      BY <1>3, <2>2 DEF Steady, Wires, Still
  <2>7. A \in Steady(s)
      BY <2>1, <2>5, <2>6 DEF Steady, Loose
  <2>8. Poised(L, A)
      BY <1>3, <2>3 DEF Poised
  <2> QED
      BY <1>3, <2>2, <2>7, <2>8, SteadySound
<1>6. Alone(A) => /\ i = 1 /\ A.oper = A.co[1].state /\ Wanted(A)
                  /\ A.co[1].state \in Crashing
    BY <1>2, <1>5, PoisedAlone DEF Poised, Wanted, Crashing
<1> HIDE DEF M, A
<1>7. ASSUME NEW b \in {"Broken", "Degraded"}, Fit(s, A, b)
      PROVE  EnterState(A, i, b, c) \in Told(s)
    BY <1>1, <1>5, <1>6, <1>7, EnterStateTold
<1>8. CASE p \in OneShot
  <2>1. M \in Told(s)
      BY <1>3, <1>4, <1>8
  <2>2. Fit(s, A, "Broken")
      BY <1>8 DEF Fit, Stopping
  <2> QED
      BY <1>7, <1>8, <2>1, <2>2 DEF AfterCrash, A, M
<1>9. CASE p \notin OneShot /\ alone /\ L.tries[p] = MaxProcRestarts
  <2>1. Fit(s, A, "Degraded")
      BY <1>5, <1>9 DEF Fit, Stopping
  <2> QED
      BY <1>7, <1>9, <2>1 DEF AfterCrash, A, M
<1>10. CASE p \notin OneShot /\ alone /\ L.tries[p] # MaxProcRestarts
  <2>1. /\ A.tries[p] + 1 \in Nat /\ A.tries[p] + 1 <= MaxProcRestarts
        /\ A.tries \in [Process -> Nat] /\ A.timers + 1 \in Nat
    <3>1. A.tries[p] \in Nat /\ A.tries[p] <= MaxProcRestarts /\ A.timers \in Nat
          /\ A.tries \in [Process -> Nat]
        BY <1>1, <1>5, Fields DEF Steady, Loose, Kept
    <3>2. A.tries[p] # MaxProcRestarts
        BY <1>5, <1>10
    <3> QED
        BY <3>1, <3>2, BoundAssumption
  <2>2. T \in Sound(s)
    <3>1. [A.tries EXCEPT ![p] = @ + 1] \in [Process -> Nat]
        BY <2>1
    <3> QED
        BY <2>1, <3>1, <1>5, SteadySound, ZenonT(40) DEF Local, Sound
  <2>3. /\ T.running = A.running /\ T.maybe = A.maybe /\ T.umb = A.umb
        /\ T.restarts = A.restarts /\ T.alarm = A.alarm
        /\ T.tries = [A.tries EXCEPT ![p] = @ + 1]
        /\ T.oper = A.oper /\ T.admin = A.admin /\ T.active = A.active /\ T.co = A.co
        /\ T.sock = A.sock /\ T.events = A.events /\ T.live = A.live /\ T.others = A.others
      BY <1>5, Zenon DEF Local
  <2> HIDE DEF T
  <2>4. Poised(A, T)
      BY <2>3 DEF Poised
  <2>5. Kept(s, T)
    <3>1. \A q \in Process : T.tries[q] <= MaxProcRestarts
        BY <1>5, <2>1, <2>3 DEF Steady, Loose, Kept
    <3> QED
        BY <1>5, <2>3, <2>4, <3>1, PoisedAlone DEF Steady, Loose, Kept
  <2>6. Wires(s, T)
      BY <1>5, <2>3 DEF Steady, Wires, Still
  <2>7. T \in Steady(s)
      BY <2>2, <2>5, <2>6 DEF Steady, Loose
  <2>8. Poised(L, T)
      BY <1>5, <2>4 DEF Poised
  <2>9. T \in Told(s)
      BY <1>4, <1>5, <1>10, <2>3, <2>7, <2>8
  <2> QED
      BY <1>10, <2>9 DEF AfterCrash, A, M, T
<1>11. CASE p \notin OneShot /\ ~alone /\ Policy[s] = "manual"
  <2>1. Fit(s, A, "Degraded")
      BY <1>5, <1>11 DEF Fit, Stopping
  <2> QED
      BY <1>7, <1>11, <2>1 DEF AfterCrash, A, M
<1>12. CASE p \notin OneShot /\ ~alone /\ Policy[s] # "manual" /\ L.restarts = MaxRestarts
  <2>1. Fit(s, A, "Broken")
      BY <1>5, <1>12 DEF Fit, Stopping
  <2> QED
      BY <1>7, <1>12, <2>1 DEF AfterCrash, A, M
<1>13. CASE p \notin OneShot /\ ~alone /\ Policy[s] # "manual" /\ L.restarts # MaxRestarts
  <2>1. A.restarts < MaxRestarts
      BY <1>1, <1>5, <1>13, Fields, BoundAssumption DEF Steady, Loose, Kept
  <2>2. W \in Told(s)
      BY <1>5, <1>6, <2>1, SleepTold
  <2> QED
      BY <1>13, <2>2 DEF AfterCrash, A, M
<1> QED
    BY <1>8, <1>9, <1>10, <1>11, <1>12, <1>13

\* Updates of what neither Kept nor Wires looks at.
LEMMA AbortSubsystemTold ==
    ASSUME NEW s \in Subsystem, NEW L \in Told(s), NEW i \in Slot, NEW m
    PROVE  AbortSubsystem(s, L, i, m) \in Told(s)
<1> DEFINE M == [L EXCEPT !.admin = "Offline", !.active = {}, !.running = {}]
<1>1. L \in Local /\ L \in Sound(s) /\ L \in Steady(s)
    BY SteadySound DEF Told
<1>2. M \in Sound(s)
  <2>1. {} \in SUBSET Client /\ {} \in SUBSET Process /\ "Offline" \in AdminState
      BY DEF AdminState
  <2> QED
      BY <1>1, <2>1, Zenon DEF Local, Sound
<1>3. /\ M.running = {} /\ M.maybe = L.maybe /\ M.umb = L.umb
      /\ M.restarts = L.restarts /\ M.alarm = L.alarm /\ M.tries = L.tries
      /\ M.admin = "Offline" /\ M.co = L.co
      /\ M.sock = L.sock /\ M.events = L.events /\ M.live = L.live /\ M.others = L.others
    BY <1>1, Zenon DEF Local
<1> HIDE DEF M
<1>4. Kept(s, M)
    BY <1>1, <1>3 DEF Steady, Loose, Kept
<1>5. Wires(s, M)
    BY <1>1, <1>3 DEF Steady, Wires, Still
<1>6. M \in Steady(s) /\ Wanted(M)
    BY <1>2, <1>3, <1>4, <1>5 DEF Steady, Loose, Wanted
<1>7. EnterState(M, i, "Offline", NoClient) \in Told(s)
    BY <1>6, FreeStates, States, EnterStateTold
<1> QED
    BY <1>7 DEF AbortSubsystem, M

SameCourse(L, M) == M.oper = L.oper /\ M.admin = L.admin /\ M.co = L.co

\* A command changes the active clients, and its answer depends on them.
LEMMA CommandSteady ==
    ASSUME NEW s \in Subsystem, NEW L \in Steady(s), NEW P, NEW m \in Message,
           NEW a \in OperState, NEW b \in OperState
    PROVE  LET H == HandleAdminCommand(s, L, P, m, a, b) IN
           /\ H.sub \in Steady(s) /\ SameBody(L, H.sub) /\ SameCourse(L, H.sub)
           /\ m.state = "Online" => L.active \subseteq H.sub.active
           /\ H.next \in {a, b} /\ H.next \in OperState
           /\ H.next # b => H.sub.active # {}
<1> DEFINE M == SetClient(L, m)
           H == HandleAdminCommand(s, L, P, m, a, b)
<1>1. L \in Local /\ M \in Sound(s)
    BY SteadySound, SetClientSound
<1>2. /\ SameBody(L, M) /\ M.oper = L.oper /\ M.admin = L.admin /\ M.co = L.co
    BY <1>1, Zenon DEF SetClient, Local, SameBody
<1>3. m.state = "Online" => L.active \subseteq M.active
  <2>1. m.state = "Online" => M.active = L.active \cup Bits(m.client)
      BY <1>1, Zenon DEF SetClient, Local
  <2> QED
      BY <2>1
<1>4. H.sub = M /\ H.next = IF M.active = {} THEN b ELSE a
    BY Zenon DEF HandleAdminCommand
<1> HIDE DEF M, H
<1>5. M \in Steady(s)
    BY <1>1, <1>2, SameSteady DEF Alone
<1> QED
    BY <1>2, <1>3, <1>4, <1>5 DEF H, SameCourse

\* What Adopt does to a state; the coroutine aims at H.next afterwards.
LEMMA AdoptSteady ==
    ASSUME NEW s \in Subsystem, NEW i \in Slot, NEW m \in Message, NEW stop,
           NEW H, H.sub \in Steady(s), H.next \in OperState
    PROVE  LET L == H.sub
               M == Adopt(H, i, m, stop)
           IN  /\ M \in Steady(s) /\ SameBody(L, M)
               /\ M.oper = L.oper /\ M.active = L.active
               /\ M.admin = IF H.next = stop THEN "Offline" ELSE L.admin
               /\ M.co[i].next = H.next
               /\ \A j \in Slot : /\ M.co[j].at = L.co[j].at
                                  /\ M.co[j].state = L.co[j].state
<1> DEFINE L == H.sub
           M == Adopt(H, i, m, stop)
           f == [L.co[i] EXCEPT !.next = H.next, !.cid = m.client]
<1>1. L \in Local /\ L.co \in [Slot -> Coroutine] /\ L.co[i] \in Coroutine
      /\ M \in Sound(s)
  <2>1. H.sub \in Sound(s) /\ H.sub \in Local
      BY SteadySound
  <2>2. M \in Sound(s)
      BY <2>1, AdoptSound
  <2> HIDE DEF M
  <2> QED
      BY <2>1, <2>2, Fields
<1>2. /\ SameBody(L, M) /\ M.oper = L.oper /\ M.active = L.active
      /\ M.admin = IF H.next = stop THEN "Offline" ELSE L.admin
      /\ M.co = [L.co EXCEPT ![i].next = H.next, ![i].cid = m.client]
    BY <1>1, Zenon DEF Adopt, Local, SameBody
<1>3. f.at = L.co[i].at /\ f.state = L.co[i].state /\ f.next = H.next
    BY <1>1 DEF Coroutine
<1>4. [L.co EXCEPT ![i].next = H.next, ![i].cid = m.client] = [L.co EXCEPT ![i] = f]
    BY <1>1
<1> HIDE DEF M, f
<1>5. \A j \in Slot : M.co[j] = IF j = i THEN f ELSE L.co[j]
    BY <1>1, <1>2, <1>4
<1>6. M \in Steady(s)
    BY <1>1, <1>2, <1>3, <1>5, SameSteady DEF Alone
<1> QED
    BY <1>2, <1>3, <1>5, <1>6 DEF M

\* The answers to a command in a state that starts, and in one that stops.
Starts(st, a, b) ==
    <<st, a, b>> \in {<<"StartingChildren", "Connecting", "StoppingChildren">>,
                      <<"StartingProcesses", "Online", "StoppingProcesses">>,
                      <<"Online", "Online", "StoppingProcesses">>}

Stops(st, a, b) ==
    <<st, a, b>> \in {<<"StoppingProcesses", "Connecting", "StoppingChildren">>,
                      <<"StoppingChildren", "StartingChildren", "Offline">>}

\* A coroutine of a state that can be told to stop takes the answer over.
LEMMA AdoptTold ==
    ASSUME NEW s \in Subsystem, NEW L \in Told(s), NEW i \in Slot, NEW P,
           NEW m \in Message, NEW a \in OperState, NEW b \in OperState, L.co[i].at = "run",
           Starts(L.co[i].state, a, b)
    PROVE  LET H == HandleAdminCommand(s, L, P, m, a, b)
               M == Adopt(H, i, m, b)
           IN  /\ M \in Told(s) /\ M.co[i].at = "run" /\ M.co[i].state = L.co[i].state
               /\ M.co[i].next \in {a, b}
               /\ Wanted(M)
               /\ H.next # a => M.admin = "Offline"
<1> DEFINE H == HandleAdminCommand(s, L, P, m, a, b)
           M == Adopt(H, i, m, b)
<1>1. L \in Steady(s)
    BY DEF Told
<1>2. /\ H.sub \in Steady(s) /\ SameBody(L, H.sub) /\ SameCourse(L, H.sub)
      /\ H.next \in {a, b} /\ H.next \in OperState
      /\ H.next # b => H.sub.active # {}
    BY <1>1, CommandSteady, Zenon
<1> HIDE DEF H
<1>3. /\ M \in Steady(s) /\ SameBody(H.sub, M)
      /\ M.oper = L.oper /\ M.active = H.sub.active
      /\ M.admin = IF H.next = b THEN "Offline" ELSE L.admin
      /\ M.co[i].next = H.next
      /\ \A j \in Slot : /\ M.co[j].at = L.co[j].at
                         /\ M.co[j].state = L.co[j].state
    BY <1>2, AdoptSteady DEF SameCourse
<1> HIDE DEF M
<1>4. Wanted(M) /\ (H.next # a => M.admin = "Offline")
    BY <1>2, <1>3 DEF Wanted
<1>5. ASSUME Alone(M) PROVE Shape(s, M)
  <2>1. Alone(L) /\ i = 1 /\ Shape(s, L)
      BY <1>3, <1>5, OnlyOne DEF Alone, Told
  <2>2. M.running = L.running /\ M.maybe = L.maybe /\ M.umb = L.umb
      BY <1>2, <1>3 DEF SameBody
  <2>3. Fit(s, M, L.co[1].state)
      BY <2>1, <2>2 DEF Shape, Fit, Stopping, Starts
  <2>4. Waiting(s, M, L.co[1].state, H.next)
      BY <1>2, <1>4, <2>1, <2>2 DEF Shape, Fit, Waiting, Stopping, Starts
  <2> QED
      BY <1>3, <1>4, <2>1, <2>3, <2>4 DEF Shape
<1> QED
    BY <1>2, <1>3, <1>4, <1>5 DEF Told, M, H

RunsIn(L, i, st) == L.co[i].at = "run" /\ L.co[i].state = st

\* The coroutine of a stopping subsystem does, without touching the admin state.
LEMMA TakeOverTold ==
    ASSUME NEW s \in Subsystem, NEW L \in Told(s), NEW i \in Slot, NEW P,
           NEW m \in Message, NEW a \in OperState, NEW b \in OperState,
           NEW st, RunsIn(L, i, st), Stops(st, a, b)
    PROVE  LET H == HandleAdminCommand(s, L, P, m, a, b)
               M == [H.sub EXCEPT !.co[i].next = H.next, !.co[i].cid = m.client]
           IN  M \in Told(s) /\ RunsIn(M, i, st)
<1> DEFINE H == HandleAdminCommand(s, L, P, m, a, b)
           K == H.sub
           M == [K EXCEPT !.co[i].next = H.next, !.co[i].cid = m.client]
           f == [K.co[i] EXCEPT !.next = H.next, !.cid = m.client]
<1>1. L \in Steady(s) /\ L.co[i].at = "run" /\ L.co[i].state = st
    BY DEF Told, RunsIn
<1>2. /\ K \in Steady(s) /\ SameBody(L, K) /\ SameCourse(L, K)
      /\ H.next \in {a, b} /\ H.next \in OperState
    BY <1>1, CommandSteady, Zenon
<1> HIDE DEF H, K
<1>3. K \in Local /\ K.co \in [Slot -> Coroutine] /\ K.co[i] \in Coroutine
      /\ M \in Sound(s)
  <2>1. K \in Sound(s) /\ K \in Local
      BY <1>2, SteadySound
  <2>2. m.client \in ClientId
      BY MessageFields
  <2>3. M \in Sound(s)
      BY <1>2, <2>1, <2>2, CoroutineSound, Zenon
  <2> HIDE DEF M
  <2> QED
      BY <2>1, <2>3, Fields
<1>4. /\ SameBody(K, M) /\ M.oper = K.oper /\ M.admin = K.admin
      /\ M.co = [K.co EXCEPT ![i].next = H.next, ![i].cid = m.client]
    BY <1>3, Zenon DEF Local, SameBody
<1>5. f.at = K.co[i].at /\ f.state = K.co[i].state /\ f.next = H.next
    BY <1>3 DEF Coroutine
<1>6. [K.co EXCEPT ![i].next = H.next, ![i].cid = m.client] = [K.co EXCEPT ![i] = f]
    BY <1>3
<1> HIDE DEF M, f
<1>7. \A j \in Slot : M.co[j] = IF j = i THEN f ELSE K.co[j]
    BY <1>3, <1>4, <1>6
<1>8. M \in Steady(s)
    BY <1>2, <1>3, <1>4, <1>5, <1>7, SameSteady DEF Alone, SameCourse
<1>9. ASSUME Alone(M) PROVE Shape(s, M)
  <2>1. Alone(L) /\ i = 1 /\ Shape(s, L)
      BY <1>1, <1>2, <1>5, <1>7, <1>9, OnlyOne DEF Alone, Told, SameCourse
  <2>2. M.admin = "Offline"
      BY <1>1, <1>2, <1>4, <2>1 DEF Shape, Fit, Stopping, Stops, SameCourse
  <2>3. Fit(s, M, L.co[1].state) /\ Waiting(s, M, L.co[1].state, H.next)
      BY <1>1, <1>2, <2>1, <2>2 DEF Fit, Waiting, Stops, Stopping, SameCourse, SameBody
  <2> QED
      BY <1>2, <1>4, <1>5, <1>7, <2>1, <2>2, <2>3 DEF Shape, Wanted, SameCourse
<1> QED
    BY <1>1, <1>2, <1>5, <1>7, <1>8, <1>9 DEF RunsIn, SameCourse, Told, M, H, K

-----------------------------------------------------------------------------
(* The messages, and the ways to end a step.                               *)

LEMMA OwnMessages ==
    ASSUME NEW s \in Subsystem, NEW c \in ClientId
    PROVE  /\ \A t \in Subsystem \cup {Nobody}, a \in AdminState :
                 ChangeAdmin(t, c, a) \in OwnMessage(s)
           /\ \A t \in Subsystem, st \in OperState :
                 t \in Children[s] => ReportOper(t, st) \in OwnMessage(s)
           /\ \A D \in SUBSET Process, code \in {"Abort", "EmergencyAbort", "Restart",
                                              "RestartProcesses", "RestartCrashed"} :
                 (code = "RestartProcesses" => ~Quiet(s))
                    => Order(code, c, D) \in OwnMessage(s)
<1>1. \A t \in Subsystem \cup {Nobody}, a \in AdminState :
          ChangeAdmin(t, c, a) \in OwnMessage(s)
    BY MessageTypes, States DEF OwnMessage, ChangeAdmin
<1>2. \A t \in Subsystem, st \in OperState :
          t \in Children[s] => ReportOper(t, st) \in OwnMessage(s)
    BY MessageTypes DEF OwnMessage, ReportOper
<1>3. \A D \in SUBSET Process, code \in {"Abort", "EmergencyAbort", "Restart",
                                       "RestartProcesses", "RestartCrashed"} :
          (code = "RestartProcesses" => ~Quiet(s)) => Order(code, c, D) \in OwnMessage(s)
    BY MessageTypes, States DEF OwnMessage, Order
<1> QED
    BY <1>1, <1>2, <1>3

LEMMA OwnTake ==
    ASSUME pipe \in OwnPipes, NEW s \in Subsystem, pipe[s] # <<>>
    PROVE  /\ Take(s) \in OwnPipes /\ Take(s) \in Pipes
           /\ Head(pipe[s]) \in OwnMessage(s) /\ Head(pipe[s]) \in Message
<1>1. pipe \in Pipes /\ pipe[s] \in Seq(OwnMessage(s))
    BY DEF OwnPipes
<1>2. Head(pipe[s]) \in OwnMessage(s) /\ Tail(pipe[s]) \in Seq(OwnMessage(s))
    BY <1>1
<1>3. Take(s) \in Pipes /\ Head(pipe[s]) \in Message
    BY <1>1, TakeType
<1>4. \A t \in Subsystem : Take(s)[t] = IF t = s THEN Tail(pipe[s]) ELSE pipe[t]
    BY <1>1 DEF Take, Pipes
<1> QED
    BY <1>2, <1>3, <1>4 DEF OwnPipes

LEMMA OwnNotify ==
    ASSUME NEW P \in OwnPipes, NEW s \in Subsystem, NEW st \in OperState
    PROVE  NotifyParents(P, s, st) \in OwnPipes
<1>1. NotifyParents(P, s, st) \in Pipes
    BY NotifyParentsType DEF OwnPipes
<1>2. ASSUME NEW t \in Subsystem
      PROVE  NotifyParents(P, s, st)[t] \in Seq(OwnMessage(t))
  <2>1. P[t] \in Seq(OwnMessage(t))
      BY DEF OwnPipes
  <2>2. s \in Children[t] => ReportOper(s, st) \in OwnMessage(t)
      BY OwnMessages, States
  <2>3. s \in Children[t] => Append(P[t], ReportOper(s, st)) \in Seq(OwnMessage(t))
      BY <2>1, <2>2
  <2> QED
      BY <2>1, <2>3 DEF NotifyParents
<1> QED
    BY <1>1, <1>2 DEF OwnPipes

LEMMA OwnSend ==
    ASSUME NEW P \in OwnPipes, NEW s \in Subsystem, NEW st \in AdminState, NEW c \in ClientId
    PROVE  SendToChildren(P, s, st, c) \in OwnPipes
<1>1. SendToChildren(P, s, st, c) \in Pipes
    BY SendToChildrenType, States DEF OwnPipes
<1>2. ASSUME NEW t \in Subsystem
      PROVE  SendToChildren(P, s, st, c)[t] \in Seq(OwnMessage(t))
  <2>1. P[t] \in Seq(OwnMessage(t))
      BY DEF OwnPipes
  <2>2. ChangeAdmin(s, c, st) \in OwnMessage(t)
      BY OwnMessages
  <2>3. Append(P[t], ChangeAdmin(s, c, st)) \in Seq(OwnMessage(t))
      BY <2>1, <2>2
  <2> QED
      BY <2>1, <2>3 DEF SendToChildren
<1> QED
    BY <1>1, <1>2 DEF OwnPipes

LEMMA OwnAppend ==
    ASSUME NEW P \in OwnPipes, NEW s \in Subsystem, NEW m \in OwnMessage(s)
    PROVE  [P EXCEPT ![s] = Append(@, m)] \in OwnPipes
<1>1. P[s] \in Seq(OwnMessage(s)) /\ P[s] \in Seq(Message) /\ m \in Message
      /\ P \in Pipes
    BY DEF OwnPipes, Pipes, OwnMessage
<1>2. Append(P[s], m) \in Seq(OwnMessage(s)) /\ Append(P[s], m) \in Seq(Message)
    BY <1>1
<1> QED
    BY <1>1, <1>2 DEF OwnPipes, Pipes

LEMMA BeforeTold ==
    ASSUME LInv, NEW s \in Subsystem
    PROVE  /\ sub[s] \in Told(s) /\ sub[s] \in Steady(s) /\ sub[s] \in Local
           /\ pipe \in OwnPipes /\ sub[s].oper \in OperState
<1>1. sub[s] \in Told(s) /\ pipe \in OwnPipes
    BY DEF LInv
<1>2. sub[s] \in Local
    BY <1>1, SteadySound
<1> QED
    BY <1>1, <1>2, Fields DEF Told

\* What holds of s when its coroutine i is not dead and the only one.
LEMMA Only ==
    ASSUME NEW s \in Subsystem, NEW L \in Told(s), NEW i \in Slot, L.co[i].at # "dead",
           Alone(L)
    PROVE  /\ i = 1 /\ L.oper = L.co[i].state /\ Wanted(L)
           /\ L.co[i].at \in {"enter", "run"} => Fit(s, L, L.co[i].state)
           /\ L.co[i].at = "run" => Waiting(s, L, L.co[i].state, L.co[i].next)
BY OnlyOne DEF Told, Shape

LEMMA PutTold ==
    ASSUME IInv, LInv, NEW s \in Subsystem, NEW L \in Told(s), NEW P \in OwnPipes,
           Put(s, L, P)
    PROVE  LInv'
BY DEF Put, LInv, IInv, TypeOK

LEMMA SetTold ==
    ASSUME IInv, LInv, NEW s \in Subsystem, NEW L \in Told(s), NEW P \in OwnPipes,
           Set(s, L, P)
    PROVE  LInv'
BY PutTold DEF Set

LEMMA GotoTold ==
    ASSUME IInv, LInv, NEW s \in Subsystem, NEW i \in Slot, NEW L \in Steady(s),
           NEW P \in OwnPipes, NEW st \in OperState, NEW c \in ClientId,
           Goto(s, i, L, P, st, c), Alone(L) /\ i = 1 => Wanted(L) /\ Fit(s, L, st)
    PROVE  LInv'
BY EnterStateTold, SetTold DEF Goto

LEMMA NotifyAndRunTold ==
    ASSUME IInv, LInv, NEW s \in Subsystem, NEW i \in Slot, NEW L \in Steady(s),
           NEW next \in OperState, NotifyAndRun(s, i, L, next),
           Alone(L) /\ i = 1 => /\ L.oper = L.co[1].state /\ Wanted(L)
                                /\ Fit(s, L, L.co[1].state)
                                /\ Waiting(s, L, L.co[1].state, next)
    PROVE  LInv'
<1>1. NotifyParents(pipe, s, L.oper) \in OwnPipes
    BY BeforeTold, OwnNotify, SteadySound, Fields
<1>2. RunIn(L, i, next) \in Told(s)
    BY RunInTold
<1> QED
    BY <1>1, <1>2, SetTold DEF NotifyAndRun

LEMMA RestartNowTold ==
    ASSUME IInv, LInv, NEW s \in Subsystem, NEW i \in Slot, NEW L \in Steady(s),
           NEW P \in OwnPipes, NEW c \in ClientId, RestartNow(s, i, L, P, c),
           Alone(L) /\ i = 1 => Wanted(L)
    PROVE  LInv'
BY GotoTold, OwnSend, FreeStates, States DEF RestartNow

LEMMA CrashTold ==
    ASSUME IInv, LInv, NEW s \in Subsystem, NEW i \in Slot, NEW L \in Told(s),
           NEW P \in OwnPipes, NEW p \in Processes[s], NEW how, Crash(s, i, L, P, p, how),
           L.co[i].at = "run",
           L.co[i].state \in Crashing
    PROVE  LInv'
<1>1. Put(s, L, P) \/ Set(s, L, P) \/ Set(s, AfterCrash(s, i, L, p, how), P)
    BY Zenon DEF Crash
<1> QED
    BY <1>1, AfterCrashTold, PutTold, SetTold

\* The tail of a state, in a state of the subsystem that is told to be in it.
LEMMA TailsTold ==
    ASSUME IInv, LInv, NEW s \in Subsystem, NEW i \in Slot, NEW L \in Told(s),
           NEW P \in OwnPipes, L.co[i].at = "run"
    PROVE  LET st == L.co[i].state IN
           /\ st = "StartingChildren" /\ StartingChildrenTail(s, i, L, P) => LInv'
           /\ st = "Connecting" /\ ConnectingTail(s, i, L, P) => LInv'
           /\ st = "StartingProcesses" /\ StartingProcessesTail(s, i, L, P) => LInv'
           /\ st = "StoppingProcesses" /\ StoppingProcessesTail(s, i, L, P) => LInv'
           /\ st = "StoppingChildren" /\ StoppingChildrenTail(s, i, L, P) => LInv'
           /\ RestartingTail(s, i, L, P) => LInv'
           /\ RestartingProcessesTail(s, i, L, P) => LInv'
<1> DEFINE c == L.co[i].cid
           next == L.co[i].next
           st == L.co[i].state
<1>1. c \in ClientId /\ next \in OperState /\ L \in Steady(s) /\ L.oper \in OperState
    BY CoroutineFields, Fields, SteadySound DEF Told
<1>2. Alone(L) => Wanted(L) /\ Fit(s, L, st) /\ Waiting(s, L, st, next)
    BY Only
<1>3. ASSUME NEW Q \in OwnPipes, NEW new \in OperState, Goto(s, i, L, Q, new, c),
             Alone(L) => Fit(s, L, new)
      PROVE  LInv'
    BY <1>1, <1>2, <1>3, GotoTold
<1>4. {"Offline", "Connecting", "StartingProcesses"} \subseteq OperState
    BY DEF OperState
<1> HIDE DEF c, next, st
<1>5. ASSUME st = "StartingChildren", StartingChildrenTail(s, i, L, P) PROVE LInv'
  <2> DEFINE new == IF L.admin = "Offline" THEN "Offline" ELSE next
  <2>1. Goto(s, i, L, P, new, c) \/ Set(s, L, P)
      BY <1>5 DEF StartingChildrenTail, c, next
  <2>2. new \in OperState
      BY <1>1, <1>4
  <2>3. Alone(L) => new \in {"Offline", "Connecting"}
      BY <1>2, <1>5 DEF Waiting, Stopping
  <2> HIDE DEF new
  <2>4. Alone(L) => Fit(s, L, new)
      BY <2>3, FreeStates
  <2> QED
      BY <2>1, <2>2, <2>4, <1>3, SetTold
<1>6. ASSUME st = "Connecting", ConnectingTail(s, i, L, P) PROVE LInv'
  <2>1. Alone(L) => Fit(s, L, "StartingProcesses")
      BY <1>2, <1>6 DEF Waiting, Fit, Stopping
  <2>2. SendToChildren(P, s, "Online", c) \in OwnPipes
      BY <1>1, OwnSend, States
  <2> QED
      BY <2>1, <2>2, <1>3, <1>4, <1>6, SetTold DEF ConnectingTail, c
<1>7. ASSUME st = "StartingProcesses", StartingProcessesTail(s, i, L, P) PROVE LInv'
  <2>1. AllProcessesRunning(s, L) /\ Whole(s) => Processes[s] \subseteq L.running
      BY DEF AllProcessesRunning, Whole
  <2>2. Alone(L) /\ AllProcessesRunning(s, L) => Fit(s, L, next)
      BY <1>2, <1>7, <2>1 DEF Waiting, Fit, Stopping
  <2> QED
      BY <2>2, <1>1, <1>3, <1>7, SetTold DEF StartingProcessesTail, c, next
<1>8. ASSUME st = "StoppingProcesses", StoppingProcessesTail(s, i, L, P) PROVE LInv'
  <2>1. Alone(L) => Fit(s, L, next)
      BY <1>2, <1>8 DEF Waiting, Fit, Stopping
  <2>2. SendToChildren(P, s, "Offline", c) \in OwnPipes
      BY <1>1, OwnSend, States
  <2> QED
      BY <2>1, <2>2, <1>1, <1>3, <1>8, SetTold DEF StoppingProcessesTail, c, next
<1>9. ASSUME st = "StoppingChildren", StoppingChildrenTail(s, i, L, P) PROVE LInv'
  <2>1. Alone(L) => Fit(s, L, next)
      BY <1>2, <1>9 DEF Waiting, Fit, Stopping
  <2>2. SendToChildren(P, s, "Offline", c) \in OwnPipes
      BY <1>1, OwnSend, States
  <2>3. \/ Set(s, L, P) \/ Goto(s, i, L, P, next, c)
        \/ Goto(s, i, L, SendToChildren(P, s, "Offline", c), next, c)
      BY <1>9 DEF StoppingChildrenTail, c, next
  <2> QED
      BY <2>1, <2>2, <2>3, <1>1, <1>3, SetTold
<1>10. ASSUME RestartingTail(s, i, L, P) PROVE LInv'
  <2>1. \/ Set(s, L, P) \/ RestartNow(s, i, L, P, c)
        \/ Set(s, L, NotifyParents(P, s, L.oper))
      BY <1>10 DEF RestartingTail, c
  <2>2. NotifyParents(P, s, L.oper) \in OwnPipes
      BY <1>1, OwnNotify
  <2> QED
      BY <2>1, <2>2, <1>1, <1>2, SetTold, RestartNowTold
<1>11. ASSUME RestartingProcessesTail(s, i, L, P) PROVE LInv'
    BY <1>3, <1>4, <1>11, FreeStates, SetTold DEF RestartingProcessesTail, c
<1> QED
    BY <1>5, <1>6, <1>7, <1>8, <1>9, <1>10, <1>11 DEF st

-----------------------------------------------------------------------------
(* The prologues.                                                          *)

\* The state coroutine whose prologue runs, as the steps see it.
LEMMA Starting ==
    ASSUME LInv, NEW s \in Subsystem, NEW i \in Slot, NEW st, Entering(s, i, st)
    PROVE  /\ sub[s].co[i].cid \in ClientId
           /\ sub[s].co[i].state = st /\ sub[s].co[i].at = "enter"
           /\ Alone(sub[s]) => /\ i = 1 /\ sub[s].oper = st /\ Wanted(sub[s])
                               /\ Fit(s, sub[s], st)
<1>1. sub[s] \in Told(s) /\ sub[s] \in Local
    BY BeforeTold
<1> QED
    BY <1>1, Only, CoroutineFields DEF Entering

LEMMA EnterOfflineTold ==
    ASSUME IInv, LInv, NEW s \in Subsystem, NEW i \in Slot, EnterOffline(s, i)
    PROVE  LInv'
<1> DEFINE K == [sub[s] EXCEPT !.restarts = 0]
           L == Disconnect(K, Processes[s])
           M == ResetProcessRestarts(L)
<1>1. Entering(s, i, "Offline") /\ NotifyAndRun(s, i, M, "Offline")
    BY DEF EnterOffline
<1>2. K \in Steady(s) /\ Poised(sub[s], K)
    BY BeforeTold, NoRestartsSteady
<1> HIDE DEF K
<1>3. L \in Steady(s) /\ Poised(K, L) /\ L.umb = "closed"
    BY <1>2, DisconnectSteady
<1> HIDE DEF L
<1>4. M \in Steady(s) /\ Poised(L, M) /\ M.umb = "closed"
    BY <1>3, ResetSteady
<1> HIDE DEF M
<1>5. Poised(sub[s], M)
    BY <1>2, <1>3, <1>4 DEF Poised
<1>6. Alone(M) /\ i = 1 => /\ M.oper = M.co[1].state /\ M.co[1].state = "Offline"
                           /\ Wanted(M)
    BY <1>1, <1>5, PoisedAlone, Starting DEF Poised, Wanted
<1>7. Fit(s, M, "Offline") /\ Waiting(s, M, "Offline", "Offline")
    BY <1>4 DEF Fit, Waiting, Stopping
<1> QED
    BY <1>1, <1>4, <1>6, <1>7, NotifyAndRunTold, States

LEMMA EnterStartingChildrenTold ==
    ASSUME IInv, LInv, NEW s \in Subsystem, NEW i \in Slot, EnterStartingChildren(s, i)
    PROVE  LInv'
<1> DEFINE L == sub[s]
<1>1. Entering(s, i, "StartingChildren") /\ L \in Steady(s) /\ pipe \in OwnPipes
    BY BeforeTold DEF EnterStartingChildren
<1>2. /\ L.co[i].cid \in ClientId /\ L.co[i].state = "StartingChildren"
      /\ Alone(L) => i = 1 /\ L.oper = "StartingChildren" /\ Wanted(L)
    BY <1>1, Starting
<1>3. /\ Fit(s, L, "StartingChildren") /\ Fit(s, L, "Connecting")
      /\ Waiting(s, L, "StartingChildren", "Connecting")
    BY DEF Fit, Waiting, Stopping
<1>4. \/ Goto(s, i, L, pipe, "Connecting", L.co[i].cid)
      \/ NotifyAndRun(s, i, L, "Connecting")
    BY DEF EnterStartingChildren
<1> QED
    BY <1>1, <1>2, <1>3, <1>4, GotoTold, NotifyAndRunTold, States

LEMMA EnterConnectingTold ==
    ASSUME IInv, LInv, NEW s \in Subsystem, NEW i \in Slot, EnterConnecting(s, i)
    PROVE  LInv'
<1> DEFINE K == [sub[s] EXCEPT !.oper = "Connecting"]
           L == Connect(s, K)
<1>1. /\ Entering(s, i, "Connecting")
      /\ \/ Goto(s, i, L, pipe, "StartingProcesses", L.co[i].cid)
         \/ NotifyAndRun(s, i, L, "Connecting")
    BY DEF EnterConnecting
<1>2. /\ sub[s] \in Steady(s) /\ sub[s] \in Told(s) /\ pipe \in OwnPipes
      /\ sub[s] \in Local /\ sub[s] \in Sound(s)
    BY BeforeTold, SteadySound
<1>3. K \in Sound(s) /\ K.oper = "Connecting"
  <2>1. "Connecting" \in OperState
      BY States
  <2> QED
      BY <1>2, <2>1, FieldSound, Zenon DEF Local
<1>4. /\ SameBody(sub[s], K) /\ K.co = sub[s].co /\ K.admin = sub[s].admin
      /\ K.active = sub[s].active
    BY <1>2, Zenon DEF Local, SameBody
<1> HIDE DEF K
<1>5. K \in Steady(s)
    BY <1>2, <1>3, <1>4, SameSteady DEF Alone
<1>6. L \in Steady(s) /\ Poised(K, L) /\ L.maybe = Processes[s]
    BY <1>5, ConnectSteady
<1> HIDE DEF L
<1>7. Alone(L) /\ i = 1 => /\ L.oper = L.co[1].state /\ L.co[1].state = "Connecting"
                           /\ Wanted(L)
    BY <1>1, <1>3, <1>4, <1>6, PoisedAlone, Starting DEF Poised, Wanted, Alone
<1>8. /\ Fit(s, L, "Connecting") /\ Waiting(s, L, "Connecting", "Connecting")
      /\ Fit(s, L, "StartingProcesses")
    BY <1>6 DEF Fit, Waiting, Stopping
<1>9. L.co[i].cid \in ClientId
    BY <1>6, SteadySound, CoroutineFields
<1> QED
    BY <1>1, <1>2, <1>6, <1>7, <1>8, <1>9, GotoTold, NotifyAndRunTold, States

\* The state in which a launch begins.
LEMMA LaunchingTold ==
    ASSUME LInv, NEW s \in Subsystem, NEW i \in Slot, Entering(s, i, "StartingProcesses")
    PROVE  LET L == [sub[s] EXCEPT !.oper = "StartingProcesses"] IN
           /\ L \in Steady(s) /\ L.sock = sub[s].sock
           /\ Alone(L) => /\ i = 1 /\ L.oper = L.co[1].state /\ Wanted(L)
                          /\ L.co[1].state = "StartingProcesses"
                          /\ L.maybe = Processes[s]
<1> DEFINE L == [sub[s] EXCEPT !.oper = "StartingProcesses"]
<1>1. sub[s] \in Steady(s) /\ sub[s] \in Local /\ sub[s] \in Sound(s)
    BY BeforeTold, SteadySound
<1>2. L \in Sound(s) /\ L.oper = "StartingProcesses"
  <2>1. "StartingProcesses" \in OperState
      BY States
  <2> QED
      BY <1>1, <2>1, FieldSound, Zenon DEF Local
<1>3. /\ SameBody(sub[s], L) /\ L.co = sub[s].co /\ L.admin = sub[s].admin
      /\ L.active = sub[s].active
    BY <1>1, Zenon DEF Local, SameBody
<1> HIDE DEF L
<1>4. L \in Steady(s)
    BY <1>1, <1>2, <1>3, SameSteady DEF Alone
<1>5. Alone(sub[s]) => /\ i = 1 /\ Wanted(sub[s]) /\ sub[s].maybe = Processes[s]
                       /\ sub[s].co[i].state = "StartingProcesses"
    BY Starting DEF Fit
<1>6. Alone(L) => Alone(sub[s])
    BY <1>3 DEF Alone
<1>7. Alone(L) => /\ i = 1 /\ L.oper = L.co[1].state /\ Wanted(L)
                  /\ L.co[1].state = "StartingProcesses"
                  /\ L.maybe = Processes[s]
    BY <1>2, <1>3, <1>5, <1>6 DEF SameBody, Wanted
<1>8. L.sock = sub[s].sock
    BY <1>3 DEF SameBody
<1> QED
    BY <1>4, <1>7, <1>8 DEF L

\* A launch that was made, and one that failed.
LEMMA LaunchedTold ==
    ASSUME NEW s \in Subsystem, NEW i \in Slot, NEW L \in Steady(s), NEW M \in Steady(s),
           Poised(L, M), M.maybe = L.maybe,
           Alone(L) => /\ i = 1 /\ L.oper = L.co[1].state /\ Wanted(L)
                       /\ L.co[1].state = "StartingProcesses"
                       /\ L.maybe = Processes[s]
    PROVE  /\ RestartIfPossible(M, i) \in Told(s)
           /\ Alone(M) /\ i = 1 => /\ M.oper = M.co[1].state /\ Wanted(M)
                                   /\ Fit(s, M, M.co[1].state)
                                   /\ Waiting(s, M, M.co[1].state, "Online")
<1>1. Alone(M) => /\ i = 1 /\ M.oper = M.co[1].state /\ Wanted(M)
                  /\ M.co[1].state = "StartingProcesses"
                  /\ M.maybe = Processes[s]
    BY PoisedAlone, SlotAssumption DEF Poised, Wanted
<1>2. Alone(M) => /\ Fit(s, M, M.co[1].state)
                  /\ Waiting(s, M, M.co[1].state, "Online")
    BY <1>1 DEF Fit, Waiting, Stopping
<1>3. RestartIfPossible(M, i) \in Told(s)
    BY <1>1, RestartIfPossibleTold DEF Crashing
<1> QED
    BY <1>1, <1>2, <1>3

LEMMA EnterStartingProcessesTold ==
    ASSUME IInv, LInv, NEW s \in Subsystem, NEW i \in Slot, EnterStartingProcesses(s, i)
    PROVE  LInv'
<1> DEFINE L == [sub[s] EXCEPT !.oper = "StartingProcesses"]
           D == ToLaunch(s)
           o == IF L.admin = "Offline" THEN "Offline" ELSE "Online"
           K == Launch(L, D)
<1>1. /\ Entering(s, i, "StartingProcesses")
      /\ \/ /\ o = "Offline" \/ Processes[s] = {}
            /\ Goto(s, i, L, NotifyParents(pipe, s, o), o, L.co[i].cid)
         \/ /\ D = {} \/ L.sock = "open"
            /\ NotifyAndRun(s, i, K, "Online")
         \/ NotifyAndRun(s, i, CloseSocket(K), "Online")
         \/ Set(s, RestartIfPossible(CloseSocket(L), i), pipe)
    BY Zenon DEF EnterStartingProcesses
<1>2. /\ L \in Steady(s) /\ pipe \in OwnPipes
      /\ Alone(L) => /\ i = 1 /\ L.oper = L.co[1].state /\ Wanted(L)
                     /\ L.co[1].state = "StartingProcesses"
                     /\ L.maybe = Processes[s]
    BY <1>1, LaunchingTold, BeforeTold
<1> HIDE DEF L, D
<1>3. /\ K \in Loose(s) /\ Poised(L, K) /\ K.maybe = L.maybe
      /\ D = {} \/ L.sock = "open" => K \in Steady(s)
    BY <1>2, LaunchSteady
<1> HIDE DEF K
<1>4. L.co[i].cid \in ClientId
    BY <1>2, SteadySound, CoroutineFields
<1>5. CASE /\ o = "Offline" \/ Processes[s] = {}
           /\ Goto(s, i, L, NotifyParents(pipe, s, o), o, L.co[i].cid)
  <2>1. Fit(s, L, o)
      BY <1>5 DEF Fit, Stopping
  <2>2. NotifyParents(pipe, s, o) \in OwnPipes /\ o \in OperState
      BY <1>2, OwnNotify, States
  <2> QED
      BY <1>2, <1>4, <1>5, <2>1, <2>2, GotoTold
<1>6. CASE (D = {} \/ L.sock = "open") /\ NotifyAndRun(s, i, K, "Online")
    BY <1>2, <1>3, <1>6, LaunchedTold, NotifyAndRunTold, States
<1>7. CASE NotifyAndRun(s, i, CloseSocket(K), "Online")
  <2>1. CloseSocket(K) \in Steady(s) /\ Poised(K, CloseSocket(K))
        /\ CloseSocket(K).maybe = K.maybe
      BY <1>3, CloseSocketSteady
  <2>2. Poised(L, CloseSocket(K))
      BY <1>3, <2>1 DEF Poised
  <2> QED
      BY <1>2, <1>3, <1>7, <2>1, <2>2, LaunchedTold, NotifyAndRunTold, States
<1>8. CASE Set(s, RestartIfPossible(CloseSocket(L), i), pipe)
  <2>1. CloseSocket(L) \in Steady(s) /\ Poised(L, CloseSocket(L))
        /\ CloseSocket(L).maybe = L.maybe
      BY <1>2, SteadySound, CloseSocketSteady
  <2> QED
      BY <1>2, <1>8, <2>1, LaunchedTold, SetTold
<1> QED
    BY <1>1, <1>5, <1>6, <1>7, <1>8

LEMMA LaunchFailsTold ==
    ASSUME IInv, LInv, NEW s \in Subsystem, NEW i \in Slot, LaunchFails(s, i)
    PROVE  LInv'
<1> DEFINE L == [sub[s] EXCEPT !.oper = "StartingProcesses"]
<1>1. PICK K \in SUBSET ToLaunch(s) : Put(s, RestartIfPossible(Launch(L, K), i), pipe)
    BY Zenon DEF LaunchFails
<1>2. Entering(s, i, "StartingProcesses") /\ sub[s].sock = "open" /\ pipe \in OwnPipes
    BY BeforeTold DEF LaunchFails
<1>3. /\ L \in Steady(s) /\ L.sock = "open"
      /\ Alone(L) => /\ i = 1 /\ L.oper = L.co[1].state /\ Wanted(L)
                     /\ L.co[1].state = "StartingProcesses"
                     /\ L.maybe = Processes[s]
    BY <1>2, LaunchingTold
<1> HIDE DEF L
<1>4. /\ Launch(L, K) \in Steady(s) /\ Poised(L, Launch(L, K))
      /\ Launch(L, K).maybe = L.maybe
    BY <1>3, LaunchSteady
<1> QED
    BY <1>1, <1>2, <1>3, <1>4, LaunchedTold, PutTold

LEMMA EnterStoppingTold ==
    ASSUME IInv, LInv, NEW s \in Subsystem, NEW i \in Slot,
           EnterStoppingProcesses(s, i) \/ EnterStoppingChildren(s, i)
    PROVE  LInv'
<1> DEFINE L == sub[s]
           c == L.co[i].cid
           K == StopProcesses(s, L)
           M == [L EXCEPT !.co[i].off = {c}]
<1>1. L \in Steady(s) /\ pipe \in OwnPipes /\ L \in Local /\ L \in Sound(s)
      /\ L \in Told(s) /\ c \in ClientId
    BY BeforeTold, SteadySound, CoroutineFields
<1>2. CASE EnterStoppingProcesses(s, i)
  <2>1. /\ Entering(s, i, "StoppingProcesses")
        /\ \/ Goto(s, i, L, SendToChildren(pipe, s, "Offline", c), "StoppingChildren", c)
           \/ NotifyAndRun(s, i, K, "StoppingChildren")
      BY <1>2 DEF EnterStoppingProcesses
  <2>2. Alone(L) => /\ i = 1 /\ L.oper = "StoppingProcesses" /\ Wanted(L)
                    /\ L.admin = "Offline" /\ L.co[i].state = "StoppingProcesses"
      BY <2>1, Starting DEF Fit, Stopping
  <2>3. Alone(L) => Fit(s, L, "StoppingChildren")
      BY <2>2 DEF Fit, Stopping
  <2>4. K \in Steady(s) /\ Poised(L, K)
      BY <1>1, StopProcessesSteady
  <2> HIDE DEF K, L
  <2>5. Alone(K) /\ i = 1 =>
            /\ K.oper = K.co[1].state /\ Wanted(K)
            /\ K.co[1].state = "StoppingProcesses" /\ K.admin = "Offline"
      BY <2>2, <2>4, PoisedAlone DEF Poised, Wanted
  <2>6. Alone(K) /\ i = 1 => /\ Fit(s, K, "StoppingProcesses")
                             /\ Waiting(s, K, "StoppingProcesses", "StoppingChildren")
      BY <2>5 DEF Fit, Waiting, Stopping
  <2>7. SendToChildren(pipe, s, "Offline", c) \in OwnPipes
      BY <1>1, OwnSend, States
  <2> QED
      BY <1>1, <2>1, <2>2, <2>3, <2>4, <2>5, <2>6, <2>7, GotoTold, NotifyAndRunTold, States
<1>3. CASE EnterStoppingChildren(s, i)
  <2>1. /\ Entering(s, i, "StoppingChildren")
        /\ \/ Goto(s, i, L, pipe, "Offline", c)
           \/ NotifyAndRun(s, i, M, "Offline")
      BY <1>3 DEF EnterStoppingChildren
  <2>2. Alone(L) => /\ i = 1 /\ L.oper = "StoppingChildren" /\ Wanted(L)
                    /\ L.admin = "Offline" /\ L.co[i].state = "StoppingChildren"
      BY <2>1, Starting DEF Fit, Stopping
  <2>3. M \in Sound(s)
      BY <1>1, CoroutineSound
  <2>4. /\ SameBody(L, M) /\ M.oper = L.oper /\ M.admin = L.admin /\ M.active = L.active
        /\ M.co = [L.co EXCEPT ![i].off = {c}]
      BY <1>1, Zenon DEF Local, SameBody
  <2>5. L.co \in [Slot -> Coroutine] /\ L.co[i] \in Coroutine
      BY <1>1, Fields
  <2> HIDE DEF M, L, c
  <2>6. Poised(L, M)
      BY <2>4, <2>5 DEF Poised, Coroutine
  <2>7. M \in Told(s) /\ M \in Steady(s)
      BY <1>1, <2>3, <2>4, <2>6, SameTold DEF Told
  <2>8. Alone(M) /\ i = 1 =>
            /\ M.oper = M.co[1].state /\ Wanted(M)
            /\ M.co[1].state = "StoppingChildren" /\ M.admin = "Offline"
      BY <2>2, <2>6, PoisedAlone DEF Poised, Wanted
  <2>9. Alone(M) /\ i = 1 => /\ Fit(s, M, "StoppingChildren")
                             /\ Waiting(s, M, "StoppingChildren", "Offline")
      BY <2>8 DEF Fit, Waiting, Stopping
  <2> QED
      BY <1>1, <2>1, <2>2, <2>7, <2>8, <2>9, GotoTold, NotifyAndRunTold, FreeStates
<1> QED
    BY <1>2, <1>3

LEMMA EnterRestartingTold ==
    ASSUME IInv, LInv, NEW s \in Subsystem, NEW i \in Slot,
           EnterRestarting(s, i) \/ EnterRestartingProcesses(s, i)
    PROVE  LInv'
<1> DEFINE L == sub[s]
           c == L.co[i].cid
           K == StopProcesses(s, L)
<1>1. /\ L \in Steady(s) /\ pipe \in OwnPipes /\ c \in ClientId /\ L.oper \in OperState
      /\ NotifyParents(pipe, s, L.oper) \in OwnPipes
    BY BeforeTold, SteadySound, CoroutineFields, OwnNotify
<1>2. CASE EnterRestarting(s, i)
  <2>1. /\ Entering(s, i, "Restarting")
        /\ \/ Set(s, RunIn(K, i, "Restarting"), pipe)
           \/ RestartNow(s, i, L, pipe, c)
           \/ Set(s, RunIn(K, i, "Restarting"), NotifyParents(pipe, s, L.oper))
      BY <1>2 DEF EnterRestarting
  <2>2. Alone(L) => /\ i = 1 /\ L.oper = "Restarting" /\ Wanted(L)
                    /\ L.co[i].state = "Restarting"
      BY <2>1, Starting
  <2>3. K \in Steady(s) /\ Poised(L, K)
      BY <1>1, StopProcessesSteady
  <2> HIDE DEF K, L, c
  <2>4. Alone(K) /\ i = 1 => /\ K.oper = K.co[1].state /\ Wanted(K)
                             /\ K.co[1].state = "Restarting"
      BY <2>2, <2>3, PoisedAlone DEF Poised, Wanted
  <2>5. Fit(s, K, "Restarting") /\ Waiting(s, K, "Restarting", "Restarting")
      BY DEF Fit, Waiting, Stopping
  <2>6. RunIn(K, i, "Restarting") \in Told(s)
      BY <2>3, <2>4, <2>5, RunInTold, States
  <2> QED
      BY <1>1, <2>1, <2>2, <2>6, SetTold, RestartNowTold
<1>3. CASE EnterRestartingProcesses(s, i)
  <2> DEFINE st == "RestartingProcesses"
  <2>1. /\ Entering(s, i, st)
        /\ \/ Set(s, RunIn(L, i, st), pipe)
           \/ Goto(s, i, L, pipe, "Connecting", c)
           \/ Set(s, RunIn(L, i, st), NotifyParents(pipe, s, L.oper))
      BY <1>3 DEF EnterRestartingProcesses
  <2>2. Alone(L) => /\ i = 1 /\ L.oper = st /\ Wanted(L) /\ L.co[i].state = st
                    /\ Fit(s, L, st)
      BY <2>1, Starting
  <2>3. Waiting(s, L, st, st)
      BY DEF Waiting, Stopping
  <2>4. RunIn(L, i, st) \in Told(s)
      BY <1>1, <2>2, <2>3, RunInTold, States
  <2> QED
      BY <1>1, <2>1, <2>2, <2>4, FreeStates, GotoTold, SetTold
<1> QED
    BY <1>2, <1>3

LEMMA EnterSettledTold ==
    ASSUME IInv, LInv, NEW s \in Subsystem, NEW i \in Slot,
           EnterOnline(s, i) \/ EnterBroken(s, i)
    PROVE  LInv'
<1> DEFINE L == sub[s]
<1>1. PICK st \in {"Online", "Broken", "Degraded"} :
          Entering(s, i, st) /\ NotifyAndRun(s, i, L, st)
    BY DEF EnterOnline, EnterBroken, Entering
<1>2. L \in Steady(s) /\ st \in OperState
    BY BeforeTold, States
<1>3. Alone(L) => /\ i = 1 /\ L.oper = st /\ Wanted(L) /\ L.co[i].state = st
                  /\ Fit(s, L, st)
    BY <1>1, Starting
<1>4. Waiting(s, L, st, st)
    BY DEF Waiting, Stopping
<1> QED
    BY <1>1, <1>2, <1>3, <1>4, NotifyAndRunTold

LEMMA PrologueTold ==
    ASSUME IInv, LInv, NEW s \in Subsystem, NEW i \in Slot, Prologue(s, i)
    PROVE  LInv'
BY EnterOfflineTold, EnterStartingChildrenTold, EnterConnectingTold,
   EnterStartingProcessesTold, EnterStoppingTold, EnterRestartingTold, EnterSettledTold
   DEF Prologue

-----------------------------------------------------------------------------
(* The messages.                                                           *)

\* What a coroutine that reads a message may rely on.
LEMMA ReceivingTold ==
    ASSUME LInv, NEW s \in Subsystem, NEW i \in Slot, NEW st, NEW code,
           Receives(s, i, st, code)
    PROVE  /\ sub[s] \in Told(s) /\ sub[s] \in Steady(s)
           /\ sub[s].co[i].at = "run" /\ sub[s].co[i].state = st
           /\ sub[s].co[i].cid \in ClientId
           /\ Take(s) \in OwnPipes
           /\ NotifyParents(Take(s), s, sub[s].oper) \in OwnPipes
           /\ Head(pipe[s]) \in OwnMessage(s) /\ Head(pipe[s]) \in Message
           /\ Head(pipe[s]).code = code
           /\ Head(pipe[s]).client \in ClientId /\ Head(pipe[s]).state \in OperState
           /\ Alone(sub[s]) => /\ i = 1 /\ sub[s].oper = st /\ Wanted(sub[s])
                               /\ Fit(s, sub[s], st)
                               /\ Waiting(s, sub[s], st, sub[s].co[i].next)
<1>1. /\ sub[s] \in Told(s) /\ sub[s] \in Steady(s) /\ sub[s] \in Local
      /\ pipe \in OwnPipes /\ sub[s].oper \in OperState
    BY BeforeTold
<1>2. /\ sub[s].co[i].at = "run" /\ sub[s].co[i].state = st
      /\ pipe[s] # <<>> /\ Head(pipe[s]).code = code
    BY DEF Receives, Running
<1>3. /\ Take(s) \in OwnPipes
      /\ Head(pipe[s]) \in OwnMessage(s) /\ Head(pipe[s]) \in Message
    BY <1>1, <1>2, OwnTake
<1>4. NotifyParents(Take(s), s, sub[s].oper) \in OwnPipes
    BY <1>1, <1>3, OwnNotify
<1>5. Head(pipe[s]).client \in ClientId /\ Head(pipe[s]).state \in OperState
    BY <1>3, MessageFields
<1> QED
    BY <1>1, <1>2, <1>3, <1>4, <1>5, Only, CoroutineFields

LEMMA GetsAbortTold ==
    ASSUME IInv, LInv, NEW s \in Subsystem, NEW i \in Slot,
           GetsAbort(s, i) \/ GetsRestart(s, i) \/ GetsIgnored(s, i)
    PROVE  LInv'
<1>1. CASE GetsAbort(s, i)
  <2>1. PICK st, code : Receives(s, i, st, code)
      BY <1>1 DEF GetsAbort
  <2>2. AbortSubsystem(s, sub[s], i, Head(pipe[s])) \in Told(s)
      BY <2>1, ReceivingTold, AbortSubsystemTold
  <2> QED
      BY <1>1, <2>1, <2>2, ReceivingTold, SetTold DEF GetsAbort
<1>2. CASE GetsRestart(s, i)
  <2>1. PICK st : Receives(s, i, st, "Restart")
      BY <1>2 DEF GetsRestart
  <2>2. Goto(s, i, sub[s], Take(s), "Restarting", sub[s].co[i].cid)
      BY <1>2 DEF GetsRestart
  <2> QED
      BY <2>1, <2>2, ReceivingTold, GotoTold, FreeStates
<1>3. CASE GetsIgnored(s, i)
  <2>1. PICK st, code : Receives(s, i, st, code)
      BY <1>3 DEF GetsIgnored
  <2> QED
      BY <1>3, <2>1, ReceivingTold, SetTold DEF GetsIgnored
<1> QED
    BY <1>1, <1>2, <1>3

\* Updates of what the operational state does not depend on.
LEMMA FieldTold ==
    ASSUME NEW s \in Subsystem, NEW L \in Steady(s), NEW D \in SUBSET Process,
           NEW b \in BOOLEAN
    PROVE  /\ [L EXCEPT !.todo = D] \in Steady(s) /\ Poised(L, [L EXCEPT !.todo = D])
           /\ L \in Told(s) => [L EXCEPT !.interactive = b] \in Told(s)
<1>1. L \in Local /\ L \in Sound(s)
    BY SteadySound
<1> DEFINE M == [L EXCEPT !.todo = D]
           N == [L EXCEPT !.interactive = b]
<1>2. M \in Sound(s) /\ N \in Sound(s)
    BY <1>1, FieldSound
<1>3. /\ SameBody(L, M) /\ M.oper = L.oper /\ M.admin = L.admin
      /\ M.active = L.active /\ M.co = L.co
    BY <1>1, Zenon DEF Local, SameBody
<1>4. /\ SameBody(L, N) /\ N.oper = L.oper /\ N.admin = L.admin
      /\ N.active = L.active /\ N.co = L.co
    BY <1>1, Zenon DEF Local, SameBody
<1> HIDE DEF M, N
<1>5. Poised(L, M) /\ Poised(L, N)
    BY <1>3, <1>4 DEF Poised
<1> QED
    BY <1>2, <1>3, <1>4, <1>5, PoisedAlone, SameSteady, SameTold DEF M, N

LEMMA ActiveSteady ==
    ASSUME NEW s \in Subsystem, NEW L \in Steady(s), NEW A \in SUBSET Client
    PROVE  LET M == [L EXCEPT !.active = A] IN
           M \in Steady(s) /\ M.active = A /\ M.admin = L.admin /\ M.co = L.co
<1> DEFINE M == [L EXCEPT !.active = A]
<1>1. L \in Local /\ M \in Sound(s)
    BY SteadySound, FieldSound
<1>2. SameBody(L, M) /\ M.active = A /\ M.admin = L.admin /\ M.co = L.co
    BY <1>1, Zenon DEF Local, SameBody
<1> HIDE DEF M
<1>3. M \in Steady(s)
    BY <1>1, <1>2, SameSteady DEF Alone
<1> QED
    BY <1>2, <1>3 DEF M

LEMMA AdminSteady ==
    ASSUME NEW s \in Subsystem, NEW L \in Steady(s), NEW a \in AdminState
    PROVE  LET M == [L EXCEPT !.admin = a] IN
           M \in Steady(s) /\ M.active = L.active /\ M.admin = a /\ M.co = L.co
<1> DEFINE M == [L EXCEPT !.admin = a]
<1>1. L \in Local /\ M \in Sound(s)
    BY SteadySound, FieldSound
<1>2. SameBody(L, M) /\ M.active = L.active /\ M.admin = a /\ M.co = L.co
    BY <1>1, Zenon DEF Local, SameBody
<1> HIDE DEF M
<1>3. M \in Steady(s)
    BY <1>1, <1>2, SameSteady DEF Alone
<1> QED
    BY <1>2, <1>3 DEF M

LEMMA CoroutineTold ==
    ASSUME NEW s \in Subsystem, NEW L \in Told(s), NEW i \in Slot,
           NEW T \in SUBSET Subsystem, NEW O \in SUBSET ClientId, NEW D \in SUBSET Process
    PROVE  /\ [L EXCEPT !.co[i].told = T] \in Told(s)
           /\ [L EXCEPT !.co[i].off = O] \in Told(s)
           /\ [L EXCEPT !.co[i].started = D] \in Told(s)
           /\ Poised(L, [L EXCEPT !.co[i].told = T])
           /\ Poised(L, [L EXCEPT !.co[i].off = O])
           /\ Poised(L, [L EXCEPT !.co[i].started = D])
<1>1. L \in Local /\ L \in Sound(s) /\ L.co \in [Slot -> Coroutine] /\ L.co[i] \in Coroutine
    BY SteadySound, Fields
<1> DEFINE M == [L EXCEPT !.co[i].told = T]
           N == [L EXCEPT !.co[i].off = O]
           K == [L EXCEPT !.co[i].started = D]
<1>2. M \in Sound(s) /\ N \in Sound(s) /\ K \in Sound(s)
    BY <1>1, CoroutineSound
<1>3. /\ SameBody(L, M) /\ M.oper = L.oper /\ M.admin = L.admin /\ M.active = L.active
      /\ M.co = [L.co EXCEPT ![i].told = T]
    BY <1>1, Zenon DEF Local, SameBody
<1>4. /\ SameBody(L, N) /\ N.oper = L.oper /\ N.admin = L.admin /\ N.active = L.active
      /\ N.co = [L.co EXCEPT ![i].off = O]
    BY <1>1, Zenon DEF Local, SameBody
<1>5. /\ SameBody(L, K) /\ K.oper = L.oper /\ K.admin = L.admin /\ K.active = L.active
      /\ K.co = [L.co EXCEPT ![i].started = D]
    BY <1>1, Zenon DEF Local, SameBody
<1> HIDE DEF M, N, K
<1>6. Poised(L, M)
    BY <1>1, <1>3 DEF Poised, Coroutine
<1>7. Poised(L, N)
    BY <1>1, <1>4 DEF Poised, Coroutine
<1>8. Poised(L, K)
    BY <1>1, <1>5 DEF Poised, Coroutine
<1> QED
    BY <1>2, <1>3, <1>4, <1>5, <1>6, <1>7, <1>8, SameTold DEF M, N, K

\* The pipes after a command.
LEMMA OwnCommand ==
    ASSUME NEW s \in Subsystem, NEW L \in Local, NEW P \in OwnPipes, NEW m \in Message,
           NEW a, NEW b
    PROVE  HandleAdminCommand(s, L, P, m, a, b).pipe \in OwnPipes
<1> DEFINE M == SetClient(L, m)
           H == HandleAdminCommand(s, L, P, m, a, b)
<1>1. M.oper = L.oper
    BY Zenon DEF SetClient, Local
<1>2. H.pipe = P \/ H.pipe = NotifyParents(P, s, M.oper)
    BY Zenon DEF HandleAdminCommand
<1>3. L.oper \in OperState
    BY Fields
<1> HIDE DEF M, H
<1>4. H.pipe \in OwnPipes
    BY <1>1, <1>2, <1>3, OwnNotify
<1> QED
    BY <1>4 DEF H

LEMMA OfflineTold ==
    ASSUME IInv, LInv, NEW s \in Subsystem, NEW i \in Slot,
           OfflineChangeAdmin(s, i) \/ OfflineReportOper(s, i)
    PROVE  LInv'
<1> DEFINE L == sub[s]
           m == Head(pipe[s])
           H == Answer(s, "StartingChildren", "Offline")
           b == m.from = Nobody /\ m.client \in Interactive
           M == [H.sub EXCEPT !.interactive = b]
           N == [M EXCEPT !.admin = "Online"]
           P == SendToChildren(H.pipe, s, "Online", m.client)
<1>1. CASE OfflineChangeAdmin(s, i)
  <2>1. Receives(s, i, "Offline", "ChangeAdmin")
      BY <1>1 DEF OfflineChangeAdmin
  <2>2. /\ L \in Told(s) /\ L \in Steady(s) /\ L \in Local /\ Take(s) \in OwnPipes
        /\ NotifyParents(Take(s), s, L.oper) \in OwnPipes
        /\ m \in Message /\ m.client \in ClientId /\ m.state \in AdminState
        /\ b \in BOOLEAN
      BY <2>1, ReceivingTold, SteadySound DEF OwnMessage
  <2>3. /\ m.state = "Offline"
        /\ Set(s, L, NotifyParents(Take(s), s, L.oper))
        \/ /\ m.state # "Offline" /\ H.next = "Offline"
           /\ Set(s, M, H.pipe)
        \/ /\ m.state # "Offline" /\ H.next # "Offline"
           /\ Goto(s, i, N, P, "StartingChildren", NoClient)
      BY <1>1, Zenon DEF OfflineChangeAdmin, Answer
  <2>4. /\ H.sub \in Steady(s) /\ SameBody(L, H.sub) /\ SameCourse(L, H.sub)
        /\ m.state = "Online" => L.active \subseteq H.sub.active
        /\ H.next # "Offline" => H.sub.active # {}
      BY <2>2, States, CommandSteady, Zenon DEF Answer
  <2>5. H.pipe \in OwnPipes
      BY <2>2, OwnCommand DEF Answer
  <2>6. P \in OwnPipes
      BY <2>2, <2>5, OwnSend, States
  <2> HIDE DEF H, P, b
  <2>7. m.state # "Offline" => H.sub \in Told(s)
    <3> SUFFICES ASSUME m.state # "Offline" PROVE H.sub \in Told(s)
        OBVIOUS
    <3>1. m.state = "Online"
        BY <2>2 DEF AdminState
    <3>2. ASSUME Alone(H.sub) PROVE Shape(s, H.sub)
      <4>1. Alone(L) /\ Shape(s, L)
          BY <2>2, <2>4, <3>2 DEF SameCourse, Alone, Told
      <4>2. Wanted(H.sub)
          BY <2>4, <3>1, <4>1 DEF SameCourse, Wanted, Shape
      <4> QED
          BY <2>4, <4>1, <4>2 DEF SameBody, SameCourse, Shape, Fit, Waiting
    <3> QED
        BY <2>4, <3>2 DEF Told
  <2>8. m.state # "Offline" => M \in Told(s)
      BY <2>2, <2>4, <2>7, FieldTold
  <2>9. H.next # "Offline" /\ m.state # "Offline" => N \in Steady(s) /\ Wanted(N)
    <3> SUFFICES ASSUME H.next # "Offline", m.state # "Offline"
                 PROVE  N \in Steady(s) /\ Wanted(N)
        OBVIOUS
    <3>1. M \in Steady(s)
        BY <2>8 DEF Told
    <3>2. M.active = H.sub.active
      <4>1. H.sub \in Local
          BY <2>4, SteadySound
      <4> QED
          BY <4>1, Zenon DEF Local
    <3> HIDE DEF M
    <3>3. N \in Steady(s) /\ N.active = M.active
      <4>1. "Online" \in AdminState
          BY States
      <4> QED
          BY <3>1, <4>1, AdminSteady, ZenonT(40)
    <3> QED
        BY <2>4, <3>2, <3>3 DEF Wanted
  <2> HIDE DEF M, N, L
  <2> QED
      BY <2>2, <2>3, <2>5, <2>6, <2>8, <2>9, SetTold, GotoTold, FreeStates, States
<1>2. CASE OfflineReportOper(s, i)
  <2>1. Receives(s, i, "Offline", "ReportOper")
      BY <1>2 DEF OfflineReportOper
  <2>2. \/ Goto(s, i, L, Take(s), "Restarting", L.co[i].cid)
        \/ Set(s, L, NotifyParents(Take(s), s, L.oper))
      BY <1>2 DEF OfflineReportOper
  <2> QED
      BY <2>1, <2>2, ReceivingTold, SetTold, GotoTold, FreeStates
<1> QED
    BY <1>1, <1>2

\* A starting subsystem that reads a command, up to the tail of its state.
LEMMA StartsTold ==
    ASSUME LInv, NEW s \in Subsystem, NEW i \in Slot, NEW st, Receives(s, i, st, "ChangeAdmin"),
           NEW a \in OperState, NEW b \in OperState, Starts(st, a, b)
    PROVE  LET m == Head(pipe[s])
               H == Answer(s, a, b)
               M == Adopt(H, i, m, b)
           IN  /\ M \in Told(s) /\ M \in Steady(s)
               /\ M.co[i].at = "run" /\ M.co[i].state = st
               /\ Wanted(M) /\ (H.next # a => M.admin = "Offline")
               /\ H.pipe \in OwnPipes
               /\ SendToChildren(H.pipe, s, m.state, m.client) \in OwnPipes
<1> DEFINE m == Head(pipe[s])
           H == Answer(s, a, b)
           M == Adopt(H, i, m, b)
<1>1. /\ sub[s] \in Told(s) /\ sub[s] \in Local /\ sub[s].co[i].at = "run"
      /\ sub[s].co[i].state = st /\ Take(s) \in OwnPipes
      /\ m \in Message /\ m.client \in ClientId /\ m.state \in AdminState
    BY ReceivingTold, SteadySound DEF OwnMessage
<1>2. /\ M \in Told(s) /\ M.co[i].at = "run" /\ M.co[i].state = st
      /\ Wanted(M) /\ (H.next # a => M.admin = "Offline")
    BY <1>1, AdoptTold DEF Answer
<1>3. H.pipe \in OwnPipes
    BY <1>1, OwnCommand DEF Answer
<1> HIDE DEF H, M
<1>4. SendToChildren(H.pipe, s, m.state, m.client) \in OwnPipes
    BY <1>1, <1>3, OwnSend
<1> QED
    BY <1>2, <1>3, <1>4 DEF H, M, Told

LEMMA StartingChildrenTold ==
    ASSUME IInv, LInv, NEW s \in Subsystem, NEW i \in Slot,
           StartingChildrenChangeAdmin(s, i) \/ StartingChildrenReportOper(s, i)
    PROVE  LInv'
<1>1. CASE StartingChildrenChangeAdmin(s, i)
  <2> DEFINE m == Head(pipe[s])
             H == Answer(s, "Connecting", "StoppingChildren")
             M == Adopt(H, i, m, "StoppingChildren")
             P == SendToChildren(H.pipe, s, m.state, m.client)
  <2>1. /\ Receives(s, i, "StartingChildren", "ChangeAdmin")
        /\ StartingChildrenTail(s, i, M, P)
      BY <1>1, Zenon DEF StartingChildrenChangeAdmin, Answer
  <2>2. Starts("StartingChildren", "Connecting", "StoppingChildren")
      BY DEF Starts
  <2>3. /\ M \in Told(s) /\ M.co[i].at = "run" /\ M.co[i].state = "StartingChildren"
        /\ P \in OwnPipes
      BY <2>1, <2>2, StartsTold, States
  <2> HIDE DEF M, P
  <2> QED
      BY <2>1, <2>3, TailsTold
<1>2. CASE StartingChildrenReportOper(s, i)
  <2> DEFINE L == sub[s]
             m == Head(pipe[s])
             told == L.co[i].told \cup {m.from}
             K == [L EXCEPT !.co[i].told = told]
             P == NotifyParents(Take(s), s, L.oper)
  <2>1. /\ Receives(s, i, "StartingChildren", "ReportOper")
        /\ \/ Goto(s, i, L, Take(s), "Broken", L.co[i].cid)
           \/ StartingChildrenTail(s, i, K, P)
           \/ StartingChildrenTail(s, i, L, P)
    <3>1. K = [L EXCEPT !.co[i].told = @ \cup {m.from}]
        BY BeforeTold, Fields
    <3> QED
        BY <1>2, <3>1, Zenon DEF StartingChildrenReportOper
  <2>2. /\ L \in Told(s) /\ L \in Steady(s) /\ L \in Local
        /\ L.co[i].at = "run" /\ L.co[i].state = "StartingChildren"
        /\ L.co[i].cid \in ClientId /\ Take(s) \in OwnPipes /\ P \in OwnPipes
        /\ m \in OwnMessage(s) /\ m \in Message /\ m.code = "ReportOper"
        /\ Alone(L) => Wanted(L)
      BY <2>1, ReceivingTold, SteadySound
  <2>3. told \in SUBSET Subsystem
      BY <2>2, MessageFields, CoroutineFields
  <2> HIDE DEF L, told, P
  <2>4. K \in Told(s) /\ Poised(L, K)
      BY <2>2, <2>3, CoroutineTold
  <2> HIDE DEF K
  <2>5. K.co[i].at = "run" /\ K.co[i].state = "StartingChildren"
      BY <2>2, <2>4 DEF Poised
  <2>6. Fit(s, L, "Broken")
      BY <2>2 DEF OwnMessage, Fit, Stopping
  <2> QED
      BY <2>1, <2>2, <2>4, <2>5, <2>6, TailsTold, GotoTold, States
<1> QED
    BY <1>1, <1>2

LEMMA ConnectingTold ==
    ASSUME IInv, LInv, NEW s \in Subsystem, NEW i \in Slot,
           ConnectingChangeAdmin(s, i) \/ ConnectingReportOper(s, i)
    PROVE  LInv'
<1>1. CASE ConnectingChangeAdmin(s, i)
  <2> DEFINE m == Head(pipe[s])
             H == Answer(s, "StoppingProcesses", "StoppingProcesses")
             K == [H.sub EXCEPT !.admin = "Offline"]
  <2>1. /\ Receives(s, i, "Connecting", "ChangeAdmin")
        /\ \/ Goto(s, i, K, H.pipe, "StoppingProcesses", m.client)
           \/ ConnectingTail(s, i, sub[s], Take(s))
      BY <1>1, Zenon DEF ConnectingChangeAdmin, Answer
  <2>2. /\ sub[s] \in Told(s) /\ sub[s] \in Steady(s) /\ sub[s] \in Local
        /\ sub[s].co[i].at = "run" /\ sub[s].co[i].state = "Connecting"
        /\ Take(s) \in OwnPipes /\ m \in Message /\ m.client \in ClientId
      BY <2>1, ReceivingTold, SteadySound
  <2>3. H.sub \in Steady(s)
      BY <2>2, States, CommandSteady, Zenon DEF Answer
  <2>4. H.pipe \in OwnPipes
      BY <2>2, OwnCommand DEF Answer
  <2> HIDE DEF H
  <2>5. K \in Steady(s) /\ K.admin = "Offline"
    <3>1. "Offline" \in AdminState
        BY States
    <3> QED
        BY <2>3, <3>1, AdminSteady, Zenon
  <2> HIDE DEF K
  <2>6. Wanted(K) /\ Fit(s, K, "StoppingProcesses")
      BY <2>5 DEF Wanted, Fit, Stopping
  <2> QED
      BY <2>1, <2>2, <2>4, <2>5, <2>6, GotoTold, TailsTold, States
<1>2. CASE ConnectingReportOper(s, i)
    BY <1>2, ReceivingTold, TailsTold DEF ConnectingReportOper
<1> QED
    BY <1>1, <1>2

LEMMA StartingProcessesTold ==
    ASSUME IInv, LInv, NEW s \in Subsystem, NEW i \in Slot,
           \/ StartingProcessesChangeAdmin(s, i)
           \/ StartingProcessesReportOper(s, i)
           \/ StartingProcessesRestartProcesses(s, i)
    PROVE  LInv'
<1>1. CASE StartingProcessesChangeAdmin(s, i)
  <2> DEFINE m == Head(pipe[s])
             H == Answer(s, "Online", "StoppingProcesses")
             M == Adopt(H, i, m, "StoppingProcesses")
             P == SendToChildren(H.pipe, s, m.state, m.client)
  <2>1. /\ Receives(s, i, "StartingProcesses", "ChangeAdmin")
        /\ StartingProcessesTail(s, i, M, P)
      BY <1>1, Zenon DEF StartingProcessesChangeAdmin, Answer
  <2>2. Starts("StartingProcesses", "Online", "StoppingProcesses")
      BY DEF Starts
  <2>3. /\ M \in Told(s) /\ M.co[i].at = "run" /\ M.co[i].state = "StartingProcesses"
        /\ P \in OwnPipes
      BY <2>1, <2>2, StartsTold, States
  <2> HIDE DEF M, P
  <2> QED
      BY <2>1, <2>3, TailsTold
<1>2. CASE StartingProcessesReportOper(s, i)
    BY <1>2, ReceivingTold, TailsTold DEF StartingProcessesReportOper
<1>3. CASE StartingProcessesRestartProcesses(s, i)
  <2>1. PICK code : Receives(s, i, "StartingProcesses", code)
      BY <1>3 DEF StartingProcessesRestartProcesses
  <2>2. Goto(s, i, sub[s], Take(s), "StartingProcesses", Head(pipe[s]).client)
      BY <1>3 DEF StartingProcessesRestartProcesses
  <2> QED
      BY <2>1, <2>2, ReceivingTold, GotoTold, States
<1> QED
    BY <1>1, <1>2, <1>3

LEMMA OnlineTold ==
    ASSUME IInv, LInv, NEW s \in Subsystem, NEW i \in Slot,
           \/ OnlineChangeAdmin(s, i) \/ OnlineReportOper(s, i)
           \/ OnlineRestartProcesses(s, i) \/ OnlineRestartCrashed(s, i)
    PROVE  LInv'
<1> DEFINE L == sub[s]
           m == Head(pipe[s])
<1>1. CASE OnlineChangeAdmin(s, i)
  <2> DEFINE H == Answer(s, "Online", "StoppingProcesses")
             M == Adopt(H, i, m, "StoppingProcesses")
  <2>1. /\ Receives(s, i, "Online", "ChangeAdmin")
        /\ \/ Set(s, L, NotifyParents(Take(s), s, L.oper))
           \/ Set(s, M, H.pipe)
           \/ H.next # "Online" /\ Goto(s, i, M, H.pipe, "StoppingProcesses", m.client)
      BY <1>1, Zenon DEF OnlineChangeAdmin, Answer
  <2>2. Starts("Online", "Online", "StoppingProcesses")
      BY DEF Starts
  <2>3. /\ M \in Told(s) /\ M \in Steady(s) /\ Wanted(M)
        /\ H.next # "Online" => M.admin = "Offline"
        /\ H.pipe \in OwnPipes
      BY <2>1, <2>2, StartsTold, States
  <2> HIDE DEF H, M
  <2>4. H.next # "Online" => Fit(s, M, "StoppingProcesses")
      BY <2>3 DEF Fit, Stopping
  <2> QED
      BY <2>1, <2>3, <2>4, ReceivingTold, SetTold, GotoTold, States
<1>2. CASE OnlineReportOper(s, i)
  <2>1. /\ Receives(s, i, "Online", "ReportOper")
        /\ \/ \E o \in {"Restarting", "Broken"} : Goto(s, i, L, Take(s), o, L.co[i].cid)
           \/ Set(s, L, Take(s))
      BY <1>2 DEF OnlineReportOper
  <2>2. m \in OwnMessage(s) /\ m.code = "ReportOper"
      BY <2>1, ReceivingTold
  <2>3. \A o \in {"Restarting", "Broken"} : Fit(s, L, o)
      BY <2>2 DEF OwnMessage, Fit, Stopping
  <2> QED
      BY <2>1, <2>3, ReceivingTold, SetTold, GotoTold, States
<1>3. CASE OnlineRestartProcesses(s, i)
  <2> DEFINE A == StopProcesses(s, L)
             B == Stop(L, m.procs \cap L.running)
             X == [A EXCEPT !.todo = Processes[s]]
             Y == [B EXCEPT !.todo = m.procs]
  <2>1. /\ Receives(s, i, "Online", "RestartProcesses")
        /\ \/ Goto(s, i, X, Take(s), "RestartingProcesses", m.client)
           \/ Goto(s, i, Y, Take(s), "RestartingProcesses", m.client)
      BY <1>3, Zenon DEF OnlineRestartProcesses
  <2>2. /\ L \in Steady(s) /\ Take(s) \in OwnPipes /\ m \in Message
        /\ m.client \in ClientId /\ ~Quiet(s)
        /\ Alone(L) => Wanted(L)
      BY <2>1, ReceivingTold DEF OwnMessage
  <2>3. A \in Steady(s) /\ Poised(L, A) /\ B \in Steady(s) /\ Poised(L, B)
      BY <2>2, StopProcessesSteady, StopSteady
  <2>4. Processes[s] \in SUBSET Process /\ m.procs \in SUBSET Process
      BY <2>2, Finite, MessageFields
  <2> HIDE DEF A, B, L, m
  <2>5. X \in Steady(s) /\ Poised(A, X) /\ Y \in Steady(s) /\ Poised(B, Y)
      BY <2>3, <2>4, FieldTold
  <2> HIDE DEF X, Y
  <2>6. Poised(L, X) /\ Poised(L, Y)
      BY <2>3, <2>5 DEF Poised
  <2>7. \A M : Fit(s, M, "RestartingProcesses")
      BY <2>2 DEF Fit, Stopping
  <2>8. (Alone(X) => Wanted(X)) /\ (Alone(Y) => Wanted(Y))
      BY <2>2, <2>6, PoisedAlone DEF Poised, Wanted
  <2> QED
      BY <2>1, <2>2, <2>5, <2>7, <2>8, GotoTold, States
<1>4. CASE OnlineRestartCrashed(s, i)
  <2>1. /\ Receives(s, i, "Online", "RestartCrashed")
        /\ Goto(s, i, L, Take(s), "Connecting", m.client)
      BY <1>4 DEF OnlineRestartCrashed
  <2> QED
      BY <2>1, ReceivingTold, GotoTold, FreeStates
<1> QED
    BY <1>1, <1>2, <1>3, <1>4

\* A stopping subsystem that reads a command, up to the tail of its state.
LEMMA StopsTold ==
    ASSUME LInv, NEW s \in Subsystem, NEW i \in Slot, NEW st, Receives(s, i, st, "ChangeAdmin"),
           NEW a \in OperState, NEW b \in OperState, Stops(st, a, b)
    PROVE  LET m == Head(pipe[s])
               H == Answer(s, a, b)
               M == [H.sub EXCEPT !.co[i].next = H.next, !.co[i].cid = m.client]
           IN  /\ M \in Told(s) /\ RunsIn(M, i, st)
               /\ H.sub \in Local /\ H.pipe \in OwnPipes
<1> DEFINE m == Head(pipe[s])
           H == Answer(s, a, b)
           M == [H.sub EXCEPT !.co[i].next = H.next, !.co[i].cid = m.client]
<1>1. /\ sub[s] \in Told(s) /\ sub[s] \in Local /\ RunsIn(sub[s], i, st)
      /\ Take(s) \in OwnPipes /\ m \in Message /\ sub[s] \in Steady(s)
    BY ReceivingTold, SteadySound DEF RunsIn
<1>2. M \in Told(s) /\ RunsIn(M, i, st)
    BY <1>1, TakeOverTold, Zenon DEF Answer
<1>3. H.sub \in Steady(s)
    BY <1>1, CommandSteady, Zenon DEF Answer
<1>4. H.pipe \in OwnPipes
    BY <1>1, OwnCommand DEF Answer
<1> HIDE DEF H, M
<1>5. H.sub \in Local
    BY <1>3, SteadySound
<1> QED
    BY <1>2, <1>4, <1>5 DEF H, M

LEMMA StoppingProcessesTold ==
    ASSUME IInv, LInv, NEW s \in Subsystem, NEW i \in Slot,
           StoppingProcessesChangeAdmin(s, i) \/ StoppingProcessesReportOper(s, i)
    PROVE  LInv'
<1>1. CASE StoppingProcessesChangeAdmin(s, i)
  <2> DEFINE m == Head(pipe[s])
             H == Answer(s, "Connecting", "StoppingChildren")
             M == [H.sub EXCEPT !.co[i].next = H.next, !.co[i].cid = m.client]
  <2>1. /\ Receives(s, i, "StoppingProcesses", "ChangeAdmin")
        /\ StoppingProcessesTail(s, i, M, H.pipe)
      BY <1>1, Zenon DEF StoppingProcessesChangeAdmin, Answer
  <2>2. Stops("StoppingProcesses", "Connecting", "StoppingChildren")
      BY DEF Stops
  <2>3. "Connecting" \in OperState /\ "StoppingChildren" \in OperState
      BY States
  <2>4. /\ M \in Told(s) /\ RunsIn(M, i, "StoppingProcesses")
        /\ H.sub \in Local /\ H.pipe \in OwnPipes
      BY <2>1, <2>2, <2>3, StopsTold, Zenon
  <2> HIDE DEF M, H
  <2> QED
      BY <2>1, <2>4, TailsTold DEF RunsIn
<1>2. CASE StoppingProcessesReportOper(s, i)
    BY <1>2, ReceivingTold, TailsTold DEF StoppingProcessesReportOper
<1> QED
    BY <1>1, <1>2

LEMMA StoppingChildrenTold ==
    ASSUME IInv, LInv, NEW s \in Subsystem, NEW i \in Slot,
           StoppingChildrenChangeAdmin(s, i) \/ StoppingChildrenReportOper(s, i)
    PROVE  LInv'
<1> DEFINE m == Head(pipe[s])
           L == sub[s]
<1>1. CASE StoppingChildrenChangeAdmin(s, i)
  <2> DEFINE H == Answer(s, "StartingChildren", "Offline")
             K == [H.sub EXCEPT !.co[i].next = H.next, !.co[i].cid = m.client]
             off == IF m.state = "Offline" THEN H.sub.co[i].off \cup {m.client}
                    ELSE H.sub.co[i].off \ {m.client}
             M == [H.sub EXCEPT !.co[i].next = H.next, !.co[i].cid = m.client,
                                !.co[i].off = off]
             N == [K EXCEPT !.co[i].off = off]
  <2>1. /\ Receives(s, i, "StoppingChildren", "ChangeAdmin")
        /\ StoppingChildrenTail(s, i, M, H.pipe)
      BY <1>1, Zenon DEF StoppingChildrenChangeAdmin, Answer
  <2>2. Stops("StoppingChildren", "StartingChildren", "Offline")
      BY DEF Stops
  <2>3. "StartingChildren" \in OperState /\ "Offline" \in OperState
      BY States
  <2>4. /\ K \in Told(s) /\ RunsIn(K, i, "StoppingChildren")
        /\ H.sub \in Local /\ H.pipe \in OwnPipes
      BY <2>1, <2>2, <2>3, StopsTold, Zenon
  <2>5. off \in SUBSET ClientId
    <3>1. H.sub.co[i].off \in SUBSET ClientId /\ m.client \in ClientId
        BY <2>1, <2>4, CoroutineFields, ReceivingTold
    <3> QED
        BY <3>1
  <2> HIDE DEF H, off, m
  <2>6. M = N
      BY <2>4, Zenon DEF Local
  <2> HIDE DEF K, M
  <2>7. N \in Told(s) /\ Poised(K, N)
      BY <2>4, <2>5, CoroutineTold
  <2> HIDE DEF N
  <2>8. N.co[i].at = "run" /\ N.co[i].state = "StoppingChildren"
      BY <2>4, <2>7 DEF Poised, RunsIn
  <2> QED
      BY <2>1, <2>4, <2>6, <2>7, <2>8, TailsTold
<1>2. CASE StoppingChildrenReportOper(s, i)
  <2> DEFINE told == L.co[i].told \cup {m.from}
             K == [L EXCEPT !.co[i].told = told]
             P == NotifyParents(Take(s), s, L.oper)
  <2>1. /\ Receives(s, i, "StoppingChildren", "ReportOper")
        /\ \/ StoppingChildrenTail(s, i, K, P)
           \/ StoppingChildrenTail(s, i, L, P)
    <3>1. K = [L EXCEPT !.co[i].told = @ \cup {m.from}]
        BY BeforeTold, Fields
    <3> QED
        BY <1>2, <3>1, Zenon DEF StoppingChildrenReportOper
  <2>2. /\ L \in Told(s) /\ L \in Local
        /\ L.co[i].at = "run" /\ L.co[i].state = "StoppingChildren"
        /\ P \in OwnPipes /\ m \in Message /\ m.code = "ReportOper"
      BY <2>1, ReceivingTold, SteadySound
  <2>3. told \in SUBSET Subsystem
      BY <2>2, MessageFields, CoroutineFields
  <2> HIDE DEF L, told, P
  <2>4. K \in Told(s) /\ Poised(L, K)
      BY <2>2, <2>3, CoroutineTold
  <2> HIDE DEF K
  <2>5. K.co[i].at = "run" /\ K.co[i].state = "StoppingChildren"
      BY <2>2, <2>4 DEF Poised
  <2> QED
      BY <2>1, <2>2, <2>4, <2>5, TailsTold
<1> QED
    BY <1>1, <1>2

LEMMA RestartingTold ==
    ASSUME IInv, LInv, NEW s \in Subsystem, NEW i \in Slot,
           \/ RestartingChangeAdmin(s, i) \/ RestartingReportOper(s, i)
           \/ RestartingProcessesChangeAdmin(s, i) \/ RestartingProcessesOther(s, i)
    PROVE  LInv'
<1> DEFINE L == sub[s]
<1>1. CASE RestartingChangeAdmin(s, i)
  <2>1. /\ Receives(s, i, "Restarting", "ChangeAdmin")
        /\ \/ RestartNow(s, i, L, Take(s), L.co[i].cid)
           \/ RestartingTail(s, i, L, NotifyParents(Take(s), s, L.oper))
      BY <1>1 DEF RestartingChangeAdmin
  <2> QED
      BY <2>1, ReceivingTold, RestartNowTold, TailsTold
<1>2. CASE RestartingReportOper(s, i)
    BY <1>2, ReceivingTold, TailsTold DEF RestartingReportOper
<1>3. CASE RestartingProcessesChangeAdmin(s, i)
  <2>1. /\ Receives(s, i, "RestartingProcesses", "ChangeAdmin")
        /\ \/ Goto(s, i, L, Take(s), "Connecting", L.co[i].cid)
           \/ RestartingProcessesTail(s, i, L, NotifyParents(Take(s), s, L.oper))
      BY <1>3 DEF RestartingProcessesChangeAdmin
  <2> QED
      BY <2>1, ReceivingTold, GotoTold, FreeStates, TailsTold
<1>4. CASE RestartingProcessesOther(s, i)
    BY <1>4, ReceivingTold, TailsTold DEF RestartingProcessesOther
<1> QED
    BY <1>1, <1>2, <1>3, <1>4

LEMMA BrokenTold ==
    ASSUME IInv, LInv, NEW s \in Subsystem, NEW i \in Slot,
           BrokenCommand(s, i) \/ BrokenRestartProcesses(s, i)
    PROVE  LInv'
<1> DEFINE m == Head(pipe[s])
           c == sub[s].co[i].cid
           K == [sub[s] EXCEPT !.restarts = 0]
           L == ResetProcessRestarts(K)
           P == SendToChildren(Take(s), s, m.state, m.client)
           A == [L EXCEPT !.active = @ \cup Bits(c)]
           X == [L EXCEPT !.active = @ \ Bits(c)]
           B == [L EXCEPT !.active = @ \ Bits(c), !.admin = "Offline"]
<1>1. PICK st, code : Receives(s, i, st, code)
    BY DEF BrokenCommand, BrokenRestartProcesses
<1>2. /\ sub[s] \in Steady(s) /\ Take(s) \in OwnPipes /\ c \in ClientId
      /\ Alone(sub[s]) => Wanted(sub[s])
      /\ m \in OwnMessage(s) /\ m.client \in ClientId
    BY <1>1, ReceivingTold
<1>3. K \in Steady(s) /\ Poised(sub[s], K)
    BY <1>2, NoRestartsSteady
<1> HIDE DEF K, c
<1>4. L \in Steady(s) /\ Poised(K, L)
    BY <1>3, ResetSteady
<1> HIDE DEF L
<1>5. Alone(L) => Wanted(L)
  <2>1. Alone(L) => Alone(sub[s])
      BY <1>3, <1>4, PoisedAlone
  <2>2. L.admin = sub[s].admin /\ L.active = sub[s].active
      BY <1>3, <1>4 DEF Poised
  <2> QED
      BY <1>2, <2>1, <2>2 DEF Wanted
<1>6. L.active \cup Bits(c) \in SUBSET Client /\ L.active \ Bits(c) \in SUBSET Client
    BY <1>2, <1>4, BitsType, Fields, SteadySound
<1>7. A \in Steady(s) /\ (Alone(A) => Wanted(A))
  <2>1. /\ A \in Steady(s) /\ A.active = L.active \cup Bits(c)
        /\ A.admin = L.admin /\ A.co = L.co
      BY <1>4, <1>6, ActiveSteady
  <2> HIDE DEF A
  <2> QED
      BY <1>5, <2>1 DEF Alone, Wanted
<1>8. B \in Steady(s) /\ Wanted(B) /\ Fit(s, B, "StoppingChildren")
  <2>1. X \in Steady(s)
      BY <1>4, <1>6, ActiveSteady
  <2>2. B = [X EXCEPT !.admin = "Offline"]
    <3>1. L \in Local
        BY <1>4, SteadySound
    <3> QED
        BY <3>1, Zenon DEF Local
  <2> HIDE DEF X, B
  <2>3. "Offline" \in AdminState
      BY States
  <2>4. B \in Steady(s) /\ B.admin = "Offline"
      BY <2>1, <2>2, <2>3, AdminSteady, Zenon
  <2> QED
      BY <2>4 DEF Wanted, Fit, Stopping
<1>9. CASE BrokenCommand(s, i)
  <2>1. \/ Goto(s, i, A, P, "StartingChildren", c)
        \/ Goto(s, i, B, P, "StoppingChildren", c)
      BY <1>9, Zenon DEF BrokenCommand, L, K, c
  <2>2. P \in OwnPipes
    <3>1. m.code # "ReportOper"
        BY <1>9 DEF BrokenCommand, Receives
    <3> QED
        BY <1>2, <3>1, OwnSend DEF OwnMessage
  <2> HIDE DEF A, B, P
  <2> QED
      BY <2>1, <2>2, <1>2, <1>7, <1>8, States, FreeStates, GotoTold
<1>10. CASE BrokenRestartProcesses(s, i)
  <2>1. Goto(s, i, A, Take(s), "Connecting", c)
      BY <1>10, Zenon DEF BrokenRestartProcesses, L, K, c
  <2> HIDE DEF A
  <2> QED
      BY <2>1, <1>2, <1>7, FreeStates, GotoTold
<1> QED
    BY <1>9, <1>10

LEMMA WaitForRestartTold ==
    ASSUME IInv, LInv, NEW s \in Subsystem, NEW i \in Slot,
           WaitForRestartMessage(s, i)
    PROVE  LInv'
<1> DEFINE m == Head(pipe[s])
           L == sub[s]
           c == L.co[i].cid
<1>1. /\ L.co[i].at = "wait" /\ pipe[s] # <<>>
      /\ \/ Goto(s, i, L, Take(s), "Restarting", c)
         \/ \E j \in Slot : Goto(s, i, AbortSubsystem(s, L, j, m), Take(s), "Restarting", c)
         \/ Set(s, L, Take(s))
    BY Zenon DEF WaitForRestartMessage, Waits
<1>2. L \in Told(s) /\ L \in Local /\ Take(s) \in OwnPipes
    BY <1>1, BeforeTold, OwnTake
<1>3. c \in ClientId /\ Fit(s, L, "Restarting") /\ "Restarting" \in OperState
    BY <1>2, CoroutineFields, FreeStates
<1> HIDE DEF L, m, c
<1>4. ASSUME NEW K \in Told(s) PROVE K \in Steady(s) /\ (Alone(K) => Wanted(K))
    BY DEF Told, Shape
<1>5. \A j \in Slot : AbortSubsystem(s, L, j, m) \in Told(s)
    BY <1>2, AbortSubsystemTold
<1> QED
    BY <1>1, <1>2, <1>3, <1>4, <1>5, FreeStates, GotoTold, SetTold

LEMMA GetsMessageTold ==
    ASSUME IInv, LInv, NEW s \in Subsystem, NEW i \in Slot, GetsMessage(s, i)
    PROVE  LInv'
BY GetsAbortTold, OfflineTold, StartingChildrenTold, ConnectingTold,
   StartingProcessesTold, OnlineTold, StoppingProcessesTold, StoppingChildrenTold,
   RestartingTold, BrokenTold, WaitForRestartTold DEF GetsMessage

-----------------------------------------------------------------------------
(* The events of StageZero.                                                *)

LEMMA ReadEventTold ==
    ASSUME NEW s \in Subsystem, NEW L \in Told(s), L.events # <<>>
    PROVE  /\ ReadEvent(L) \in Told(s) /\ Poised(L, ReadEvent(L))
           /\ ReadEvent(L).maybe = L.maybe
           /\ Head(L.events) \in OwnEvent(s)
<1> DEFINE M == ReadEvent(L)
<1>1. /\ M \in Steady(s) /\ Poised(L, M)
      /\ M.running = L.running /\ M.maybe = L.maybe /\ M.umb = L.umb
      /\ M.restarts = L.restarts /\ M.tries = L.tries /\ M.alarm = L.alarm
      /\ Head(L.events) \in OwnEvent(s)
    BY ReadEventSteady DEF Told
<1> HIDE DEF M
<1>2. ASSUME Alone(M) PROVE Shape(s, M)
  <2>1. Shape(s, L)
      BY <1>1, <1>2, PoisedAlone DEF Told
  <2> QED
      BY <1>1, <2>1, SlotAssumption DEF Shape, Wanted, Fit, Waiting, Poised
<1> QED
    BY <1>1, <1>2 DEF Told, M

\* While it starts its processes, a subsystem keeps those that may be connected.
LEMMA BusyTold ==
    ASSUME NEW s \in Subsystem, NEW L \in Told(s), NEW M \in Steady(s), Poised(L, M),
           NEW i \in Slot, RunsIn(L, i, "StartingProcesses"), M.maybe = L.maybe
    PROVE  M \in Told(s) /\ RunsIn(M, i, "StartingProcesses")
<1>1. ASSUME Alone(M) PROVE Shape(s, M)
  <2>1. Alone(L) /\ i = 1 /\ Shape(s, L)
      BY <1>1, PoisedAlone, OnlyOne DEF Told, RunsIn
  <2> QED
      BY <2>1 DEF Shape, Wanted, Fit, Waiting, Poised, RunsIn
<1> QED
    BY <1>1 DEF Told, Poised, RunsIn

LEMMA ExitSteady ==
    ASSUME NEW s \in Subsystem, NEW L \in Steady(s), NEW p \in Process,
           NEW how \in {"ok", "fail"}
    PROVE  LET M == [L EXCEPT !.exit[p] = how] IN
           M \in Steady(s) /\ Poised(L, M) /\ M.maybe = L.maybe
<1> DEFINE exit == [L.exit EXCEPT ![p] = how]
           M == [L EXCEPT !.exit = exit]
<1>1. L \in Local /\ L \in Sound(s)
    BY SteadySound
<1>2. exit \in [Process -> {"unset", "launched", "ok", "fail"}]
    BY <1>1, Fields
<1> HIDE DEF exit
<1>3. M \in Sound(s)
    BY <1>1, <1>2, FieldSound
<1>4. /\ SameBody(L, M) /\ M.oper = L.oper /\ M.admin = L.admin
      /\ M.active = L.active /\ M.co = L.co
    BY <1>1, Zenon DEF Local, SameBody
<1> HIDE DEF M
<1>5. Poised(L, M) /\ M.maybe = L.maybe
    BY <1>4 DEF Poised, SameBody
<1>6. M \in Steady(s)
    BY <1>3, <1>4, <1>5, PoisedAlone, SameSteady
<1> QED
    BY <1>5, <1>6 DEF M, exit

\* What a coroutine that reads an event may rely on.
LEMMA ReadsEvent ==
    ASSUME LInv, NEW s \in Subsystem, NEW i \in Slot, NEW st, Reads(s, i, st)
    PROVE  /\ sub[s] \in Told(s) /\ pipe \in OwnPipes
           /\ sub[s].co[i].at = "run" /\ sub[s].co[i].state = st
           /\ ReadEvent(sub[s]) \in Told(s) /\ ReadEvent(sub[s]) \in Steady(s)
           /\ RunsIn(ReadEvent(sub[s]), i, st)
           /\ Head(sub[s].events) \in OwnEvent(s)
           /\ NoteStop(sub[s]) \in Steady(s) /\ Poised(sub[s], NoteStop(sub[s]))
           /\ st \in Plain => NoteStop(sub[s]) \in Told(s)
           /\ RunsIn(NoteStop(sub[s]), i, st)
<1>1. /\ sub[s] \in Told(s) /\ sub[s] \in Steady(s) /\ pipe \in OwnPipes
      /\ sub[s].co[i].at = "run" /\ sub[s].co[i].state = st
      /\ sub[s].events # <<>>
    BY BeforeTold DEF Reads, Running, HasEvent
<1>2. /\ ReadEvent(sub[s]) \in Told(s) /\ Poised(sub[s], ReadEvent(sub[s]))
      /\ Head(sub[s].events) \in OwnEvent(s)
    BY <1>1, ReadEventTold
<1>3. NoteStop(sub[s]) \in Steady(s) /\ Poised(sub[s], NoteStop(sub[s]))
    BY <1>1, NoteStopSteady
<1>4. RunsIn(ReadEvent(sub[s]), i, st) /\ RunsIn(NoteStop(sub[s]), i, st)
    BY <1>1, <1>2, <1>3 DEF Poised, RunsIn
<1>5. st \in Plain => NoteStop(sub[s]) \in Told(s)
  <2>1. Alone(sub[s]) => i = 1
      BY <1>1, OnlyOne
  <2> QED
      BY <1>1, <1>3, <2>1, PoisedTold
<1> QED
    BY <1>1, <1>2, <1>3, <1>4, <1>5 DEF Told

LEMMA QuietEventsTold ==
    ASSUME IInv, LInv, NEW s \in Subsystem, NEW i \in Slot,
           \/ IgnoreEvent(s, i) \/ StartingChildrenEvent(s, i) \/ ConnectingEvent(s, i)
           \/ StoppingChildrenEvent(s, i) \/ RestartingEvent(s, i)
           \/ WaitForRestartEvent(s, i)
    PROVE  LInv'
<1>1. CASE IgnoreEvent(s, i)
    BY <1>1, ReadsEvent, SetTold DEF IgnoreEvent
<1>2. CASE StartingChildrenEvent(s, i)
    BY <1>2, ReadsEvent, SetTold, TailsTold DEF StartingChildrenEvent, RunsIn
<1>3. CASE ConnectingEvent(s, i)
    BY <1>3, ReadsEvent, SetTold, TailsTold DEF ConnectingEvent, RunsIn
<1>4. CASE StoppingChildrenEvent(s, i)
    BY <1>4, ReadsEvent, TailsTold DEF StoppingChildrenEvent, RunsIn
<1>5. CASE RestartingEvent(s, i)
    BY <1>5, ReadsEvent, TailsTold DEF RestartingEvent, RunsIn, Plain
<1>6. CASE WaitForRestartEvent(s, i)
  <2> DEFINE L == sub[s]
             M == NoteStop(sub[s])
  <2>1. L \in Told(s) /\ L \in Steady(s) /\ L.events # <<>> /\ pipe \in OwnPipes
        /\ L.co[i].at = "wait"
      BY <1>6, BeforeTold DEF WaitForRestartEvent, Waits, HasEvent
  <2>2. M \in Steady(s) /\ Poised(L, M)
      BY <2>1, NoteStopSteady
  <2>3. Alone(L) => i = 1
      BY <2>1, OnlyOne
  <2>4. Set(s, M, pipe)
      BY <1>6 DEF WaitForRestartEvent
  <2> HIDE DEF L, M
  <2> QED
      BY <2>1, <2>2, <2>3, <2>4, PoisedTold, SetTold
<1> QED
    BY <1>1, <1>2, <1>3, <1>4, <1>5, <1>6

LEMMA StartingProcessesEventTold ==
    ASSUME IInv, LInv, NEW s \in Subsystem, NEW i \in Slot,
           StartingProcessesEvent(s, i)
    PROVE  LInv'
<1> DEFINE L == ReadEvent(sub[s])
           e == Head(sub[s].events)
           R == SetRunning(L, e.proc)
           K == SetStopped(L, e.proc)
           M == [K EXCEPT !.exit[e.proc] = e.how]
<1>1. Reads(s, i, "StartingProcesses")
    BY DEF StartingProcessesEvent
<1>2. /\ L \in Told(s) /\ L \in Steady(s) /\ RunsIn(L, i, "StartingProcesses")
      /\ e \in OwnEvent(s) /\ pipe \in OwnPipes
    BY <1>1, ReadsEvent
<1>3. \/ e.kind = "start" /\ StartingProcessesTail(s, i, R, pipe)
      \/ e.kind = "stop" /\ e.how # "signal" /\ StartingProcessesTail(s, i, M, pipe)
      \/ e.kind = "stop" /\ Crash(s, i, L, pipe, e.proc, e.how)
      \/ StartingProcessesTail(s, i, L, pipe)
    BY DEF StartingProcessesEvent
<1> HIDE DEF L, e
<1>4. CASE e.kind = "start" /\ StartingProcessesTail(s, i, R, pipe)
  <2>1. e.proc \in Processes[s] /\ e.proc \in Process
      BY <1>2, <1>4, OwnEventFields
  <2>2. Alone(L) => L.maybe = Processes[s]
      BY <1>2, Only DEF RunsIn, Fit
  <2>3. R \in Steady(s) /\ Poised(L, R) /\ R.maybe = L.maybe
      BY <1>2, <2>1, <2>2, SetRunningSteady
  <2> HIDE DEF R
  <2>4. R \in Told(s) /\ RunsIn(R, i, "StartingProcesses")
      BY <1>2, <2>3, BusyTold
  <2> QED
      BY <1>2, <1>4, <2>4, TailsTold DEF RunsIn
<1>5. CASE /\ e.kind = "stop" /\ e.how # "signal"
           /\ StartingProcessesTail(s, i, M, pipe)
  <2>1. e.proc \in Process /\ e.how \in {"ok", "fail"}
      BY <1>2, <1>5, EventFields DEF OwnEvent
  <2>2. K \in Steady(s) /\ Poised(L, K) /\ K.maybe = L.maybe
      BY <1>2, <2>1, SetStoppedSteady
  <2> HIDE DEF K
  <2>3. M \in Steady(s) /\ Poised(K, M) /\ M.maybe = K.maybe
      BY <2>1, <2>2, ExitSteady
  <2> HIDE DEF M
  <2>4. Poised(L, M)
      BY <2>2, <2>3 DEF Poised
  <2>5. M \in Told(s) /\ RunsIn(M, i, "StartingProcesses")
      BY <1>2, <2>2, <2>3, <2>4, BusyTold
  <2> QED
      BY <1>2, <1>5, <2>5, TailsTold DEF RunsIn
<1>6. CASE e.kind = "stop" /\ Crash(s, i, L, pipe, e.proc, e.how)
  <2>1. e.proc \in Processes[s]
      BY <1>2, <1>6, OwnEventFields
  <2> QED
      BY <1>2, <1>6, <2>1, CrashTold DEF RunsIn, Crashing
<1>7. CASE StartingProcessesTail(s, i, L, pipe)
    BY <1>2, <1>7, TailsTold DEF RunsIn
<1> QED
    BY <1>3, <1>4, <1>5, <1>6, <1>7

LEMMA OnlineEventTold ==
    ASSUME IInv, LInv, NEW s \in Subsystem, NEW i \in Slot, OnlineEvent(s, i)
    PROVE  LInv'
<1> DEFINE L == ReadEvent(sub[s])
           e == Head(sub[s].events)
           K == SetStopped(L, e.proc)
           M == [K EXCEPT !.admin = "Offline"]
           D == Disconnect(L, Processes[s])
<1>1. Reads(s, i, "Online")
    BY DEF OnlineEvent
<1>2. /\ L \in Told(s) /\ L \in Steady(s) /\ RunsIn(L, i, "Online")
      /\ e \in OwnEvent(s) /\ pipe \in OwnPipes
    BY <1>1, ReadsEvent
<1>3. \/ Goto(s, i, D, pipe, "Restarting", NoClient)
      \/ e.kind = "stop" /\ Goto(s, i, M, pipe, "Offline", NoClient)
      \/ e.kind = "stop" /\ Crash(s, i, L, pipe, e.proc, e.how)
      \/ Set(s, L, pipe)
    BY DEF OnlineEvent
<1>4. Alone(L) => Wanted(L)
    BY <1>2, Only DEF RunsIn
<1> HIDE DEF L, e
<1>5. CASE Goto(s, i, D, pipe, "Restarting", NoClient)
  <2>1. D \in Steady(s) /\ Poised(L, D)
      BY <1>2, DisconnectSteady
  <2> HIDE DEF D
  <2>2. Alone(D) => Alone(L)
      BY <2>1, PoisedAlone
  <2>3. Alone(D) => Wanted(D)
      BY <1>4, <2>1, <2>2 DEF Poised, Wanted
  <2> QED
      BY <1>2, <1>5, <2>1, <2>3, States, FreeStates, GotoTold
<1>6. CASE e.kind = "stop" /\ Goto(s, i, M, pipe, "Offline", NoClient)
  <2>1. e.proc \in Process
      BY <1>2, <1>6, OwnEventFields
  <2>2. K \in Steady(s)
      BY <1>2, <2>1, SetStoppedSteady
  <2> HIDE DEF K
  <2>3. "Offline" \in AdminState
      BY States
  <2>4. M \in Steady(s) /\ M.admin = "Offline"
      BY <2>2, <2>3, AdminSteady, Zenon
  <2> HIDE DEF M
  <2> QED
      BY <1>2, <1>6, <2>4, States, FreeStates, GotoTold DEF Wanted
<1>7. CASE e.kind = "stop" /\ Crash(s, i, L, pipe, e.proc, e.how)
  <2>1. e.proc \in Processes[s]
      BY <1>2, <1>7, OwnEventFields
  <2> QED
      BY <1>2, <1>7, <2>1, CrashTold DEF RunsIn, Crashing
<1>8. CASE Set(s, L, pipe)
    BY <1>2, <1>8, SetTold
<1> QED
    BY <1>3, <1>5, <1>6, <1>7, <1>8

LEMMA StoppingProcessesEventTold ==
    ASSUME IInv, LInv, NEW s \in Subsystem, NEW i \in Slot,
           StoppingProcessesEvent(s, i)
    PROVE  LInv'
<1> DEFINE L == ReadEvent(sub[s])
           A == Disconnect(L, Processes[s])
           B == NoteStop(sub[s])
<1>1. Reads(s, i, "StoppingProcesses")
    BY DEF StoppingProcessesEvent
<1>2. /\ L \in Told(s) /\ L \in Steady(s) /\ RunsIn(L, i, "StoppingProcesses")
      /\ B \in Told(s) /\ RunsIn(B, i, "StoppingProcesses") /\ pipe \in OwnPipes
    BY <1>1, ReadsEvent DEF Plain
<1>3. StoppingProcessesTail(s, i, A, pipe) \/ StoppingProcessesTail(s, i, B, pipe)
    BY Zenon DEF StoppingProcessesEvent
<1> HIDE DEF L, B
<1>4. A \in Steady(s) /\ Poised(L, A)
    BY <1>2, DisconnectSteady
<1> HIDE DEF A
<1>5. A \in Told(s) /\ RunsIn(A, i, "StoppingProcesses")
  <2>1. Alone(L) => i = 1
      BY <1>2, OnlyOne DEF RunsIn
  <2> QED
      BY <1>2, <1>4, <2>1, PoisedTold DEF RunsIn, Poised, Plain
<1> QED
    BY <1>2, <1>3, <1>5, TailsTold DEF RunsIn

LEMMA RestartingProcessesEventTold ==
    ASSUME IInv, LInv, NEW s \in Subsystem, NEW i \in Slot,
           RestartingProcessesEvent(s, i)
    PROVE  LInv'
<1> DEFINE L == ReadEvent(sub[s])
           e == Head(sub[s].events)
           N == NoteStop(sub[s])
           R == SetRunning(L, e.proc)
           add == R.co[i].started \cup {e.proc}
           del == L.co[i].started \ {e.proc}
           A == [R EXCEPT !.co[i].started = add]
           B == [L EXCEPT !.co[i].started = del]
           st == "RestartingProcesses"
<1>1. Reads(s, i, st)
    BY DEF RestartingProcessesEvent
<1>2. /\ L \in Told(s) /\ L \in Steady(s) /\ RunsIn(L, i, st)
      /\ N \in Told(s) /\ RunsIn(N, i, st)
      /\ e \in OwnEvent(s) /\ pipe \in OwnPipes
    BY <1>1, ReadsEvent DEF Plain
<1>3. Alone(L) => i = 1 /\ ~Quiet(s)
    BY <1>2, Only DEF RunsIn, Fit
<1>4. L \in Local /\ L.co \in [Slot -> Coroutine] /\ L.co[i].started \in SUBSET Process
    BY <1>2, SteadySound, CoroutineFields, Fields
<1>5. \/ e.kind = "start"
         /\ RestartingProcessesTail(s, i, [R EXCEPT !.co[i].started = @ \cup {e.proc}], pipe)
      \/ e.kind = "stop"
         /\ Crash(s, i, [L EXCEPT !.co[i].started = @ \ {e.proc}], pipe, e.proc, "signal")
      \/ RestartingProcessesTail(s, i, N, pipe)
    BY DEF RestartingProcessesEvent
<1> HIDE DEF L, e, N
<1>6. CASE e.kind = "start"
           /\ RestartingProcessesTail(s, i, [R EXCEPT !.co[i].started = @ \cup {e.proc}], pipe)
  <2>1. e.proc \in Process
      BY <1>2, <1>6, OwnEventFields
  <2>2. R \in Steady(s) /\ Poised(L, R)
      BY <1>2, <1>3, <2>1, SetRunningSteady
  <2> HIDE DEF R
  <2>3. R \in Told(s) /\ RunsIn(R, i, st)
      BY <1>2, <1>3, <2>2, PoisedTold DEF RunsIn, Poised, Plain
  <2>4. /\ R \in Local /\ R.co \in [Slot -> Coroutine] /\ add \in SUBSET Process
        /\ R.co[i] \in Coroutine
      BY <2>1, <2>2, SteadySound, CoroutineFields, Fields
  <2>5. A = [R EXCEPT !.co[i].started = @ \cup {e.proc}]
      BY <2>4
  <2> HIDE DEF add
  <2>6. A \in Told(s) /\ Poised(R, A)
      BY <2>3, <2>4, CoroutineTold
  <2> HIDE DEF A
  <2>7. RestartingProcessesTail(s, i, A, pipe)
      BY <1>6, <2>5
  <2>8. A.co[i].at = "run"
      BY <2>3, <2>6 DEF Poised, RunsIn
  <2> QED
      BY <1>2, <2>6, <2>7, <2>8, TailsTold
<1>7. CASE e.kind = "stop"
           /\ Crash(s, i, [L EXCEPT !.co[i].started = @ \ {e.proc}], pipe, e.proc, "signal")
  <2>1. e.proc \in Processes[s]
      BY <1>2, <1>7, OwnEventFields
  <2>2. del \in SUBSET Process
      BY <1>4
  <2>3. B = [L EXCEPT !.co[i].started = @ \ {e.proc}]
      BY <1>4
  <2> HIDE DEF del
  <2>4. B \in Told(s) /\ Poised(L, B)
      BY <1>2, <2>2, CoroutineTold
  <2> HIDE DEF B
  <2>5. Crash(s, i, B, pipe, e.proc, "signal")
      BY <1>7, <2>3
  <2>6. B.co[i].at = "run" /\ B.co[i].state = st
      BY <1>2, <2>4 DEF Poised, RunsIn
  <2> QED
      BY <1>2, <2>1, <2>4, <2>5, <2>6, CrashTold DEF Crashing
<1>8. CASE RestartingProcessesTail(s, i, N, pipe)
    BY <1>2, <1>8, TailsTold DEF RunsIn
<1> QED
    BY <1>5, <1>6, <1>7, <1>8

LEMMA StateStepTold ==
    ASSUME IInv, LInv, NEW s \in Subsystem, NEW i \in Slot, StateStep(s, i)
    PROVE  LInv'
<1>1. CASE GetsEvent(s, i)
    BY <1>1, QuietEventsTold, StartingProcessesEventTold, OnlineEventTold,
       StoppingProcessesEventTold, RestartingProcessesEventTold DEF GetsEvent
<1>2. CASE DelayOver(s, i)
  <2>1. /\ sub[s].co[i].at # "dead"
        /\ Goto(s, i, sub[s], pipe, "Restarting", sub[s].co[i].cid)
      BY <1>2 DEF DelayOver
  <2>2. /\ sub[s] \in Told(s) /\ sub[s] \in Steady(s) /\ pipe \in OwnPipes
        /\ sub[s].co[i].cid \in ClientId
      BY BeforeTold, CoroutineFields
  <2>3. Alone(sub[s]) => Wanted(sub[s])
      BY <2>1, <2>2, Only
  <2> QED
      BY <2>1, <2>2, <2>3, FreeStates, GotoTold
<1> QED
    BY <1>1, <1>2, PrologueTold, GetsMessageTold DEF StateStep

-----------------------------------------------------------------------------
(* What happens outside the coroutines: the other steps change at most the *)
(* connection and the instances of a subsystem, and the pipes.             *)

Beside(L, M) ==
    /\ M.restarts = L.restarts /\ M.tries = L.tries /\ M.alarm = L.alarm
    /\ M.running = L.running /\ M.maybe = L.maybe
    /\ M.oper = L.oper /\ M.admin = L.admin /\ M.active = L.active /\ M.co = L.co

LEMMA BesideTold ==
    ASSUME NEW s \in Subsystem, NEW L \in Told(s), NEW M \in Sound(s), Beside(L, M),
           Wires(s, M), M.umb = L.umb \/ L.umb # "closed"
    PROVE  M \in Told(s)
<1>1. Alone(M) <=> Alone(L)
    BY DEF Beside, Alone
<1>2. Kept(s, M)
    BY <1>1 DEF Told, Steady, Loose, Kept, Beside
<1>3. ASSUME Alone(M) PROVE Shape(s, M)
  <2>1. Shape(s, L)
      BY <1>1, <1>3 DEF Told
  <2> QED
      BY <2>1 DEF Shape, Wanted, Fit, Waiting, Beside
<1> QED
    BY <1>2, <1>3 DEF Told, Steady, Loose

\* The step of one subsystem; that it is sound is proved already.
LEMMA OutsideTold ==
    ASSUME IInv, LInv, IInv', NEW s \in Subsystem, NEW M, NEW P \in OwnPipes,
           Put(s, M, P) \/ Set(s, M, P), Beside(sub[s], M), Wires(s, M),
           M.umb = sub[s].umb \/ sub[s].umb # "closed"
    PROVE  LInv'
<1>1. Put(s, M, P) /\ sub'[s] = M /\ sub'[s] \in Sound(s)
    BY DEF Put, Set, IInv, TypeOK, RefsCountConnections, Sound
<1>2. M \in Told(s)
    BY <1>1, BeforeTold, BesideTold
<1> QED
    BY <1>1, <1>2, PutTold

LEMMA ConnectorTold ==
    ASSUME IInv, LInv, IInv', NEW s \in Subsystem,
           ConnectorConnects(s) \/ ConnectorQuits(s) \/ CrashTimer(s) \/ Drop(s)
    PROVE  LInv'
<1> DEFINE L == sub[s]
           lost == Append(L.events, [kind |-> "disconnect"])
           A == [CloseSocket(L) EXCEPT
                   !.conn = @ - 1, !.umb = "connected", !.sock = "open",
                   !.events = <<[kind |-> "connect"]>>]
           B == [L EXCEPT !.conn = @ - 1]
           C == [L EXCEPT !.timers = @ - 1]
           D == [CloseSocket(L) EXCEPT !.sock = "eof", !.events = lost]
           P == [pipe EXCEPT ![s] = Append(@, Order("RestartCrashed", NoClient, {}))]
<1>1. L \in Local /\ L \in Steady(s) /\ Wires(s, L) /\ pipe \in OwnPipes
    BY BeforeTold DEF Steady
<1>2. /\ Beside(L, A) /\ A.umb = "connected"
      /\ Beside(L, B) /\ B.umb = L.umb /\ Beside(L, C) /\ C.umb = L.umb
      /\ Beside(L, D) /\ D.umb = L.umb /\ D.events = lost
  <2>1. Beside(L, A) /\ A.umb = "connected"
      BY <1>1, Zenon DEF Beside, CloseSocket, Local
  <2>2. Beside(L, B) /\ B.umb = L.umb /\ Beside(L, C) /\ C.umb = L.umb
      BY <1>1, Zenon DEF Beside, Local
  <2>3. Beside(L, D) /\ D.umb = L.umb /\ D.events = lost
      BY <1>1, Zenon DEF Beside, CloseSocket, Local
  <2> QED
      BY <2>1, <2>2, <2>3
<1>3. Wires(s, A)
  <2>1. A.events = <<[kind |-> "connect"]>>
      BY <1>1, Zenon DEF CloseSocket, Local
  <2>2. [kind |-> "connect"] \in OwnEvent(s)
      BY DEF OwnEvent, StageZeroEvent
  <2>3. A.events \in Seq(OwnEvent(s))
      BY <2>1, <2>2
  <2> HIDE DEF A
  <2> QED
      BY <1>2, <2>3 DEF Wires
<1>4. Wires(s, B) /\ Wires(s, C)
  <2>1. /\ B.umb = L.umb /\ B.sock = L.sock /\ B.events = L.events
        /\ B.live = L.live /\ B.others = L.others
      BY <1>1, Zenon DEF Local
  <2>2. /\ C.umb = L.umb /\ C.sock = L.sock /\ C.events = L.events
        /\ C.live = L.live /\ C.others = L.others
      BY <1>1, Zenon DEF Local
  <2> HIDE DEF B, C, L
  <2> QED
      BY <1>1, <2>1, <2>2 DEF Wires, Still
<1>5. L.sock = "open" => Wires(s, D)
  <2>1. [kind |-> "disconnect"] \in OwnEvent(s) /\ L.events \in Seq(OwnEvent(s))
      BY <1>1 DEF OwnEvent, StageZeroEvent, Wires
  <2>2. lost \in Seq(OwnEvent(s))
      BY <2>1
  <2> HIDE DEF D, lost
  <2>3. L.sock = "open" => L.umb # "closed"
      BY <1>1 DEF Wires
  <2> QED
      BY <1>2, <2>2, <2>3 DEF Wires
<1>6. P \in OwnPipes
  <2>1. NoClient \in ClientId /\ {} \in SUBSET Process
      BY DEF ClientId
  <2>2. Order("RestartCrashed", NoClient, {}) \in OwnMessage(s)
      BY <2>1, OwnMessages
  <2> QED
      BY <1>1, <2>2, OwnAppend
<1>7. \/ L.umb = "connecting" /\ Set(s, A, pipe)
      \/ Set(s, B, pipe)
      \/ Set(s, C, P)
      \/ L.sock = "open" /\ Put(s, D, pipe)
    BY Zenon DEF ConnectorConnects, ConnectorQuits, CrashTimer, Drop
<1> HIDE DEF A, B, C, D, P
<1>8. CASE L.umb = "connecting" /\ Set(s, A, pipe)
    BY <1>1, <1>2, <1>3, <1>8, OutsideTold
<1>9. CASE L.sock = "open" /\ Put(s, D, pipe)
    BY <1>1, <1>2, <1>5, <1>9, OutsideTold
<1> QED
    BY <1>1, <1>2, <1>4, <1>6, <1>7, <1>8, <1>9, OutsideTold

\* An event of an instance of a process: the instance is connected.
LEMMA TellTold ==
    ASSUME IInv, LInv, IInv', NEW s \in Subsystem, NEW p \in Process,
           NEW e \in OwnEvent(s), sub[s].umb # "closed",
           \/ \E l : \/ Put(s, Tell([sub[s] EXCEPT !.live[p] = l], e), pipe)
                     \/ Set(s, Tell([sub[s] EXCEPT !.live[p] = l], e), pipe)
           \/ \E f, g : \/ Put(s, Tell(Move(sub[s], p, f, g), e), pipe)
                        \/ Set(s, Tell(Move(sub[s], p, f, g), e), pipe)
    PROVE  LInv'
<1> DEFINE L == sub[s]
           events == Append(L.events, e)
<1>1. L \in Local /\ L \in Steady(s) /\ Wires(s, L) /\ pipe \in OwnPipes
    BY BeforeTold DEF Steady
<1>2. events \in Seq(OwnEvent(s))
    BY <1>1 DEF Wires
<1>3. ASSUME NEW M, Beside(L, M), M.umb = L.umb, M.events = events,
             Put(s, M, pipe) \/ Set(s, M, pipe)
      PROVE  LInv'
  <2>1. Wires(s, M)
      BY <1>2, <1>3 DEF Wires
  <2> HIDE DEF events
  <2> QED
      BY <1>1, <1>3, <2>1, OutsideTold
<1>4. ASSUME NEW l
      PROVE  LET M == Tell([L EXCEPT !.live[p] = l], e) IN
             Beside(L, M) /\ M.umb = L.umb /\ M.events = events
    BY <1>1, Zenon DEF Beside, Tell, Local
<1>5. ASSUME NEW f, NEW g
      PROVE  LET M == Tell(Move(L, p, f, g), e) IN
             Beside(L, M) /\ M.umb = L.umb /\ M.events = events
  <2> DEFINE n == [x \in Phase |-> IF x = f THEN L.others[p][x] - 1
                                   ELSE IF x = g THEN L.others[p][x] + 1
                                   ELSE L.others[p][x]]
             N == [L EXCEPT !.others[p] = n]
  <2>1. Move(L, p, f, g) = N
      BY Zenon DEF Move
  <2> HIDE DEF n
  <2>2. LET M == Tell(N, e) IN
        Beside(L, M) /\ M.umb = L.umb /\ M.events = events
      BY <1>1, Zenon DEF Beside, Tell, Local
  <2> HIDE DEF N
  <2> QED
      BY <2>1, <2>2
<1> QED
    BY <1>3, <1>4, <1>5, Zenon

\* An instance of a process exists only while its subsystem has a connection.
LEMMA Connected ==
    ASSUME LInv, NEW s \in Subsystem, NEW p \in Process, NEW F \in SUBSET Phase,
           \/ sub[s].live[p] # "none"
           \/ \E f \in F : sub[s].others[p][f] > 0
    PROVE  sub[s].umb # "closed"
<1>1. Wires(s, sub[s])
    BY BeforeTold DEF Steady
<1> QED
    BY <1>1 DEF Wires, Still

LEMMA StageZeroTold ==
    ASSUME IInv, LInv, IInv', NEW s \in Subsystem, NEW p \in Processes[s],
           Started(s, p) \/ Dies(s, p) \/ OneShotEnds(s, p) \/ Crashes(s, p)
    PROVE  LInv'
<1>1. p \in Process
    BY Finite
<1>2. /\ Event("start", p, "ok") \in OwnEvent(s)
      /\ \A how \in {"ok", "fail", "signal"} : Event("stop", p, how) \in OwnEvent(s)
      /\ \A how \in Outcomes(p) : how \in {"ok", "fail", "signal"}
    BY <1>1, EventTypes DEF OwnEvent, Event
<1>3. ASSUME NEW F \in SUBSET Phase, NEW how \in {"ok", "fail", "signal"},
             Ends(s, p, F, how), "none" \notin F
      PROVE  LInv'
  <2>1. sub[s].umb # "closed"
      BY <1>1, <1>3, Connected, Zenon DEF Ends
  <2> QED
      BY <1>1, <1>2, <1>3, <2>1, TellTold, Zenon DEF Ends
<1>4. {"starting", "up", "halting", "dying"} \subseteq Phase
    BY DEF Phase
<1>5. CASE Started(s, p)
  <2>1. \/ sub[s].live[p] # "none"
        \/ \E f \in Phase : sub[s].others[p][f] > 0
      BY <1>4, <1>5 DEF Started
  <2>2. sub[s].umb # "closed"
      BY <1>1, <2>1, Connected
  <2> QED
      BY <1>1, <1>2, <1>5, <2>2, TellTold, Zenon DEF Started
<1>6. CASE Dies(s, p)
  <2>1. PICK f \in {"halting", "dying"}, how \in Outcomes(p) :
          /\ sub[s].others[p][f] > 0
          /\ Set(s, Tell(Move(sub[s], p, f, "gone"), Event("stop", p, how)), pipe)
      BY <1>6 DEF Dies
  <2>2. sub[s].umb # "closed" /\ Event("stop", p, how) \in OwnEvent(s)
      BY <1>1, <1>2, <1>4, <2>1, Connected
  <2> QED
      BY <1>1, <2>1, <2>2, TellTold, Zenon
<1>7. CASE OneShotEnds(s, p)
  <2>1. Ends(s, p, {"up"}, "ok")
      BY <1>7 DEF OneShotEnds
  <2> QED
      BY <1>3, <1>4, <2>1
<1>8. CASE Crashes(s, p)
  <2>1. PICK how \in Outcomes(p) : Ends(s, p, {"starting", "up"}, how)
      BY <1>8 DEF Crashes
  <2> QED
      BY <1>2, <1>3, <1>4, <2>1
<1> QED
    BY <1>5, <1>6, <1>7, <1>8

LEMMA ClientCommandTold ==
    ASSUME IInv, LInv, NEW s \in Subsystem, NEW c \in Client, s \in Targets[c],
           ClientCommand(c, s)
    PROVE  LInv'
<1>1. c \in ClientId /\ Nobody \in Subsystem \cup {Nobody} /\ {} \in SUBSET Process
    BY DEF ClientId
<1>2. PICK kind \in Commands[c] : \E m \in Sends(c, s, kind) :
          pipe' = [pipe EXCEPT ![s] = Append(@, m)]
    BY DEF ClientCommand
<1>3. PICK m \in Sends(c, s, kind) : pipe' = [pipe EXCEPT ![s] = Append(@, m)]
    BY <1>2
<1>4. m \in OwnMessage(s)
  <2>1. kind \in {"Start", "Stop", "Restart", "RestartProcesses"}
      BY TargetAssumption
  <2>2. /\ ChangeAdmin(Nobody, c, "Online") \in OwnMessage(s)
        /\ ChangeAdmin(Nobody, c, "Offline") \in OwnMessage(s)
      BY <1>1, OwnMessages DEF AdminState
  <2>3. Order("Restart", c, {}) \in OwnMessage(s)
      BY <1>1, OwnMessages
  <2>4. CASE kind = "RestartProcesses"
    <3>1. ~Quiet(s)
        BY <2>4 DEF Quiet
    <3>2. PICK D \in SUBSET Processes[s] : m = Order("RestartProcesses", c, D)
        BY <2>4 DEF Sends
    <3>3. D \in SUBSET Process
        BY Finite
    <3> QED
        BY <1>1, <3>1, <3>2, <3>3, OwnMessages
  <2> QED
      BY <2>1, <2>2, <2>3, <2>4 DEF Sends
<1>5. pipe' \in OwnPipes
    BY <1>3, <1>4, OwnAppend DEF LInv
<1>6. sub' = sub
    BY DEF ClientCommand
<1> QED
    BY <1>5, <1>6 DEF LInv

LEMMA AbortAllTold ==
    ASSUME LInv, NEW e \in BOOLEAN, NEW n, AbortAll(e, n)
    PROVE  LInv'
<1> DEFINE m == Order(IF e THEN "EmergencyAbort" ELSE "Abort", NoClient, {})
<1>1. NoClient \in ClientId /\ {} \in SUBSET Process
    BY DEF ClientId
<1>2. \A s \in Subsystem : m \in OwnMessage(s) /\ m \in Message
    BY <1>1, OwnMessages DEF OwnMessage
<1>3. pipe' = [s \in Subsystem |-> IF s \in Critical THEN pipe[s] ELSE Append(pipe[s], m)]
    BY DEF AbortAll
<1>4. pipe \in OwnPipes /\ sub' = sub
    BY DEF LInv, AbortAll
<1> HIDE DEF m
<1>5. ASSUME NEW s \in Subsystem
      PROVE  pipe'[s] \in Seq(Message) /\ pipe'[s] \in Seq(OwnMessage(s))
    BY <1>2, <1>3, <1>4 DEF OwnPipes, Pipes
<1>6. pipe' \in OwnPipes
    BY <1>3, <1>5 DEF OwnPipes, Pipes
<1> QED
    BY <1>4, <1>6 DEF LInv

\* Abort only kills the processes of a subsystem that is connected.
LEMMA AbortKillsTold ==
    ASSUME IInv, LInv, IInv', NEW e \in BOOLEAN, AbortKills(e)
    PROVE  LInv'
<1>1. ASSUME NEW s \in Subsystem, sub[s].sock = "open"
      PROVE  LET M == KillAll(sub[s]) IN
             Beside(sub[s], M) /\ M.umb = sub[s].umb /\ Wires(s, M)
  <2> DEFINE L == sub[s]
             M == KillAll(L)
  <2>1. L \in Local /\ Wires(s, L)
      BY BeforeTold DEF Steady
  <2>2. \E live, others : M = [L EXCEPT !.live = live, !.others = others]
      BY Zenon DEF KillAll
  <2>3. PICK live, others : M = [L EXCEPT !.live = live, !.others = others]
      BY <2>2
  <2>4. LET N == [L EXCEPT !.live = live, !.others = others] IN
        Beside(L, N) /\ N.umb = L.umb /\ N.events = L.events
      BY <2>1, ZenonT(40) DEF Beside, Local
  <2>5. Beside(L, M) /\ M.umb = L.umb /\ M.events = L.events
      BY <2>3, <2>4
  <2> HIDE DEF M
  <2>6. L.umb # "closed"
      BY <1>1, <2>1 DEF Wires
  <2>7. Wires(s, M)
      BY <2>1, <2>5, <2>6 DEF Wires
  <2> QED
      BY <2>5, <2>7 DEF M
<1>2. \A s \in Subsystem :
          sub'[s] = sub[s] \/ (sub[s].sock = "open" /\ sub'[s] = KillAll(sub[s]))
    BY Zenon DEF AbortKills
<1>3. ASSUME NEW s \in Subsystem PROVE sub'[s] \in Told(s)
  <2>1. sub[s] \in Told(s) /\ sub'[s] \in Sound(s)
      BY BeforeTold DEF IInv, TypeOK, RefsCountConnections, Sound
  <2>2. CASE sub[s].sock = "open" /\ sub'[s] = KillAll(sub[s])
    <3>1. Beside(sub[s], sub'[s]) /\ sub'[s].umb = sub[s].umb /\ Wires(s, sub'[s])
        BY <1>1, <2>2
    <3> QED
        BY <2>1, <3>1, BesideTold
  <2> QED
      BY <1>2, <2>1, <2>2
<1>4. pipe' \in OwnPipes
    BY DEF AbortKills, LInv
<1> QED
    BY <1>3, <1>4 DEF LInv

-----------------------------------------------------------------------------
(* The inductive invariant.                                                *)

LEMMA InitTold == Init => LInv
<1> SUFFICES ASSUME Init PROVE LInv
    OBVIOUS
<1>1. \A s \in Subsystem : sub[s] = Idle /\ pipe[s] = <<>>
    BY DEF Init
<1>2. pipe \in OwnPipes
  <2>1. pipe \in Pipes
      BY InitInv, Unpack
  <2>2. \A s \in Subsystem : <<>> \in Seq(OwnMessage(s))
      OBVIOUS
  <2> QED
      BY <1>1, <2>1, <2>2 DEF OwnPipes
<1>3. ASSUME NEW s \in Subsystem PROVE sub[s] \in Told(s)
  <2>1. Idle \in Sound(s)
      BY <1>1, InitInv, Unpack
  <2>2. Kept(s, Idle)
      BY BoundAssumption DEF Kept, Idle
  <2>3. Wires(s, Idle)
    <3>1. <<>> \in Seq(OwnEvent(s))
        OBVIOUS
    <3> QED
        BY <3>1 DEF Wires, Still, Idle
  <2>4. Shape(s, Idle)
    <3>1. Idle.co[1].at = "enter" /\ Idle.co[1].state = "Offline"
        BY SlotAssumption DEF Idle, Dead, NewCoroutine
    <3>2. Wanted(Idle) /\ Idle.oper = "Offline"
        BY DEF Wanted, Idle
    <3> QED
        BY <3>1, <3>2, FreeStates DEF Shape
  <2> QED
      BY <1>1, <2>1, <2>2, <2>3, <2>4 DEF Told, Steady, Loose
<1> QED
    BY <1>2, <1>3 DEF LInv

LEMMA NextTold ==
    ASSUME IInv, LInv, [Next]_vars
    PROVE  LInv'
<1>1. IInv'
    BY NextInv
<1>2. CASE UNCHANGED vars
    BY <1>2 DEF vars, LInv
<1>3. CASE Next
  <2>1. ASSUME NEW s \in Subsystem, NEW i \in Slot,
               StateStep(s, i) \/ LaunchFails(s, i)
        PROVE  LInv'
      BY <2>1, StateStepTold, LaunchFailsTold
  <2>2. ASSUME NEW s \in Subsystem,
               ConnectorConnects(s) \/ ConnectorQuits(s) \/ CrashTimer(s) \/ Drop(s)
        PROVE  LInv'
      BY <1>1, <2>2, ConnectorTold
  <2>3. ASSUME NEW s \in Subsystem, NEW p \in Processes[s],
               Started(s, p) \/ Dies(s, p) \/ OneShotEnds(s, p) \/ Crashes(s, p)
        PROVE  LInv'
      BY <1>1, <2>3, StageZeroTold
  <2>4. ASSUME NEW s \in Subsystem, NEW c \in Client, s \in Targets[c],
               ClientCommand(c, s)
        PROVE  LInv'
      BY <2>4, ClientCommandTold
  <2>5. ASSUME NEW e \in BOOLEAN, ClientAbort(e) \/ AbortKills(e)
        PROVE  LInv'
      BY <1>1, <2>5, AbortAllTold, AbortKillsTold DEF ClientAbort
  <2>6. CASE CriticalAbort
      BY <2>6, AbortAllTold DEF CriticalAbort
  <2> QED
      BY <1>3, <2>1, <2>2, <2>3, <2>4, <2>5, <2>6 DEF Next, StageZeroStep
<1> QED
    BY <1>2, <1>3

\* The invariant of every step of Capcom, StageZero and the clients.
THEOREM LimitsInvariance == Spec => [](IInv /\ LInv)
<1>1. IInv /\ LInv /\ [Next]_vars => LInv'
    BY NextTold
<1> QED
    BY <1>1, InitTold, Invariance, PTL DEF Spec

-----------------------------------------------------------------------------
(* The theorems.                                                           *)

\* Every subsystem has one state coroutine, as it has unless an abort finds one
\* that waits to restart.
Undivided == \A s \in Subsystem : Alone(sub[s])

LEMMA Stays ==
    ASSUME IInv, LInv, NEW s \in Subsystem
    PROVE  /\ sub[s] \in Sound(s) /\ Kept(s, sub[s]) /\ Wires(s, sub[s])
           /\ Alone(sub[s]) => Shape(s, sub[s])
BY DEF LInv, Told, Steady, Loose

\* A subsystem in a state where it cannot read a crash is fit for this state.
LEMMA FitsItsState ==
    ASSUME IInv, LInv, NEW s \in Subsystem, Alone(sub[s]), sub[s].oper \notin Crashing
    PROVE  Fit(s, sub[s], sub[s].oper)
<1>1. sub[s].co[1].at \in {"dead", "enter", "run", "wait", "nap"}
  <2>1. sub[s].co[1] \in Coroutine
      BY Stays, SoundLocal, SlotAssumption, CoroutineFields
  <2> QED
      BY <2>1, Zenon DEF Coroutine
<1> QED
    BY <1>1, Stays DEF Shape

\* In every graph of subsystems, through any sequence of commands, crashes, failed
\* launches, lost connections and aborts: num_restarts_ of a subsystem and of a
\* process never pass their limits (the code compares for equality), and no
\* process that runs has a crash alarm.
THEOREM RestartsCounted ==
    Spec => [](\A s \in Subsystem :
                  /\ sub[s].restarts <= MaxRestarts
                  /\ \A p \in Process : sub[s].tries[p] <= MaxProcRestarts
                  /\ sub[s].alarm \cap sub[s].running = {})
<1>1. IInv /\ LInv =>
        \A s \in Subsystem : /\ sub[s].restarts <= MaxRestarts
                             /\ \A p \in Process : sub[s].tries[p] <= MaxProcRestarts
                             /\ sub[s].alarm \cap sub[s].running = {}
    BY Stays DEF Kept
<1> QED
    BY <1>1, LimitsInvariance, PTL

\* A subsystem is broken only when it has used its restarts up, if it has no
\* child to break and no oneshot to fail.
THEOREM BreaksAtItsLimit == Spec => [](Undivided => RestartsLimited)
<1>1. IInv /\ LInv => (Undivided => RestartsLimited)
    BY Stays, FitsItsState DEF Kept, Fit, Crashing, Undivided, RestartsLimited
<1> QED
    BY <1>1, LimitsInvariance, PTL

\* Under the policy processOnly a subsystem is degraded only when some process
\* has used its restarts up.
THEOREM DegradesAtItsLimit == Spec => [](Undivided => AttemptsLimited)
<1>1. IInv /\ LInv => (Undivided => AttemptsLimited)
    BY Stays, FitsItsState DEF Kept, Fit, Crashing, Undivided, AttemptsLimited
<1> QED
    BY <1>1, LimitsInvariance, PTL

\* A crash alarm is cleared when the process runs again, and a degraded subsystem
\* has one.
THEOREM AlarmsTold == Spec => [](Undivided => AlarmsTell)
<1>1. IInv /\ LInv => (Undivided => AlarmsTell)
    BY Stays, FitsItsState DEF Kept, Fit, Crashing, Undivided, AlarmsTell
<1> QED
    BY <1>1, LimitsInvariance, PTL

\* Whatever the clients and the parents of a subsystem send, it is never left
\* administratively online for nobody (Subsystem::HandleAdminCommand).
THEOREM WantedOnline == Spec => [](Undivided => OnlineIsWanted)
<1>1. IInv /\ LInv => (Undivided => OnlineIsWanted)
    BY Stays DEF Shape, Wanted, Undivided, OnlineIsWanted
<1> QED
    BY <1>1, LimitsInvariance, PTL

\* A subsystem that restarts as a whole and is online knows of every process that
\* StageZero runs for it.
THEOREM KnowsWhenWhole ==
    ASSUME \A s \in Subsystem : Whole(s)
    PROVE  Spec => [](Undivided => KnowsItsProcesses)
<1>1. ASSUME IInv, LInv, Undivided PROVE KnowsItsProcesses
  <2>1. ASSUME NEW s \in Subsystem, sub[s].oper = "Online", Settled(s)
        PROVE  Processes[s] \subseteq sub[s].running
    <3>1. Shape(s, sub[s])
        BY <1>1, Stays DEF Undivided
    <3> QED
        BY <2>1, <3>1, SlotAssumption DEF Shape, Fit, Settled
  <2> QED
      BY <2>1 DEF KnowsItsProcesses
<1>2. IInv /\ LInv => (Undivided => KnowsItsProcesses)
    BY <1>1
<1> QED
    BY <1>2, LimitsInvariance, PTL

\* An offline subsystem without a connection has left no instance behind.
LEMMA OfflineStill ==
    ASSUME IInv, LInv, Undivided, NEW s \in Subsystem,
           sub[s].oper = "Offline", Settled(s)
    PROVE  /\ sub[s].umb = "closed"
           /\ \A p \in Process : Instances(s, p) = 0
<1>1. /\ sub[s] \in Sound(s) /\ Wires(s, sub[s]) /\ Shape(s, sub[s])
      /\ Kept(s, sub[s])
    BY Stays DEF Undivided
<1>2. sub[s].umb = "closed"
    BY <1>1, SlotAssumption DEF Shape, Waiting, Settled
<1>3. Still(sub[s])
    BY <1>1, <1>2 DEF Wires
<1>4. \A p \in Process : Instances(s, p) = 0
    BY <1>3 DEF Still, Instances, Phase
<1> QED
    BY <1>2, <1>4

\* However a subsystem gets offline, it leaves no connection open and no process
\* that StageZero runs or kills for it.
THEOREM OfflineLeavesNothing ==
    Spec => [](Undivided =>
                 \A s \in Subsystem :
                    sub[s].oper = "Offline" /\ Settled(s) =>
                       /\ sub[s].umb = "closed"
                       /\ \A p \in Process : Instances(s, p) = 0)
<1>1. IInv /\ LInv =>
        (Undivided => \A s \in Subsystem :
                         sub[s].oper = "Offline" /\ Settled(s) =>
                            /\ sub[s].umb = "closed"
                            /\ \A p \in Process : Instances(s, p) = 0)
    BY OfflineStill
<1> QED
    BY <1>1, LimitsInvariance, PTL

\* When no client asks to restart single processes, an offline subsystem has no
\* process that Capcom believes to run, either.
THEOREM OfflineWhenQuiet ==
    ASSUME \A s \in Subsystem : Quiet(s)
    PROVE  Spec => [](Undivided => OfflineIsClean)
<1>1. ASSUME IInv, LInv, Undivided, NEW s \in Subsystem,
             sub[s].oper = "Offline", Settled(s)
      PROVE  sub[s].running = {}
  <2>1. sub[s] \in Sound(s) /\ Kept(s, sub[s]) /\ Alone(sub[s])
      BY <1>1, Stays DEF Undivided
  <2>2. sub[s].umb = "closed"
      BY <1>1, OfflineStill
  <2>3. Cardinality(sub[s].maybe) = 0 /\ IsFiniteSet(sub[s].maybe)
      BY <2>1, <2>2, Finite, FS_Subset DEF Sound
  <2>4. sub[s].maybe = {}
      BY <2>3, FS_EmptySet
  <2> QED
      BY <2>1, <2>4 DEF Kept
<1>2. IInv /\ LInv => (Undivided => OfflineIsClean)
    BY <1>1, OfflineStill DEF OfflineIsClean
<1> QED
    BY <1>2, LimitsInvariance, PTL

-----------------------------------------------------------------------------
(* The processes that Capcom believes to run.  A subsystem with one        *)
(* process and no children drops a stop event only in states in which it   *)
(* believes that nothing runs (Attentive), and what it believes is backed  *)
(* by an instance or by an event that it has still to read (Genuine).      *)

Solitary(s) ==
    /\ Children[s] = {} /\ s \notin Critical
    /\ \A p, q \in Processes[s] : p = q

Here(L, p) == L.live[p] # "none" \/ \E f \in Phase : L.others[p][f] > 0

\* An instance of p is there, or its end is told after the first k events.
Vouched(L, p, k) ==
    \/ Here(L, p)
    \/ \E j \in DOMAIN L.events :
          j > k /\ L.events[j].kind = "stop" /\ L.events[j].proc = p

Genuine(s, L) ==
    /\ L.running \subseteq Processes[s]
    /\ L.sock = IF L.umb = "connected" THEN "open" ELSE "none"
    /\ L.sock = "none" => L.events = <<>> /\ Still(L)
    /\ \A k \in DOMAIN L.events : L.events[k].kind # "disconnect"
    /\ \A p \in L.running : Vouched(L, p, 0)
    /\ \A k \in DOMAIN L.events :
          L.events[k].kind = "start" => Vouched(L, L.events[k].proc, k)

Downed == {"Broken", "Degraded"}

Attentive(L) ==
    LET f == L.co[1] IN
    /\ f.state \in Downed \/ (f.at = "run" /\ f.state = "Connecting") => L.running = {}
    /\ f.at = "run" => f.state \notin {"StartingChildren", "StoppingChildren"}

Honest(s, L) == Alone(L) => Genuine(s, L) /\ Attentive(L)

BInv == \A s \in Subsystem : Honest(s, sub[s])

SameWires(L, M) ==
    /\ M.umb = L.umb /\ M.sock = L.sock /\ M.events = L.events
    /\ M.live = L.live /\ M.others = L.others

-----------------------------------------------------------------------------
(* What keeps a state genuine.                                             *)

\* Without a connection nothing is believed to run.
LEMMA NothingBelieved ==
    ASSUME NEW s \in Subsystem, NEW L \in Local, Genuine(s, L),
           L.sock = "none" \/ L.umb # "connected"
    PROVE  L.running = {}
<1>1. L.sock = "none" /\ L.events = <<>> /\ Still(L) /\ L.running \in SUBSET Process
    BY Fields DEF Genuine
<1>2. DOMAIN L.events = {}
    BY <1>1
<1>3. \A p \in Process : ~Here(L, p)
  <2>1. L.others \in [Process -> [Phase -> Nat]]
      BY Fields
  <2> QED
      BY <1>1, <2>1 DEF Still, Here
<1> QED
    BY <1>1, <1>2, <1>3 DEF Genuine, Vouched

\* More instances, and less that is believed.
LEMMA HereGenuine ==
    ASSUME NEW s \in Subsystem, NEW L \in Local, Genuine(s, L), NEW M,
           M.umb = L.umb, M.sock = L.sock, M.events = L.events,
           M.running \subseteq L.running,
           \A p \in Process : Here(L, p) => Here(M, p),
           L.sock = "none" => Still(M)
    PROVE  Genuine(s, M)
<1>1. \A k \in DOMAIN L.events : L.events[k] \in StageZeroEvent
    BY Fields
<1>2. \A p \in Process : \A k : Vouched(L, p, k) => Vouched(M, p, k)
    BY DEF Vouched
<1>3. L.running \subseteq Process
    BY Fields
<1>4. \A k \in DOMAIN L.events : L.events[k].kind = "start" => L.events[k].proc \in Process
    BY <1>1 DEF StageZeroEvent
<1> QED
    BY <1>2, <1>3, <1>4 DEF Genuine

LEMMA SameGenuine ==
    ASSUME NEW s \in Subsystem, NEW L \in Local, Genuine(s, L), NEW M, SameWires(L, M),
           M.running \subseteq L.running
    PROVE  Genuine(s, M)
BY HereGenuine DEF SameWires, Here, Still, Genuine

\* What the first event makes Capcom believe, if it takes note of it.
Noted(L) ==
    LET e == Head(L.events) IN
    CASE e.kind = "stop" -> L.running \ {e.proc}
      [] e.kind = "start" -> L.running \cup {e.proc}
      [] OTHER -> L.running

LEMMA TailParts ==
    ASSUME NEW S, NEW q \in Seq(S), q # <<>>
    PROVE  /\ Len(q) \in Nat \ {0} /\ Head(q) = q[1] /\ DOMAIN q = 1..Len(q)
           /\ Len(Tail(q)) = Len(q) - 1 /\ DOMAIN Tail(q) = 1..(Len(q) - 1)
           /\ \A k \in 1..(Len(q) - 1) : Tail(q)[k] = q[k + 1]
<1>1. Len(q) \in Nat \ {0} /\ Head(q) = q[1] /\ DOMAIN q = 1..Len(q)
    OBVIOUS
<1>2. Len(Tail(q)) = Len(q) - 1 /\ Tail(q) \in Seq(S)
    OBVIOUS
<1>3. \A k \in 1..(Len(q) - 1) : Tail(q)[k] = q[k + 1]
    OBVIOUS
<1>4. DOMAIN Tail(q) = 1..Len(Tail(q))
    BY <1>2
<1> QED
    BY <1>1, <1>2, <1>3, <1>4

LEMMA ReadGenuine ==
    ASSUME NEW s \in Subsystem, NEW L \in Local, Wires(s, L), Genuine(s, L),
           L.events # <<>>, NEW M, SameWires(ReadEvent(L), M),
           M.running \subseteq Noted(L)
    PROVE  Genuine(s, M)
<1> DEFINE e == Head(L.events)
           E == L.events
           F == Tail(L.events)
           n == Len(E)
<1>1. /\ E \in Seq(StageZeroEvent) /\ E \in Seq(OwnEvent(s)) /\ n \in Nat \ {0}
      /\ e = E[1] /\ 1 \in DOMAIN E
      /\ Len(F) = n - 1 /\ \A k \in 1..n - 1 : F[k] = E[k + 1]
      /\ DOMAIN F = 1..n - 1 /\ DOMAIN E = 1..n
  <2>1. E \in Seq(StageZeroEvent) /\ E \in Seq(OwnEvent(s)) /\ E # <<>>
      BY Fields DEF Wires
  <2> HIDE DEF E
  <2>2. /\ n \in Nat \ {0} /\ e = E[1] /\ DOMAIN E = 1..n
        /\ Len(F) = n - 1 /\ \A k \in 1..n - 1 : F[k] = E[k + 1]
        /\ DOMAIN F = 1..n - 1
      BY <2>1, TailParts, Zenon DEF E
  <2>3. 1 \in 1..n
      BY <2>2
  <2> QED
      BY <2>1, <2>2, <2>3
<1>2. e.kind # "disconnect" /\ e \in OwnEvent(s)
    BY <1>1 DEF Genuine
<1>3. ReadEvent(L) = [L EXCEPT !.events = F]
    BY <1>2 DEF ReadEvent
<1>4. /\ M.umb = L.umb /\ M.sock = L.sock /\ M.events = F
      /\ M.live = L.live /\ M.others = L.others
  <2> DEFINE R == [L EXCEPT !.events = F]
  <2>1. R.umb = L.umb /\ R.sock = L.sock /\ R.events = F
        /\ R.live = L.live /\ R.others = L.others
      BY Zenon DEF Local
  <2> HIDE DEF R
  <2> QED
      BY <1>3, <2>1 DEF SameWires, R
<1>5. L.sock = "open"
    BY DEF Genuine
<1>6. \A p : Here(M, p) <=> Here(L, p)
    BY <1>4 DEF Here
<1>7. ASSUME NEW p, NEW k \in Nat, Vouched(L, p, k + 1)
      PROVE  Vouched(M, p, k)
  <2>1. CASE Here(L, p)
      BY <1>6, <2>1 DEF Vouched
  <2>2. ASSUME NEW j \in DOMAIN E, j > k + 1, E[j].kind = "stop", E[j].proc = p
        PROVE  Vouched(M, p, k)
    <3>1. j - 1 \in 1..n - 1 /\ j - 1 > k /\ F[j - 1] = E[j]
        BY <1>1, <2>2
    <3> QED
        BY <1>1, <1>4, <2>2, <3>1 DEF Vouched
  <2> QED
      BY <1>7, <2>1, <2>2 DEF Vouched
<1> HIDE DEF e, E, F, n
<1>8. ASSUME NEW p \in M.running PROVE Vouched(M, p, 0)
  <2>1. CASE e.kind = "start" /\ p = e.proc
    <3>1. Vouched(L, p, 1)
        BY <1>1, <2>1 DEF Genuine, E
    <3> QED
        BY <1>7, <3>1
  <2>2. CASE p \in L.running /\ ~(e.kind = "stop" /\ p = e.proc)
    <3>1. Vouched(L, p, 0)
        BY <2>2 DEF Genuine
    <3>2. CASE Here(L, p)
        BY <1>6, <3>2 DEF Vouched
    <3>3. ASSUME NEW j \in DOMAIN E, j > 0, E[j].kind = "stop", E[j].proc = p
          PROVE  Vouched(L, p, 1)
      <4>1. j # 1 /\ j \in Nat
          BY <1>1, <2>2, <3>3
      <4>2. j > 1
          BY <3>3, <4>1
      <4> QED
          BY <3>3, <4>2 DEF Vouched, E
    <3> QED
        BY <1>7, <3>1, <3>2, <3>3 DEF Vouched, E
  <2> QED
      BY <1>8, <2>1, <2>2 DEF Noted, e
<1>9. ASSUME NEW k \in DOMAIN M.events, M.events[k].kind = "start"
      PROVE  Vouched(M, M.events[k].proc, k)
  <2>1. k \in 1..n - 1 /\ k \in Nat /\ M.events[k] = E[k + 1] /\ k + 1 \in DOMAIN E
      BY <1>1, <1>4, <1>9
  <2>2. Vouched(L, E[k + 1].proc, k + 1)
      BY <1>9, <2>1 DEF Genuine, E
  <2> QED
      BY <1>7, <2>1, <2>2
<1>10. M.running \subseteq Processes[s]
  <2>1. e.kind = "start" => e.proc \in Processes[s]
      BY <1>2, OwnEventFields
  <2> QED
      BY <2>1 DEF Noted, Genuine, e
<1>11. ASSUME NEW k \in DOMAIN M.events PROVE M.events[k].kind # "disconnect"
  <2>1. M.events[k] = E[k + 1] /\ k + 1 \in DOMAIN E
      BY <1>1, <1>4
  <2> QED
      BY <2>1 DEF Genuine, E
<1> QED
    BY <1>4, <1>5, <1>8, <1>9, <1>10, <1>11 DEF Genuine

-----------------------------------------------------------------------------
(* The functions on the state of a subsystem keep it genuine.              *)

\* The one process holds the only reference, so its end closes the connection.
LEMMA DisconnectGenuine ==
    ASSUME NEW s \in Subsystem, Solitary(s), NEW L \in Sound(s), Genuine(s, L), NEW D
    PROVE  LET M == Disconnect(L, D) IN
           /\ Genuine(s, M) /\ M.running \subseteq L.running
           /\ Processes[s] \subseteq D => M.running = {}
<1> DEFINE gone == D \cap L.maybe
           n == Cardinality(gone)
           down == [L EXCEPT !.running = @ \ gone, !.maybe = @ \ gone, !.refs = @ - n]
           shut == [CloseSocket(down) EXCEPT !.umb = "closed"]
           M == Disconnect(L, D)
<1>1. /\ L \in Local /\ L.maybe \subseteq Processes[s] /\ L.refs = Cardinality(L.maybe)
      /\ L.umb = "closed" <=> L.refs = 0
    BY DEF Sound
<1>2. M = IF gone # {} /\ down.refs <= 0 THEN shut ELSE down
    BY Zenon DEF Disconnect
<1>3. /\ down.running = L.running \ gone /\ down.refs = L.refs - n
      /\ SameWires(L, down)
    BY <1>1, Zenon DEF Local, SameWires
<1>4. gone # {} => gone = L.maybe /\ gone = Processes[s]
    BY <1>1 DEF Solitary
<1>5. gone # {} => down.refs <= 0
  <2>1. IsFiniteSet(L.maybe) /\ Cardinality(L.maybe) \in Nat
      BY <1>1, Finite
  <2>2. gone # {} => n = L.refs
      BY <1>1, <1>4
  <2> HIDE DEF down, n
  <2> QED
      BY <1>1, <1>3, <2>1, <2>2
<1> HIDE DEF n
<1>6. CASE gone = {}
  <2>1. M = down
      BY <1>2, <1>6
  <2> HIDE DEF down, M
  <2>2. Genuine(s, M) /\ M.running = L.running
      BY <1>1, <1>3, <1>6, <2>1, SameGenuine
  <2>3. ASSUME Processes[s] \subseteq D PROVE L.running = {}
    <3>1. L.maybe = {}
        BY <1>1, <1>6, <2>3
    <3>2. L.umb = "closed"
        BY <1>1, <3>1, FS_EmptySet
    <3> QED
        BY <1>1, <3>2, NothingBelieved
  <2> QED
      BY <2>2, <2>3 DEF M
<1>7. CASE gone # {}
  <2>1. M = shut
      BY <1>2, <1>5, <1>7
  <2>2. down \in Local
    <3>1. L.running \ gone \in SUBSET Process /\ L.maybe \ gone \in SUBSET Process
          /\ L.refs - n \in Int
      <4>1. n \in Int
          BY <1>1, <1>4, <1>7, Finite DEF n
      <4> QED
          BY <1>1, <4>1, Fields
    <3> QED
        BY <3>1, <1>1, Zenon DEF Local
  <2> HIDE DEF down
  <2>3. /\ M.running = down.running /\ M.umb = "closed"
        /\ M.sock = "none" /\ M.events = <<>>
        /\ M.live = [p \in Process |-> "none"]
        /\ M.others = [p \in Process |-> [f \in Phase |-> 0]]
      BY <2>1, <2>2, Zenon DEF CloseSocket, Local
  <2> HIDE DEF M
  <2>4. M.running = {}
      BY <1>3, <1>4, <1>7, <2>3 DEF Genuine
  <2>5. Still(M)
      BY <2>3 DEF Still
  <2>6. Genuine(s, M)
      BY <2>3, <2>4, <2>5 DEF Genuine
  <2> QED
      BY <2>4, <2>6 DEF M
<1> QED
    BY <1>6, <1>7

LEMMA StopGenuine ==
    ASSUME NEW s \in Subsystem, NEW L \in Local, Genuine(s, L), NEW D
    PROVE  LET M == Stop(L, D) IN Genuine(s, M) /\ M.running = L.running
<1> DEFINE hit == {p \in D : L.live[p] # "none" /\ L.sock = "open"}
           tries == [p \in Process |-> IF p \in D THEN 0 ELSE L.tries[p]]
           live == [p \in Process |-> IF p \in hit THEN "none" ELSE L.live[p]]
           others == [p \in Process |->
                        IF p \in hit THEN OneMore(L.others[p], Halted(L.live[p]))
                        ELSE L.others[p]]
           M == [L EXCEPT !.tries = tries, !.live = live, !.others = others]
<1>1. L.sock # "eof"
    BY DEF Genuine
<1>2. Stop(L, D) = M
    BY <1>1, Zenon DEF Stop
<1>3. /\ M.running = L.running /\ M.umb = L.umb /\ M.sock = L.sock
      /\ M.events = L.events /\ M.live = live /\ M.others = others
    BY Zenon DEF Local
<1>4. L.others \in [Process -> [Phase -> Nat]]
    BY Fields
<1>5. ASSUME NEW p \in Process, p \in hit PROVE Here(M, p)
  <2> DEFINE f == Halted(L.live[p])
  <2>1. f \in Phase /\ L.others[p] \in [Phase -> Nat]
      BY <1>4 DEF Halted, Phase
  <2>2. M.others[p] = OneMore(L.others[p], f)
      BY <1>3, <1>5
  <2> HIDE DEF f, M
  <2>3. M.others[p][f] = L.others[p][f] + 1 /\ L.others[p][f] \in Nat
      BY <2>1, <2>2 DEF OneMore
  <2>4. M.others[p][f] > 0
      BY <2>3
  <2> QED
      BY <2>1, <2>4 DEF Here
<1>6. ASSUME NEW p \in Process, p \notin hit
      PROVE  M.live[p] = L.live[p] /\ M.others[p] = L.others[p]
    BY <1>3, <1>6
<1>7. L.sock = "none" => \A p \in Process : p \notin hit
    OBVIOUS
<1> HIDE DEF M, hit
<1>8. \A p \in Process : Here(L, p) => Here(M, p)
    BY <1>5, <1>6 DEF Here
<1>9. L.sock = "none" => Still(M)
    BY <1>6, <1>7 DEF Genuine, Still
<1>10. Genuine(s, M)
    BY <1>3, <1>8, <1>9, HereGenuine
<1> QED
    BY <1>2, <1>3, <1>10

LEMMA StopProcessesGenuine ==
    ASSUME NEW s \in Subsystem, Solitary(s), NEW L \in Sound(s), Genuine(s, L)
    PROVE  LET M == StopProcesses(s, L) IN
           Genuine(s, M) /\ M.running \subseteq L.running
<1> DEFINE M == Disconnect(L, Processes[s] \ L.running)
<1>1. M \in Local
    BY DisconnectSound, SoundLocal
<1>2. Genuine(s, M) /\ M.running \subseteq L.running
    BY DisconnectGenuine
<1>3. StopProcesses(s, L) = Stop(M, M.running)
    BY DEF StopProcesses
<1> HIDE DEF M
<1> QED
    BY <1>1, <1>2, <1>3, StopGenuine

LEMMA LaunchGenuine ==
    ASSUME NEW s \in Subsystem, NEW L \in Local, Genuine(s, L), NEW D,
           D = {} \/ L.sock = "open"
    PROVE  LET M == Launch(L, D) IN Genuine(s, M) /\ M.running = L.running
<1> DEFINE M == Launch(L, D)
           live == [p \in Process |-> IF p \in D THEN "starting" ELSE L.live[p]]
           others == [p \in Process |-> IF p \in D /\ L.live[p] # "none"
                                        THEN OneMore(L.others[p], L.live[p])
                                        ELSE L.others[p]]
<1>1. /\ M.running = L.running /\ M.umb = L.umb /\ M.sock = L.sock
      /\ M.events = L.events
    BY Zenon DEF Launch, Local
<1>2. M.live = live /\ M.others = others
    BY Zenon DEF Launch, Local
<1>3. ASSUME NEW p \in Process
      PROVE  /\ p \in D => M.live[p] = "starting"
             /\ p \notin D => M.live[p] = L.live[p] /\ M.others[p] = L.others[p]
    BY <1>2
<1> HIDE DEF M
<1>4. \A p \in Process : Here(L, p) => Here(M, p)
    BY <1>3 DEF Here
<1>5. L.sock = "none" => Still(M)
    BY <1>3 DEF Genuine, Still
<1> QED
    BY <1>1, <1>4, <1>5, HereGenuine DEF M

\* The one process finds the umbilical closed or is connected already.
LEMMA ConnectGenuine ==
    ASSUME NEW s \in Subsystem, Solitary(s), NEW L \in Sound(s), Genuine(s, L)
    PROVE  LET M == Connect(s, L) IN Genuine(s, M) /\ M.running = L.running
<1> DEFINE M == Connect(s, L)
           new == Processes[s] \ L.maybe
           up == [L EXCEPT !.maybe = @ \cup new, !.refs = @ + Cardinality(new),
                           !.umb = "connecting"]
<1>1. /\ L \in Local /\ L.maybe \subseteq Processes[s] /\ L.refs = Cardinality(L.maybe)
      /\ L.umb = "closed" <=> L.refs = 0
    BY DEF Sound
<1>2. CASE new = {}
    BY <1>2 DEF Connect
<1>3. CASE new # {}
  <2>1. L.maybe = {}
      BY <1>1, <1>3 DEF Solitary
  <2>2. L.umb = "closed" /\ L.sock = "none"
      BY <1>1, <2>1, FS_EmptySet DEF Genuine
  <2>3. M = [up EXCEPT !.conn = @ + 1]
      BY <1>3, <2>2 DEF Connect
  <2> HIDE DEF new
  <2>4. /\ M.running = L.running /\ M.umb = "connecting" /\ M.sock = L.sock
        /\ M.events = L.events /\ M.live = L.live /\ M.others = L.others
      BY <1>1, <2>3, Zenon DEF Local
  <2> HIDE DEF M
  <2>5. \A p \in L.running : Vouched(M, p, 0)
      BY <2>4 DEF Genuine, Vouched, Here
  <2>6. Still(M) /\ M.events = <<>>
      BY <2>2, <2>4 DEF Genuine, Still
  <2> QED
      BY <2>2, <2>4, <2>5, <2>6 DEF Genuine, M
<1> QED
    BY <1>2, <1>3

\* After a stop event the process is not believed to run.
LEMMA NoteStopGenuine ==
    ASSUME NEW s \in Subsystem, NEW L \in Steady(s), Genuine(s, L), L.events # <<>>
    PROVE  LET M == NoteStop(L) IN Genuine(s, M) /\ M.running \subseteq L.running
<1> DEFINE R == ReadEvent(L)
           e == Head(L.events)
           M == NoteStop(L)
<1>1. /\ R \in Steady(s) /\ R \in Local /\ L \in Local /\ R.running = L.running
      /\ e \in OwnEvent(s) /\ Wires(s, L)
    BY ReadEventSteady, SteadySound DEF Steady
<1>2. CASE e.kind = "stop"
  <2>1. M = SetStopped(R, e.proc)
      BY <1>2 DEF NoteStop
  <2> HIDE DEF R
  <2>2. SameWires(R, M) /\ M.running = R.running \ {e.proc}
      BY <1>1, <2>1, Zenon DEF SetStopped, SameWires, Local
  <2> HIDE DEF M
  <2> QED
      BY <1>1, <1>2, <2>2, ReadGenuine DEF Noted, R, M
<1>3. CASE e.kind # "stop"
  <2>1. M = R
      BY <1>3 DEF NoteStop
  <2>2. M.running \subseteq Noted(L) /\ SameWires(R, M)
      BY <1>1, <1>3, <2>1 DEF Noted, SameWires
  <2> HIDE DEF M
  <2> QED
      BY <1>1, <2>1, <2>2, ReadGenuine DEF M
<1> QED
    BY <1>2, <1>3

-----------------------------------------------------------------------------
(* The ways to end a step.                                                 *)

\* What a coroutine that takes a step may rely on.
LEMMA BeforeHonest ==
    ASSUME IInv, LInv, BInv, NEW s \in Subsystem, NEW i \in Slot, sub[s].co[i].at # "dead",
           Alone(sub[s])
    PROVE  /\ i = 1 /\ Genuine(s, sub[s]) /\ Attentive(sub[s])
           /\ sub[s].oper = sub[s].co[i].state
           /\ sub[s].co[i].at = "run" =>
                 Waiting(s, sub[s], sub[s].co[i].state, sub[s].co[i].next)
BY BeforeTold, Only DEF BInv, Honest

LEMMA PutHonest ==
    ASSUME IInv, LInv, BInv, NEW s \in Subsystem, NEW L, NEW P,
           Put(s, L, P) \/ Set(s, L, P), Honest(s, L)
    PROVE  BInv'
<1>1. sub \in [Subsystem -> Local] /\ sub' = [sub EXCEPT ![s] = L]
    BY DEF IInv, TypeOK, Put, Set
<1>2. \A t \in Subsystem : sub'[t] = IF t = s THEN L ELSE sub[t]
    BY <1>1
<1> QED
    BY <1>2 DEF BInv

LEMMA GotoHonest ==
    ASSUME IInv, LInv, BInv, NEW s \in Subsystem, NEW i \in Slot, NEW L \in Local,
           NEW P, NEW st, NEW c, Goto(s, i, L, P, st, c),
           Alone(L) /\ i = 1 => Genuine(s, L) /\ (st \in Downed => L.running = {})
    PROVE  BInv'
<1> DEFINE M == EnterState(L, i, st, c)
<1>2. M.co = [L.co EXCEPT ![i] = NewCoroutine("enter", st, c)]
    BY Zenon DEF EnterState, Local
<1>3. SameWires(L, M) /\ M.running = L.running
    BY Zenon DEF EnterState, Local, SameWires
<1>4. L.co \in [Slot -> Coroutine]
    BY Fields
<1>a. Set(s, M, P)
    BY DEF Goto
<1> HIDE DEF M
<1>5. /\ M.co[i].at = "enter" /\ M.co[i].state = st
      /\ \A j \in Slot \ {i} : M.co[j] = L.co[j]
    BY <1>2, <1>4 DEF NewCoroutine
<1>6. Alone(M) => Alone(L) /\ i = 1
    BY <1>5, SlotAssumption DEF Alone
<1>7. Honest(s, M)
    BY <1>3, <1>5, <1>6, SameGenuine DEF Honest, Attentive
<1> QED
    BY <1>7, <1>a, PutHonest

\* The coroutine suspends in its state.
LEMMA RunInHonest ==
    ASSUME NEW s \in Subsystem, NEW i \in Slot, NEW L \in Local, NEW next,
           Alone(L) /\ i = 1 =>
              /\ Genuine(s, L)
              /\ L.co[1].state \in Downed \cup {"Connecting"} => L.running = {}
              /\ L.co[1].state \notin {"StartingChildren", "StoppingChildren"}
    PROVE  Honest(s, RunIn(L, i, next))
<1> DEFINE M == RunIn(L, i, next)
<1>2. M.co = [L.co EXCEPT ![i].at = "run", ![i].next = next]
    BY Zenon DEF RunIn, Local
<1>3. SameWires(L, M) /\ M.running = L.running
    BY Zenon DEF RunIn, Local, SameWires
<1>4. L.co \in [Slot -> Coroutine] /\ L.co[i] \in Coroutine
    BY Fields
<1> HIDE DEF M
<1>5. M.co[i].at = "run" /\ M.co[i].state = L.co[i].state
    BY <1>2, <1>4 DEF Coroutine
<1>6. \A j \in Slot \ {i} : M.co[j] = L.co[j]
    BY <1>2, <1>4
<1>7. Alone(M) => Alone(L) /\ i = 1
    BY <1>5, <1>6, SlotAssumption DEF Alone
<1> QED
    BY <1>3, <1>5, <1>7, SameGenuine DEF Honest, Attentive, M

LEMMA NotifyAndRunHonest ==
    ASSUME IInv, LInv, BInv, NEW s \in Subsystem, NEW i \in Slot, NEW L \in Local, NEW next,
           NotifyAndRun(s, i, L, next),
           Alone(L) /\ i = 1 =>
              /\ Genuine(s, L)
              /\ L.co[1].state \in Downed \cup {"Connecting"} => L.running = {}
              /\ L.co[1].state \notin {"StartingChildren", "StoppingChildren"}
    PROVE  BInv'
BY RunInHonest, PutHonest DEF NotifyAndRun

\* The coroutines stay where they are, and no more is believed.
Mild(L, M) ==
    /\ \A j \in Slot : M.co[j].at = L.co[j].at /\ M.co[j].state = L.co[j].state
    /\ M.running \subseteq L.running

LEMMA MildAlone ==
    ASSUME NEW L, NEW M, Mild(L, M)
    PROVE  Alone(M) <=> Alone(L)
BY DEF Mild, Alone

LEMMA MildHonest ==
    ASSUME NEW s, NEW L, NEW M, Mild(L, M), Honest(s, L),
           Alone(L) => Genuine(s, M)
    PROVE  Honest(s, M)
<1>1. Alone(M) => Alone(L)
    BY MildAlone
<1>2. Attentive(L) => Attentive(M)
    BY SlotAssumption DEF Mild, Attentive
<1> QED
    BY <1>1, <1>2 DEF Honest

LEMMA SameHonest ==
    ASSUME NEW s \in Subsystem, NEW L \in Local, NEW M, Mild(L, M), Honest(s, L), SameWires(L, M)
    PROVE  Honest(s, M)
BY MildHonest, SameGenuine DEF Honest, Mild

\* The relations of the proofs above.
LEMMA SameMild ==
    ASSUME NEW L, NEW M
    PROVE  /\ SameBody(L, M) => SameWires(L, M) /\ M.running = L.running
           /\ SameBody(L, M) /\ SameCourse(L, M) => Mild(L, M)
           /\ Poised(L, M) /\ M.running \subseteq L.running => Mild(L, M)
           /\ SameBody(L, M) /\ Poised(L, M) => Mild(L, M)
BY DEF SameBody, SameWires, SameCourse, Mild, Poised

\* The tail of a state, in a state of the subsystem in which it runs.
LEMMA TailsHonest ==
    ASSUME IInv, LInv, BInv, NEW s \in Subsystem, NEW i \in Slot, NEW L \in Told(s), NEW P,
           L.co[i].at = "run", Honest(s, L)
    PROVE  LET st == L.co[i].state IN
           /\ st = "StartingChildren" /\ StartingChildrenTail(s, i, L, P) => BInv'
           /\ ConnectingTail(s, i, L, P) => BInv'
           /\ st = "StartingProcesses" /\ StartingProcessesTail(s, i, L, P) => BInv'
           /\ st = "StoppingProcesses" /\ StoppingProcessesTail(s, i, L, P) => BInv'
           /\ st = "StoppingChildren" /\ StoppingChildrenTail(s, i, L, P) => BInv'
           /\ RestartingTail(s, i, L, P) => BInv'
           /\ RestartingProcessesTail(s, i, L, P) => BInv'
<1> DEFINE st == L.co[i].state
<1>1. L \in Local
    BY SteadySound
<1>2. \A Q : Set(s, L, Q) => BInv'
    BY PutHonest
<1>3. \A Q, c, t : /\ Goto(s, i, L, Q, t, c)
                   /\ t \notin Downed \/ (Alone(L) => st \in {"StartingChildren", "StoppingChildren"})
                   => BInv'
    BY <1>1, GotoHonest DEF Honest, Attentive
<1>4. Alone(L) => i = 1 /\ Waiting(s, L, st, L.co[i].next)
    BY Only
<1>5. st = "StartingChildren" /\ StartingChildrenTail(s, i, L, P) => BInv'
    BY <1>2, <1>3 DEF StartingChildrenTail
<1>6. ConnectingTail(s, i, L, P) => BInv'
    BY <1>2, <1>3 DEF ConnectingTail, Downed
<1>a. ASSUME ~Alone(L), NEW Q, NEW c, NEW t, Goto(s, i, L, Q, t, c) PROVE BInv'
    BY <1>1, <1>a, GotoHonest
<1>7. st = "StartingProcesses" /\ StartingProcessesTail(s, i, L, P) => BInv'
    BY <1>2, <1>3, <1>4, <1>a DEF StartingProcessesTail, Waiting, Downed
<1>8. st = "StoppingProcesses" /\ StoppingProcessesTail(s, i, L, P) => BInv'
    BY <1>2, <1>3, <1>4, <1>a DEF StoppingProcessesTail, Waiting, Downed
<1>9. st = "StoppingChildren" /\ StoppingChildrenTail(s, i, L, P) => BInv'
    BY <1>2, <1>3 DEF StoppingChildrenTail
<1>10. RestartingTail(s, i, L, P) => BInv'
    BY <1>2, <1>3 DEF RestartingTail, RestartNow, Downed
<1>11. RestartingProcessesTail(s, i, L, P) => BInv'
    BY <1>2, <1>3 DEF RestartingProcessesTail, Downed
<1> QED
    BY <1>5, <1>6, <1>7, <1>8, <1>9, <1>10, <1>11

\* A coroutine that goes to sleep before a restart, or gives up.
LEMMA SleepHonest ==
    ASSUME NEW s \in Subsystem, NEW L \in Local, NEW i \in Slot,
           NEW at \in {"wait", "nap"}, NEW n,
           Alone(L) /\ i = 1 =>
              Genuine(s, L) /\ (L.co[1].state \in Downed => L.running = {})
    PROVE  Honest(s, [L EXCEPT !.restarts = n, !.co[i].at = at])
<1> DEFINE M == [L EXCEPT !.restarts = n, !.co[i].at = at]
<1>2. M.co = [L.co EXCEPT ![i].at = at]
    BY Zenon DEF Local
<1>3. SameWires(L, M) /\ M.running = L.running
    BY Zenon DEF Local, SameWires
<1>4. L.co \in [Slot -> Coroutine] /\ L.co[i] \in Coroutine
    BY Fields
<1> HIDE DEF M
<1>5. M.co[i].at = at /\ M.co[i].state = L.co[i].state
    BY <1>2, <1>4 DEF Coroutine
<1>6. \A j \in Slot \ {i} : M.co[j] = L.co[j]
    BY <1>2, <1>4
<1>7. Alone(M) => Alone(L) /\ i = 1
    BY <1>5, <1>6, SlotAssumption DEF Alone
<1> QED
    BY <1>3, <1>5, <1>7, SameGenuine DEF Honest, Attentive, M

LEMMA EnterStateHonest ==
    ASSUME NEW s \in Subsystem, NEW i \in Slot, NEW L \in Local, NEW st, NEW c,
           Alone(L) /\ i = 1 => Genuine(s, L) /\ (st \in Downed => L.running = {})
    PROVE  Honest(s, EnterState(L, i, st, c))
<1> DEFINE M == EnterState(L, i, st, c)
<1>2. M.co = [L.co EXCEPT ![i] = NewCoroutine("enter", st, c)]
    BY Zenon DEF EnterState, Local
<1>3. SameWires(L, M) /\ M.running = L.running
    BY Zenon DEF EnterState, Local, SameWires
<1>4. L.co \in [Slot -> Coroutine]
    BY Fields
<1> HIDE DEF M
<1>5. /\ M.co[i].at = "enter" /\ M.co[i].state = st
      /\ \A j \in Slot \ {i} : M.co[j] = L.co[j]
    BY <1>2, <1>4 DEF NewCoroutine
<1>6. Alone(M) => Alone(L) /\ i = 1
    BY <1>5, SlotAssumption DEF Alone
<1> QED
    BY <1>3, <1>5, <1>6, SameGenuine DEF Honest, Attentive, M

LEMMA RestartIfPossibleHonest ==
    ASSUME NEW s \in Subsystem, NEW L \in Local, NEW i \in Slot,
           Alone(L) /\ i = 1 => Genuine(s, L) /\ L.running = {}
    PROVE  Honest(s, RestartIfPossible(L, i))
BY EnterStateHonest, SleepHonest, Zenon DEF RestartIfPossible

-----------------------------------------------------------------------------
(* The prologues.                                                          *)

LEMMA EnterOfflineHonest ==
    ASSUME IInv, LInv, BInv, NEW s \in Subsystem, NEW i \in Slot, EnterOffline(s, i),
           Solitary(s)
    PROVE  BInv'
<1> DEFINE K == [sub[s] EXCEPT !.restarts = 0]
           L == Disconnect(K, Processes[s])
           M == ResetProcessRestarts(L)
<1>1. Entering(s, i, "Offline") /\ NotifyAndRun(s, i, M, "Offline")
    BY DEF EnterOffline
<1>2. K \in Steady(s) /\ Poised(sub[s], K) /\ sub[s] \in Local
    BY BeforeTold, NoRestartsSteady
<1>3. SameWires(sub[s], K) /\ K.running = sub[s].running
    BY <1>2, Zenon DEF Local, SameWires
<1> HIDE DEF K
<1>4. L \in Steady(s) /\ Poised(K, L) /\ K \in Sound(s) /\ L \in Local
    BY <1>2, DisconnectSteady, SteadySound
<1>5. Genuine(s, K) => Genuine(s, L)
    BY <1>4, DisconnectGenuine
<1> HIDE DEF L
<1>6. M \in Steady(s) /\ Poised(L, M) /\ M \in Local
    BY <1>4, ResetSteady, SteadySound
<1>7. SameWires(L, M) /\ M.running = L.running
    BY <1>4, Zenon DEF Local, SameWires, ResetProcessRestarts
<1> HIDE DEF M
<1>8. Alone(M) => Alone(sub[s])
    BY <1>2, <1>4, <1>6, PoisedAlone
<1>9. M.co[i].state = "Offline"
    BY <1>1, <1>2, <1>4, <1>6 DEF Poised, Entering
<1>10. Alone(M) => Genuine(s, M)
    BY <1>1, <1>2, <1>3, <1>4, <1>5, <1>7, <1>8, SameGenuine, BeforeHonest DEF Entering
<1> QED
    BY <1>1, <1>6, <1>9, <1>10, NotifyAndRunHonest DEF Downed

LEMMA EnterStartingChildrenHonest ==
    ASSUME IInv, LInv, BInv, NEW s \in Subsystem, NEW i \in Slot,
           EnterStartingChildren(s, i), Solitary(s)
    PROVE  BInv'
<1>1. Goto(s, i, sub[s], pipe, "Connecting", sub[s].co[i].cid)
    BY DEF EnterStartingChildren, Solitary
<1>2. Alone(sub[s]) => Genuine(s, sub[s])
    BY DEF BInv, Honest
<1> QED
    BY <1>1, <1>2, BeforeTold, GotoHonest DEF Downed

LEMMA EnterConnectingHonest ==
    ASSUME IInv, LInv, BInv, NEW s \in Subsystem, NEW i \in Slot, EnterConnecting(s, i),
           Solitary(s)
    PROVE  BInv'
<1> DEFINE K == [sub[s] EXCEPT !.oper = "Connecting"]
           L == Connect(s, K)
<1>1. /\ Entering(s, i, "Connecting")
      /\ \/ Goto(s, i, L, pipe, "StartingProcesses", L.co[i].cid)
         \/ NotifyAndRun(s, i, L, "Connecting") /\ ~AllProcessesConnected(s, L)
    BY DEF EnterConnecting
<1>2. /\ sub[s] \in Steady(s) /\ sub[s] \in Told(s)
      /\ sub[s] \in Local /\ sub[s] \in Sound(s)
    BY BeforeTold, SteadySound
<1>3. K \in Sound(s) /\ K.oper = "Connecting"
  <2>1. "Connecting" \in OperState
      BY States
  <2> QED
      BY <1>2, <2>1, FieldSound, Zenon DEF Local
<1>4. SameBody(sub[s], K) /\ K.co = sub[s].co
    BY <1>2, Zenon DEF Local, SameBody
<1> HIDE DEF K
<1>5. K \in Steady(s)
    BY <1>2, <1>3, <1>4, SameSteady DEF Alone
<1>6. L \in Steady(s) /\ Poised(K, L) /\ L \in Local
    BY <1>5, ConnectSteady, SteadySound
<1>7. Genuine(s, K) => Genuine(s, L) /\ L.running = K.running
    BY <1>3, ConnectGenuine
<1> HIDE DEF L
<1>8. Alone(L) => Alone(sub[s])
    BY <1>4, <1>6, PoisedAlone DEF Alone
<1>9. Alone(L) => Genuine(s, L)
    BY <1>1, <1>2, <1>4, <1>7, <1>8, SameGenuine, SameMild, BeforeHonest DEF Entering
<1>10. L.co[i].state = "Connecting"
    BY <1>1, <1>4, <1>6 DEF Poised, Entering
<1>11. Alone(L) /\ ~AllProcessesConnected(s, L) => L.running = {}
    BY <1>6, <1>9, NothingBelieved DEF AllProcessesConnected, IsConnected
<1> QED
    BY <1>1, <1>6, <1>9, <1>10, <1>11, GotoHonest, NotifyAndRunHonest DEF Downed

\* The one process that has still to be launched is not believed to run.
LEMMA LaunchingHonest ==
    ASSUME IInv, LInv, BInv, NEW s \in Subsystem, NEW i \in Slot,
           Entering(s, i, "StartingProcesses"), Solitary(s)
    PROVE  LET L == [sub[s] EXCEPT !.oper = "StartingProcesses"] IN
           /\ L.running = sub[s].running
           /\ Alone(L) => /\ Genuine(s, L) /\ i = 1
                          /\ ToLaunch(s) # {} => L.running = {}
<1> DEFINE L == [sub[s] EXCEPT !.oper = "StartingProcesses"]
<1>1. sub[s] \in Local
    BY BeforeTold
<1>2. SameWires(sub[s], L) /\ L.running = sub[s].running /\ L.co = sub[s].co
    BY <1>1, Zenon DEF Local, SameWires
<1> HIDE DEF L
<1>3. Alone(L) => Genuine(s, sub[s]) /\ i = 1
    BY <1>2, BeforeHonest DEF Entering, Alone
<1>4. Alone(L) => Genuine(s, L)
    BY <1>1, <1>2, <1>3, SameGenuine
<1>5. Genuine(s, L) /\ ToLaunch(s) # {} => L.running = {}
    BY <1>2 DEF Genuine, Solitary, ToLaunch
<1> QED
    BY <1>2, <1>3, <1>4, <1>5 DEF L

LEMMA EnterStartingProcessesHonest ==
    ASSUME IInv, LInv, BInv, NEW s \in Subsystem, NEW i \in Slot,
           EnterStartingProcesses(s, i), Solitary(s)
    PROVE  BInv'
<1> DEFINE L == [sub[s] EXCEPT !.oper = "StartingProcesses"]
           D == ToLaunch(s)
           o == IF L.admin = "Offline" THEN "Offline" ELSE "Online"
           K == Launch(L, D)
<1>1. /\ Entering(s, i, "StartingProcesses")
      /\ \/ Goto(s, i, L, NotifyParents(pipe, s, o), o, L.co[i].cid)
         \/ /\ D = {} \/ L.sock = "open"
            /\ NotifyAndRun(s, i, K, "Online")
         \/ L.sock = "eof" /\ NotifyAndRun(s, i, CloseSocket(K), "Online")
         \/ /\ D # {} /\ L.sock # "open"
            /\ Set(s, RestartIfPossible(CloseSocket(L), i), pipe)
    BY Zenon DEF EnterStartingProcesses
<1>2. /\ L \in Steady(s) /\ L \in Local
      /\ Alone(L) => L.co[1].state = "StartingProcesses"
    BY <1>1, LaunchingTold, SteadySound
<1>3. Alone(L) => Genuine(s, L) /\ i = 1 /\ (D # {} => L.running = {})
    BY <1>1, LaunchingHonest
<1> HIDE DEF L, D
<1>4. /\ K \in Local /\ Poised(L, K)
    BY <1>2, LaunchSteady, SteadySound
<1>5. Genuine(s, L) /\ (D = {} \/ L.sock = "open") => Genuine(s, K)
    BY <1>2, LaunchGenuine
<1> HIDE DEF K
<1>6. CASE Goto(s, i, L, NotifyParents(pipe, s, o), o, L.co[i].cid)
    BY <1>2, <1>3, <1>6, GotoHonest DEF Downed
<1>7. CASE (D = {} \/ L.sock = "open") /\ NotifyAndRun(s, i, K, "Online")
  <2>1. Alone(K) => Genuine(s, K) /\ K.co[1].state = "StartingProcesses"
      BY <1>2, <1>3, <1>4, <1>5, <1>7, PoisedAlone, SlotAssumption DEF Poised
  <2> QED
      BY <1>4, <1>7, <2>1, NotifyAndRunHonest DEF Downed
<1>8. CASE L.sock = "eof" /\ NotifyAndRun(s, i, CloseSocket(K), "Online")
  <2>1. ~Alone(L)
      BY <1>3, <1>8 DEF Genuine
  <2>2. CloseSocket(K) \in Local /\ Poised(K, CloseSocket(K))
      BY <1>2, <1>4, LaunchSteady, SteadySound, CloseSocketSteady DEF K
  <2>3. ~Alone(CloseSocket(K))
      BY <1>4, <2>1, <2>2, PoisedAlone
  <2> QED
      BY <1>8, <2>2, <2>3, NotifyAndRunHonest
<1>9. CASE D # {} /\ L.sock # "open" /\ Set(s, RestartIfPossible(CloseSocket(L), i), pipe)
  <2> DEFINE M == CloseSocket(L)
  <2>1. M \in Local /\ Poised(L, M) /\ M.running = L.running /\ M.umb = L.umb
      BY <1>2, SteadySound, CloseSocketSteady
  <2>2. M.sock = "none" /\ M.events = <<>> /\ Still(M)
    <3>1. /\ M.sock = "none" /\ M.events = <<>>
          /\ M.live = [p \in Process |-> "none"]
          /\ M.others = [p \in Process |-> [f \in Phase |-> 0]]
        BY <1>2, Zenon DEF CloseSocket, Local
    <3> HIDE DEF M
    <3> QED
        BY <3>1 DEF Still
  <2>3. Honest(s, RestartIfPossible(M, i))
    <3> HIDE DEF M
    <3>1. Alone(M) => Genuine(s, M) /\ M.running = {}
        BY <1>3, <1>9, <2>1, <2>2, PoisedAlone DEF Genuine
    <3> QED
        BY <2>1, <3>1, RestartIfPossibleHonest
  <2> QED
      BY <1>9, <2>3, PutHonest
<1> QED
    BY <1>1, <1>6, <1>7, <1>8, <1>9

LEMMA LaunchFailsHonest ==
    ASSUME IInv, LInv, BInv, NEW s \in Subsystem, NEW i \in Slot, LaunchFails(s, i),
           Solitary(s)
    PROVE  BInv'
<1> DEFINE L == [sub[s] EXCEPT !.oper = "StartingProcesses"]
<1>1. PICK K \in (SUBSET ToLaunch(s)) \ {ToLaunch(s)} :
         Put(s, RestartIfPossible(Launch(L, K), i), pipe)
    BY Zenon DEF LaunchFails
<1>2. Entering(s, i, "StartingProcesses") /\ sub[s].sock = "open" /\ ToLaunch(s) # {}
  <2>1. Entering(s, i, "StartingProcesses") /\ sub[s].sock = "open"
      BY Zenon DEF LaunchFails
  <2> QED
      BY <1>1, <2>1
<1>3. L \in Steady(s) /\ L \in Local /\ L.sock = "open"
    BY <1>2, LaunchingTold, SteadySound
<1>4. Alone(L) => Genuine(s, L) /\ L.running = {}
    BY <1>2, LaunchingHonest
<1> HIDE DEF L
<1> DEFINE M == Launch(L, K)
<1>5. M \in Local /\ Poised(L, M)
    BY <1>3, LaunchSteady, SteadySound
<1>6. Genuine(s, L) => Genuine(s, M) /\ M.running = L.running
    BY <1>3, LaunchGenuine
<1> HIDE DEF M
<1>7. Alone(M) => Genuine(s, M) /\ M.running = {}
    BY <1>4, <1>5, <1>6, PoisedAlone
<1>8. Honest(s, RestartIfPossible(M, i))
    BY <1>5, <1>7, RestartIfPossibleHonest
<1> QED
    BY <1>1, <1>8, PutHonest DEF M

LEMMA EnterStoppingHonest ==
    ASSUME IInv, LInv, BInv, NEW s \in Subsystem, NEW i \in Slot,
           EnterStoppingProcesses(s, i) \/ EnterStoppingChildren(s, i), Solitary(s)
    PROVE  BInv'
<1> DEFINE L == sub[s]
           c == L.co[i].cid
           M == StopProcesses(s, L)
<1>1. L \in Local /\ L \in Steady(s) /\ L \in Sound(s) /\ L.co[i].at = "enter"
    BY BeforeTold, SteadySound DEF EnterStoppingProcesses, EnterStoppingChildren, Entering
<1>2. Alone(L) => Genuine(s, L)
    BY <1>1, BeforeHonest
<1>3. CASE Goto(s, i, L, SendToChildren(pipe, s, "Offline", c), "StoppingChildren", c)
    BY <1>1, <1>2, <1>3, GotoHonest DEF Downed
<1>4. CASE Goto(s, i, L, pipe, "Offline", c)
    BY <1>1, <1>2, <1>4, GotoHonest DEF Downed
<1>5. CASE NotifyAndRun(s, i, M, "StoppingChildren") /\ Entering(s, i, "StoppingProcesses")
  <2>1. M \in Local /\ Poised(L, M)
      BY <1>1, StopProcessesSteady, SteadySound
  <2>2. Alone(M) => Genuine(s, M)
      BY <1>1, <1>2, <2>1, PoisedAlone, StopProcessesGenuine
  <2> HIDE DEF M
  <2>3. M.co[i].state = "StoppingProcesses"
      BY <1>5, <2>1 DEF Poised, Entering
  <2> QED
      BY <1>5, <2>1, <2>2, <2>3, NotifyAndRunHonest DEF Downed
<1> QED
    BY <1>3, <1>4, <1>5, Zenon DEF EnterStoppingProcesses, EnterStoppingChildren, Solitary

LEMMA EnterRestartingHonest ==
    ASSUME IInv, LInv, BInv, NEW s \in Subsystem, NEW i \in Slot,
           EnterRestarting(s, i) \/ EnterRestartingProcesses(s, i), Solitary(s)
    PROVE  BInv'
<1> DEFINE L == sub[s]
           M == StopProcesses(s, L)
<1>1. /\ L \in Local /\ L \in Steady(s) /\ L \in Sound(s) /\ L.co[i].at = "enter"
      /\ L.co[i].state \in {"Restarting", "RestartingProcesses"}
    BY BeforeTold, SteadySound DEF EnterRestarting, EnterRestartingProcesses, Entering
<1>2. Alone(L) => Genuine(s, L)
    BY <1>1, BeforeHonest
<1>3. ASSUME NEW P, NEW st \in {"StartingChildren", "Connecting"}, NEW c, Goto(s, i, L, P, st, c)
      PROVE  BInv'
    BY <1>1, <1>2, <1>3, GotoHonest DEF Downed
<1>4. Honest(s, RunIn(L, i, "RestartingProcesses"))
    BY <1>1, <1>2, RunInHonest DEF Downed
<1>5. Honest(s, RunIn(M, i, "Restarting"))
  <2>1. M \in Local /\ Poised(L, M)
      BY <1>1, StopProcessesSteady, SteadySound
  <2>2. Alone(M) => Genuine(s, M)
      BY <1>1, <1>2, <2>1, PoisedAlone, StopProcessesGenuine
  <2> HIDE DEF M
  <2>3. M.co[i].state \in {"Restarting", "RestartingProcesses"}
      BY <1>1, <2>1 DEF Poised
  <2> QED
      BY <2>1, <2>2, <2>3, RunInHonest DEF Downed
<1> HIDE DEF M
<1>6. CASE EnterRestarting(s, i)
  <2>1. \/ Set(s, RunIn(M, i, "Restarting"), pipe)
        \/ Set(s, RunIn(M, i, "Restarting"), NotifyParents(pipe, s, L.oper))
        \/ RestartNow(s, i, L, pipe, L.co[i].cid)
      BY <1>6, Zenon DEF EnterRestarting, M
  <2> QED
      BY <1>3, <1>5, <2>1, PutHonest DEF RestartNow
<1>7. CASE EnterRestartingProcesses(s, i)
  <2> DEFINE R == RunIn(L, i, "RestartingProcesses")
  <2>1. \/ Set(s, R, pipe)
        \/ Set(s, R, NotifyParents(pipe, s, L.oper))
        \/ Goto(s, i, L, pipe, "Connecting", L.co[i].cid)
      BY <1>7, Zenon DEF EnterRestartingProcesses
  <2> HIDE DEF R
  <2>2. Honest(s, R)
      BY <1>4 DEF R
  <2> QED
      BY <1>3, <2>1, <2>2, PutHonest
<1> QED
    BY <1>6, <1>7

LEMMA EnterSettledHonest ==
    ASSUME IInv, LInv, BInv, NEW s \in Subsystem, NEW i \in Slot,
           EnterOnline(s, i) \/ EnterBroken(s, i)
    PROVE  BInv'
<1>1. /\ sub[s].co[i].at = "enter" /\ sub[s] \in Local
      /\ sub[s].co[i].state \in {"Online", "Broken", "Degraded"}
      /\ NotifyAndRun(s, i, sub[s], sub[s].co[i].state)
    BY BeforeTold DEF EnterOnline, EnterBroken, Entering
<1>2. Alone(sub[s]) /\ i = 1 =>
         /\ Genuine(s, sub[s])
         /\ sub[s].co[1].state \in Downed \cup {"Connecting"} => sub[s].running = {}
    BY <1>1, BeforeHonest DEF Attentive, Downed
<1> QED
    BY <1>1, <1>2, NotifyAndRunHonest

LEMMA PrologueHonest ==
    ASSUME IInv, LInv, BInv, NEW s \in Subsystem, NEW i \in Slot, Prologue(s, i), Solitary(s)
    PROVE  BInv'
BY EnterOfflineHonest, EnterStartingChildrenHonest, EnterConnectingHonest,
   EnterStartingProcessesHonest, EnterStoppingHonest, EnterRestartingHonest,
   EnterSettledHonest DEF Prologue

-----------------------------------------------------------------------------
(* The messages.                                                           *)

\* A coroutine enters a state in which its subsystem has not given up.
LEMMA GotoCalm ==
    ASSUME IInv, LInv, BInv, NEW s \in Subsystem, NEW i \in Slot, NEW L \in Local,
           NEW P, NEW st, NEW c, Goto(s, i, L, P, st, c), Honest(s, L), st \notin Downed
    PROVE  BInv'
BY GotoHonest DEF Honest

\* Nobody reports to a subsystem without children.
LEMMA ReceivingHonest ==
    ASSUME IInv, LInv, BInv, NEW s \in Subsystem, NEW i \in Slot, NEW st, NEW code,
           Receives(s, i, st, code), Solitary(s)
    PROVE  /\ sub[s] \in Told(s) /\ sub[s] \in Steady(s) /\ sub[s] \in Local
           /\ Honest(s, sub[s])
           /\ code # "ReportOper"
           /\ Head(pipe[s]) \in Message
           /\ RunsIn(sub[s], i, st) /\ sub[s].co[i].at = "run" /\ sub[s].co[i].state = st
           /\ st \in {"StartingChildren", "StoppingChildren"} => ~Alone(sub[s])
<1>1. /\ sub[s] \in Told(s) /\ sub[s] \in Steady(s) /\ sub[s] \in Local
      /\ RunsIn(sub[s], i, st) /\ Head(pipe[s]) \in OwnMessage(s)
      /\ Head(pipe[s]).code = code /\ Head(pipe[s]) \in Message
      /\ Alone(sub[s]) => i = 1
    BY ReceivingTold, SteadySound DEF RunsIn
<1>2. code # "ReportOper"
    BY <1>1 DEF OwnMessage, Solitary
<1>3. Honest(s, sub[s])
    BY DEF BInv
<1> QED
    BY <1>1, <1>2, <1>3 DEF Honest, Attentive, RunsIn

LEMMA AbortHonest ==
    ASSUME NEW s \in Subsystem, NEW L \in Local, Honest(s, L), NEW i \in Slot, NEW m
    PROVE  Honest(s, AbortSubsystem(s, L, i, m))
<1> DEFINE M == [L EXCEPT !.admin = "Offline", !.active = {}, !.running = {}]
<1>1. M \in Local
  <2>1. "Offline" \in AdminState /\ {} \in SUBSET Client /\ {} \in SUBSET Process
      BY States
  <2> QED
      BY <2>1, Zenon DEF Local
<1>2. SameWires(L, M) /\ M.running = {} /\ M.co = L.co
    BY Zenon DEF Local, SameWires
<1>3. AbortSubsystem(s, L, i, m) \in {L, EnterState(M, i, "Offline", NoClient)}
    BY Zenon DEF AbortSubsystem
<1> HIDE DEF M
<1>4. Alone(M) => Genuine(s, M)
    BY <1>2, SameGenuine DEF Honest, Alone
<1>5. Honest(s, EnterState(M, i, "Offline", NoClient))
    BY <1>1, <1>4, EnterStateHonest DEF Downed
<1> QED
    BY <1>3, <1>5

LEMMA GetsAbortHonest ==
    ASSUME IInv, LInv, BInv, NEW s \in Subsystem, NEW i \in Slot, Solitary(s),
           GetsAbort(s, i) \/ GetsRestart(s, i) \/ GetsIgnored(s, i)
    PROVE  BInv'
<1>1. PICK st, code : Receives(s, i, st, code)
    BY DEF GetsAbort, GetsRestart, GetsIgnored
<1>2. sub[s] \in Local /\ Honest(s, sub[s])
    BY <1>1, ReceivingHonest
<1>3. CASE GetsAbort(s, i)
  <2>1. Honest(s, AbortSubsystem(s, sub[s], i, Head(pipe[s])))
      BY <1>2, AbortHonest
  <2> QED
      BY <1>3, <2>1, PutHonest DEF GetsAbort
<1>4. CASE GetsRestart(s, i)
  <2>1. Goto(s, i, sub[s], Take(s), "Restarting", sub[s].co[i].cid)
      BY <1>4 DEF GetsRestart
  <2> QED
      BY <1>2, <2>1, GotoCalm DEF Downed
<1>5. CASE GetsIgnored(s, i)
    BY <1>2, <1>5, PutHonest DEF GetsIgnored
<1> QED
    BY <1>3, <1>4, <1>5

\* A command changes nothing that is believed.
LEMMA AnswerHonest ==
    ASSUME IInv, LInv, BInv, NEW s \in Subsystem, NEW i \in Slot, NEW st, Solitary(s),
           Receives(s, i, st, "ChangeAdmin"), NEW a \in OperState, NEW b \in OperState
    PROVE  LET H == Answer(s, a, b)
               M == Adopt(H, i, Head(pipe[s]), b)
           IN  /\ H.sub \in Local /\ Honest(s, H.sub) /\ H.sub.co = sub[s].co
               /\ M \in Local /\ Honest(s, M)
<1> DEFINE L == sub[s]
           m == Head(pipe[s])
           H == Answer(s, a, b)
           M == Adopt(H, i, m, b)
<1>1. L \in Steady(s) /\ L \in Local /\ m \in Message /\ Honest(s, L)
    BY ReceivingHonest
<1>2. /\ H.sub \in Steady(s) /\ SameBody(L, H.sub) /\ SameCourse(L, H.sub)
      /\ H.next \in OperState
    BY <1>1, CommandSteady, Zenon DEF Answer
<1> HIDE DEF H
<1>3. /\ M \in Steady(s) /\ SameBody(H.sub, M)
      /\ \A j \in Slot : /\ M.co[j].at = H.sub.co[j].at
                         /\ M.co[j].state = H.sub.co[j].state
    BY <1>1, <1>2, AdoptSteady
<1> HIDE DEF M
<1>4. H.sub \in Local /\ M \in Local
    BY <1>2, <1>3, SteadySound
<1>5. Honest(s, H.sub)
    BY <1>1, <1>2, SameMild, SameHonest
<1>6. Honest(s, M)
    BY <1>3, <1>4, <1>5, SameMild, SameHonest DEF Mild
<1> QED
    BY <1>2, <1>4, <1>5, <1>6 DEF H, M, SameCourse

LEMMA OfflineHonest ==
    ASSUME IInv, LInv, BInv, NEW s \in Subsystem, NEW i \in Slot, Solitary(s),
           OfflineChangeAdmin(s, i) \/ OfflineReportOper(s, i)
    PROVE  BInv'
<1> DEFINE L == sub[s]
           m == Head(pipe[s])
           H == Answer(s, "StartingChildren", "Offline")
           b == m.from = Nobody /\ m.client \in Interactive
           M == [H.sub EXCEPT !.interactive = b]
           N == [M EXCEPT !.admin = "Online"]
           P == SendToChildren(H.pipe, s, "Online", m.client)
<1>1. Receives(s, i, "Offline", "ChangeAdmin") /\ OfflineChangeAdmin(s, i)
    BY ReceivingHonest DEF OfflineReportOper, OfflineChangeAdmin
<1>2. /\ H.sub \in Local /\ Honest(s, H.sub)
      /\ L \in Local /\ Honest(s, L) /\ b \in BOOLEAN
    BY <1>1, AnswerHonest, ReceivingHonest, States
<1>3. \/ Set(s, L, NotifyParents(Take(s), s, L.oper))
      \/ Set(s, M, H.pipe)
      \/ Goto(s, i, N, P, "StartingChildren", NoClient)
    BY <1>1, Zenon DEF OfflineChangeAdmin, Answer
<1> HIDE DEF H, P, b
<1>4. M \in Local /\ SameWires(H.sub, M) /\ M.running = H.sub.running /\ M.co = H.sub.co
    BY <1>2, Zenon DEF Local, SameWires
<1> HIDE DEF M
<1>5. N \in Local /\ SameWires(M, N) /\ N.running = M.running /\ N.co = M.co
  <2>1. "Online" \in AdminState
      BY States
  <2> QED
      BY <1>4, <2>1, Zenon DEF Local, SameWires
<1> HIDE DEF N, L
<1>6. Honest(s, M)
    BY <1>2, <1>4, SameHonest DEF Mild
<1>7. Honest(s, N)
    BY <1>4, <1>5, <1>6, SameHonest DEF Mild
<1> QED
    BY <1>2, <1>3, <1>5, <1>6, <1>7, PutHonest, GotoCalm DEF Downed

LEMMA StartingChildrenHonest ==
    ASSUME IInv, LInv, BInv, NEW s \in Subsystem, NEW i \in Slot, Solitary(s),
           StartingChildrenChangeAdmin(s, i) \/ StartingChildrenReportOper(s, i)
    PROVE  BInv'
<1> DEFINE m == Head(pipe[s])
           H == Answer(s, "Connecting", "StoppingChildren")
           M == Adopt(H, i, m, "StoppingChildren")
           P == SendToChildren(H.pipe, s, m.state, m.client)
<1>1. /\ Receives(s, i, "StartingChildren", "ChangeAdmin")
      /\ StartingChildrenChangeAdmin(s, i)
    BY ReceivingHonest DEF StartingChildrenReportOper, StartingChildrenChangeAdmin
<1>2. StartingChildrenTail(s, i, M, P)
    BY <1>1, Zenon DEF StartingChildrenChangeAdmin, Answer
<1>3. M \in Local /\ Honest(s, M)
    BY <1>1, AnswerHonest, States
<1>4. Starts("StartingChildren", "Connecting", "StoppingChildren")
    BY DEF Starts
<1>5. M \in Told(s) /\ M.co[i].at = "run" /\ M.co[i].state = "StartingChildren"
    BY <1>1, <1>4, StartsTold, States
<1> HIDE DEF M, P
<1> QED
    BY <1>2, <1>3, <1>5, TailsHonest

LEMMA ConnectingHonest ==
    ASSUME IInv, LInv, BInv, NEW s \in Subsystem, NEW i \in Slot, Solitary(s),
           ConnectingChangeAdmin(s, i) \/ ConnectingReportOper(s, i)
    PROVE  BInv'
<1> DEFINE m == Head(pipe[s])
           H == Answer(s, "StoppingProcesses", "StoppingProcesses")
           K == [H.sub EXCEPT !.admin = "Offline"]
<1>1. /\ Receives(s, i, "Connecting", "ChangeAdmin")
      /\ ConnectingChangeAdmin(s, i)
    BY ReceivingHonest DEF ConnectingReportOper, ConnectingChangeAdmin
<1>2. \/ Goto(s, i, K, H.pipe, "StoppingProcesses", m.client)
      \/ ConnectingTail(s, i, sub[s], Take(s))
    BY <1>1, Zenon DEF ConnectingChangeAdmin, Answer
<1>3. /\ H.sub \in Local /\ Honest(s, H.sub)
      /\ sub[s] \in Told(s) /\ sub[s].co[i].at = "run" /\ Honest(s, sub[s])
    BY <1>1, AnswerHonest, ReceivingHonest, States
<1> HIDE DEF H
<1>4. K \in Local /\ SameWires(H.sub, K) /\ K.running = H.sub.running /\ K.co = H.sub.co
  <2>1. "Offline" \in AdminState
      BY States
  <2> QED
      BY <1>3, <2>1, Zenon DEF Local, SameWires
<1> HIDE DEF K
<1>5. Honest(s, K)
    BY <1>3, <1>4, SameHonest DEF Mild
<1> QED
    BY <1>2, <1>3, <1>4, <1>5, GotoCalm, TailsHonest DEF Downed

LEMMA StartingProcessesHonest ==
    ASSUME IInv, LInv, BInv, NEW s \in Subsystem, NEW i \in Slot, Solitary(s),
           \/ StartingProcessesChangeAdmin(s, i)
           \/ StartingProcessesReportOper(s, i)
           \/ StartingProcessesRestartProcesses(s, i)
    PROVE  BInv'
<1>1. CASE StartingProcessesChangeAdmin(s, i)
  <2> DEFINE m == Head(pipe[s])
             H == Answer(s, "Online", "StoppingProcesses")
             M == Adopt(H, i, m, "StoppingProcesses")
             P == SendToChildren(H.pipe, s, m.state, m.client)
  <2>1. /\ Receives(s, i, "StartingProcesses", "ChangeAdmin")
        /\ StartingProcessesTail(s, i, M, P)
      BY <1>1, Zenon DEF StartingProcessesChangeAdmin, Answer
  <2>2. Starts("StartingProcesses", "Online", "StoppingProcesses")
      BY DEF Starts
  <2>3. M \in Told(s) /\ M.co[i].at = "run" /\ M.co[i].state = "StartingProcesses"
      BY <2>1, <2>2, StartsTold, States
  <2>4. Honest(s, M)
      BY <2>1, AnswerHonest, States
  <2> HIDE DEF M, P
  <2> QED
      BY <2>1, <2>3, <2>4, TailsHonest
<1>2. CASE StartingProcessesReportOper(s, i)
    BY <1>2, ReceivingHonest DEF StartingProcessesReportOper
<1>3. CASE StartingProcessesRestartProcesses(s, i)
  <2>1. PICK code : Receives(s, i, "StartingProcesses", code)
      BY <1>3 DEF StartingProcessesRestartProcesses
  <2>2. Goto(s, i, sub[s], Take(s), "StartingProcesses", Head(pipe[s]).client)
      BY <1>3 DEF StartingProcessesRestartProcesses
  <2> QED
      BY <2>1, <2>2, ReceivingHonest, GotoCalm DEF Downed
<1> QED
    BY <1>1, <1>2, <1>3

LEMMA OnlineHonest ==
    ASSUME IInv, LInv, BInv, NEW s \in Subsystem, NEW i \in Slot, Solitary(s),
           \/ OnlineChangeAdmin(s, i) \/ OnlineReportOper(s, i)
           \/ OnlineRestartProcesses(s, i) \/ OnlineRestartCrashed(s, i)
    PROVE  BInv'
<1> DEFINE L == sub[s]
           m == Head(pipe[s])
<1>1. CASE OnlineChangeAdmin(s, i)
  <2> DEFINE H == Answer(s, "Online", "StoppingProcesses")
             M == Adopt(H, i, m, "StoppingProcesses")
  <2>1. /\ Receives(s, i, "Online", "ChangeAdmin")
        /\ \/ Set(s, L, NotifyParents(Take(s), s, L.oper))
           \/ Set(s, M, H.pipe)
           \/ Goto(s, i, M, H.pipe, "StoppingProcesses", m.client)
      BY <1>1, Zenon DEF OnlineChangeAdmin, Answer
  <2>2. M \in Local /\ Honest(s, M) /\ Honest(s, L)
      BY <2>1, AnswerHonest, ReceivingHonest, States
  <2> HIDE DEF H, M
  <2> QED
      BY <2>1, <2>2, PutHonest, GotoCalm DEF Downed
<1>2. CASE OnlineReportOper(s, i)
    BY <1>2, ReceivingHonest DEF OnlineReportOper
<1>3. CASE OnlineRestartProcesses(s, i)
  <2> DEFINE A == StopProcesses(s, L)
             B == Stop(L, m.procs \cap L.running)
             X == [A EXCEPT !.todo = Processes[s]]
             Y == [B EXCEPT !.todo = m.procs]
  <2>1. /\ Receives(s, i, "Online", "RestartProcesses")
        /\ \/ Goto(s, i, X, Take(s), "RestartingProcesses", m.client)
           \/ Goto(s, i, Y, Take(s), "RestartingProcesses", m.client)
      BY <1>3, Zenon DEF OnlineRestartProcesses
  <2>2. /\ L \in Steady(s) /\ L \in Local /\ L \in Sound(s) /\ Honest(s, L) /\ m \in Message
      BY <2>1, ReceivingHonest, SteadySound
  <2>3. /\ A \in Steady(s) /\ Poised(L, A) /\ B \in Steady(s) /\ Poised(L, B)
        /\ A \in Local /\ B \in Local
      BY <2>2, StopProcessesSteady, StopSteady, SteadySound
  <2>4. Genuine(s, L) => Genuine(s, A) /\ Genuine(s, B)
      BY <2>2, StopProcessesGenuine, StopGenuine
  <2>5. Processes[s] \in SUBSET Process /\ m.procs \in SUBSET Process
      BY <2>2, Finite, MessageFields
  <2> HIDE DEF A, B, L, m
  <2>6. /\ X \in Steady(s) /\ Poised(A, X) /\ Y \in Steady(s) /\ Poised(B, Y)
        /\ X \in Local /\ Y \in Local
      BY <2>3, <2>5, FieldTold, SteadySound
  <2>7. SameWires(A, X) /\ X.running = A.running /\ SameWires(B, Y) /\ Y.running = B.running
      BY <2>3, Zenon DEF Local, SameWires
  <2> HIDE DEF X, Y
  <2>8. Genuine(s, L) => Genuine(s, X) /\ Genuine(s, Y)
      BY <2>3, <2>4, <2>7, SameGenuine
  <2>9. (Alone(X) => Alone(L)) /\ (Alone(Y) => Alone(L))
      BY <2>3, <2>6, PoisedAlone
  <2> QED
      BY <2>1, <2>2, <2>6, <2>8, <2>9, GotoHonest DEF Downed, Honest
<1>4. CASE OnlineRestartCrashed(s, i)
  <2>1. /\ Receives(s, i, "Online", "RestartCrashed")
        /\ Goto(s, i, L, Take(s), "Connecting", m.client)
      BY <1>4 DEF OnlineRestartCrashed
  <2> QED
      BY <2>1, ReceivingHonest, GotoCalm DEF Downed
<1> QED
    BY <1>1, <1>2, <1>3, <1>4

\* The coroutine of a stopping subsystem takes an answer over.
LEMMA TakeOverHonest ==
    ASSUME NEW s \in Subsystem, NEW L \in Local, Honest(s, L), NEW i \in Slot, NEW n, NEW c
    PROVE  Honest(s, [L EXCEPT !.co[i].next = n, !.co[i].cid = c])
<1> DEFINE M == [L EXCEPT !.co[i].next = n, !.co[i].cid = c]
<1>1. SameWires(L, M) /\ M.running = L.running
    BY Zenon DEF Local, SameWires
<1>2. M.co = [L.co EXCEPT ![i].next = n, ![i].cid = c]
    BY Zenon DEF Local
<1>3. L.co \in [Slot -> Coroutine] /\ L.co[i] \in Coroutine
    BY Fields
<1> HIDE DEF M
<1>4. Mild(L, M)
    BY <1>1, <1>2, <1>3 DEF Mild, Coroutine
<1> QED
    BY <1>1, <1>4, SameHonest DEF M

LEMMA StoppingProcessesHonest ==
    ASSUME IInv, LInv, BInv, NEW s \in Subsystem, NEW i \in Slot, Solitary(s),
           StoppingProcessesChangeAdmin(s, i) \/ StoppingProcessesReportOper(s, i)
    PROVE  BInv'
<1> DEFINE m == Head(pipe[s])
           H == Answer(s, "Connecting", "StoppingChildren")
           M == [H.sub EXCEPT !.co[i].next = H.next, !.co[i].cid = m.client]
<1>1. /\ Receives(s, i, "StoppingProcesses", "ChangeAdmin")
      /\ StoppingProcessesChangeAdmin(s, i)
    BY ReceivingHonest DEF StoppingProcessesReportOper, StoppingProcessesChangeAdmin
<1>2. StoppingProcessesTail(s, i, M, H.pipe)
    BY <1>1, Zenon DEF StoppingProcessesChangeAdmin, Answer
<1>3. Stops("StoppingProcesses", "Connecting", "StoppingChildren")
    BY DEF Stops
<1>4. "Connecting" \in OperState /\ "StoppingChildren" \in OperState
    BY States
<1>5. M \in Told(s) /\ RunsIn(M, i, "StoppingProcesses")
    BY <1>1, <1>3, <1>4, StopsTold, Zenon
<1>6. H.sub \in Local /\ Honest(s, H.sub)
    BY <1>1, <1>4, AnswerHonest
<1> HIDE DEF H
<1>7. Honest(s, M)
    BY <1>6, TakeOverHonest
<1> HIDE DEF M
<1> QED
    BY <1>2, <1>5, <1>7, TailsHonest DEF RunsIn

LEMMA StoppingChildrenHonest ==
    ASSUME IInv, LInv, BInv, NEW s \in Subsystem, NEW i \in Slot, Solitary(s),
           StoppingChildrenChangeAdmin(s, i) \/ StoppingChildrenReportOper(s, i)
    PROVE  BInv'
<1> DEFINE m == Head(pipe[s])
           H == Answer(s, "StartingChildren", "Offline")
           K == [H.sub EXCEPT !.co[i].next = H.next, !.co[i].cid = m.client]
           off == IF m.state = "Offline" THEN H.sub.co[i].off \cup {m.client}
                  ELSE H.sub.co[i].off \ {m.client}
           M == [H.sub EXCEPT !.co[i].next = H.next, !.co[i].cid = m.client,
                              !.co[i].off = off]
           N == [K EXCEPT !.co[i].off = off]
<1>1. /\ Receives(s, i, "StoppingChildren", "ChangeAdmin")
      /\ StoppingChildrenChangeAdmin(s, i)
    BY ReceivingHonest DEF StoppingChildrenReportOper, StoppingChildrenChangeAdmin
<1>2. StoppingChildrenTail(s, i, M, H.pipe)
    BY <1>1, Zenon DEF StoppingChildrenChangeAdmin, Answer
<1>3. Stops("StoppingChildren", "StartingChildren", "Offline")
    BY DEF Stops
<1>4. "StartingChildren" \in OperState /\ "Offline" \in OperState
    BY States
<1>5. K \in Told(s) /\ RunsIn(K, i, "StoppingChildren")
    BY <1>1, <1>3, <1>4, StopsTold, Zenon
<1>6. H.sub \in Local /\ Honest(s, H.sub) /\ m.client \in ClientId
    BY <1>1, <1>4, AnswerHonest, ReceivingTold
<1>7. off \in SUBSET ClientId
  <2>1. H.sub.co[i].off \in SUBSET ClientId
      BY <1>6, CoroutineFields
  <2> QED
      BY <1>6, <2>1
<1> HIDE DEF H, off, m
<1>8. M = N
    BY <1>6, Zenon DEF Local
<1>9. Honest(s, K)
    BY <1>6, TakeOverHonest
<1> HIDE DEF K, M
<1>10. N \in Told(s) /\ Poised(K, N)
    BY <1>5, <1>7, CoroutineTold
<1>11. K \in Local
    BY <1>5, SteadySound
<1>12. SameWires(K, N) /\ N.running = K.running
    BY <1>11, Zenon DEF Local, SameWires
<1> HIDE DEF N
<1>13. N.co[i].at = "run" /\ N.co[i].state = "StoppingChildren"
    BY <1>5, <1>10 DEF Poised, RunsIn
<1>14. Honest(s, N)
    BY <1>9, <1>10, <1>11, <1>12, SameMild, SameHonest
<1> QED
    BY <1>2, <1>8, <1>10, <1>13, <1>14, TailsHonest

LEMMA RestartingHonest ==
    ASSUME IInv, LInv, BInv, NEW s \in Subsystem, NEW i \in Slot, Solitary(s),
           \/ RestartingChangeAdmin(s, i) \/ RestartingReportOper(s, i)
           \/ RestartingProcessesChangeAdmin(s, i) \/ RestartingProcessesOther(s, i)
    PROVE  BInv'
<1> DEFINE L == sub[s]
<1>1. CASE RestartingChangeAdmin(s, i)
  <2>1. /\ Receives(s, i, "Restarting", "ChangeAdmin")
        /\ \/ RestartNow(s, i, L, Take(s), L.co[i].cid)
           \/ RestartingTail(s, i, L, NotifyParents(Take(s), s, L.oper))
      BY <1>1 DEF RestartingChangeAdmin
  <2> QED
      BY <2>1, ReceivingHonest, GotoCalm, TailsHonest DEF RestartNow, Downed
<1>2. CASE RestartingReportOper(s, i)
    BY <1>2, ReceivingHonest DEF RestartingReportOper
<1>3. CASE RestartingProcessesChangeAdmin(s, i)
  <2>1. /\ Receives(s, i, "RestartingProcesses", "ChangeAdmin")
        /\ \/ Goto(s, i, L, Take(s), "Connecting", L.co[i].cid)
           \/ RestartingProcessesTail(s, i, L, NotifyParents(Take(s), s, L.oper))
      BY <1>3 DEF RestartingProcessesChangeAdmin
  <2> QED
      BY <2>1, ReceivingHonest, GotoCalm, TailsHonest DEF Downed
<1>4. CASE RestartingProcessesOther(s, i)
    BY <1>4, ReceivingHonest, TailsHonest DEF RestartingProcessesOther
<1> QED
    BY <1>1, <1>2, <1>3, <1>4

LEMMA BrokenHonest ==
    ASSUME IInv, LInv, BInv, NEW s \in Subsystem, NEW i \in Slot, Solitary(s),
           BrokenCommand(s, i) \/ BrokenRestartProcesses(s, i)
    PROVE  BInv'
<1> DEFINE m == Head(pipe[s])
           c == sub[s].co[i].cid
           L == ResetProcessRestarts([sub[s] EXCEPT !.restarts = 0])
           P == SendToChildren(Take(s), s, m.state, m.client)
           A == [L EXCEPT !.active = @ \cup Bits(c)]
           B == [L EXCEPT !.active = @ \ Bits(c), !.admin = "Offline"]
<1>1. PICK st, code : Receives(s, i, st, code)
    BY DEF BrokenCommand, BrokenRestartProcesses
<1>2. sub[s] \in Local /\ Honest(s, sub[s]) /\ c \in ClientId
    BY <1>1, ReceivingHonest, ReceivingTold
<1>3. /\ L \in Local
      /\ SameWires(sub[s], L) /\ L.running = sub[s].running /\ L.co = sub[s].co
    BY <1>2, Zenon DEF Local, SameWires, ResetProcessRestarts
<1>4. \/ Goto(s, i, A, P, "StartingChildren", c)
      \/ Goto(s, i, B, P, "StoppingChildren", c)
      \/ Goto(s, i, A, Take(s), "Connecting", c)
    BY Zenon DEF BrokenCommand, BrokenRestartProcesses
<1> HIDE DEF L, P, c
<1>5. /\ L.active \cup Bits(c) \in SUBSET Client /\ L.active \ Bits(c) \in SUBSET Client
      /\ "Offline" \in AdminState
    BY <1>2, <1>3, BitsType, Fields, States
<1>6. A \in Local /\ SameWires(L, A) /\ A.running = L.running /\ A.co = L.co
    BY <1>3, <1>5, Zenon DEF Local, SameWires
<1>7. B \in Local /\ SameWires(L, B) /\ B.running = L.running /\ B.co = L.co
    BY <1>3, <1>5, Zenon DEF Local, SameWires
<1> HIDE DEF A, B
<1>8. Honest(s, L)
    BY <1>2, <1>3, SameHonest DEF Mild
<1>9. Honest(s, A) /\ Honest(s, B)
    BY <1>3, <1>6, <1>7, <1>8, SameHonest DEF Mild
<1> QED
    BY <1>4, <1>6, <1>7, <1>9, GotoCalm DEF Downed

LEMMA WaitForRestartHonest ==
    ASSUME IInv, LInv, BInv, NEW s \in Subsystem, NEW i \in Slot, WaitForRestartMessage(s, i)
    PROVE  BInv'
<1> DEFINE m == Head(pipe[s])
           L == sub[s]
           c == L.co[i].cid
<1>1. \/ Goto(s, i, L, Take(s), "Restarting", c)
      \/ \E j \in Slot : Goto(s, i, AbortSubsystem(s, L, j, m), Take(s), "Restarting", c)
      \/ Set(s, L, Take(s))
    BY Zenon DEF WaitForRestartMessage, Waits
<1>2. L \in Told(s) /\ L \in Local /\ Honest(s, L)
    BY BeforeTold DEF BInv
<1> HIDE DEF L, m, c
<1>3. ASSUME NEW j \in Slot
      PROVE  AbortSubsystem(s, L, j, m) \in Local /\ Honest(s, AbortSubsystem(s, L, j, m))
    BY <1>2, AbortSubsystemTold, SteadySound, AbortHonest
<1> QED
    BY <1>1, <1>2, <1>3, GotoCalm, PutHonest DEF Downed

LEMMA GetsMessageHonest ==
    ASSUME IInv, LInv, BInv, NEW s \in Subsystem, NEW i \in Slot, GetsMessage(s, i), Solitary(s)
    PROVE  BInv'
BY GetsAbortHonest, OfflineHonest, StartingChildrenHonest, ConnectingHonest,
   StartingProcessesHonest, OnlineHonest, StoppingProcessesHonest,
   StoppingChildrenHonest, RestartingHonest, BrokenHonest,
   WaitForRestartHonest DEF GetsMessage

-----------------------------------------------------------------------------
(* The events.                                                             *)

\* What a coroutine that reads an event may rely on: it takes note of a stop
\* event, or drops another one.
LEMMA EventHonest ==
    ASSUME IInv, LInv, BInv, NEW s \in Subsystem, NEW i \in Slot,
           sub[s].co[i].at # "dead", HasEvent(s)
    PROVE  LET L == sub[s]
               R == ReadEvent(L)
               e == Head(L.events)
           IN  /\ L \in Local /\ L \in Steady(s) /\ L.events # <<>> /\ L.umb = "connected"
               /\ R \in Local /\ R.running = L.running /\ Poised(L, R)
               /\ NoteStop(L) \in Local /\ Honest(s, NoteStop(L))
               /\ (e.kind # "stop" => Honest(s, R))
               /\ Alone(L) => /\ i = 1 /\ Genuine(s, L) /\ Attentive(L)
                              /\ e.kind # "disconnect"
                              /\ e.kind = "stop" => Genuine(s, SetStopped(R, e.proc))
                              /\ e.kind = "start" => Genuine(s, SetRunning(R, e.proc))
<1> DEFINE L == sub[s]
           R == ReadEvent(L)
           e == Head(L.events)
           N == NoteStop(L)
           T == SetRunning(R, e.proc)
<1>1. /\ L \in Told(s) /\ L \in Steady(s) /\ L \in Local /\ Wires(s, L) /\ Honest(s, L)
      /\ L.events # <<>> /\ L.umb = "connected"
    BY BeforeTold, SteadySound DEF HasEvent, IsConnected, BInv, Steady
<1>2. R \in Steady(s) /\ Poised(L, R) /\ R.running = L.running
    BY <1>1, ReadEventSteady
<1>3. N \in Steady(s) /\ Poised(L, N)
    BY <1>1, NoteStopSteady
<1>4. R \in Local /\ N \in Local
    BY <1>2, <1>3, SteadySound
<1>5. Alone(L) => i = 1 /\ Genuine(s, L) /\ Attentive(L)
    BY <1>1, OnlyOne DEF Honest
<1>6. Alone(L) => Genuine(s, N) /\ N.running \subseteq L.running
    BY <1>1, <1>5, NoteStopGenuine
<1>7. Honest(s, N)
  <2>1. CASE Alone(L)
      BY <1>1, <1>3, <1>6, <2>1, SameMild, MildHonest
  <2>2. CASE ~Alone(L)
      BY <1>3, <2>2, PoisedAlone DEF Honest
  <2> QED
      BY <2>1, <2>2
<1>8. e.kind # "stop" => N = R
    BY DEF NoteStop
<1>9. e.kind = "stop" => N = SetStopped(R, e.proc)
    BY DEF NoteStop
<1>10. Alone(L) => e.kind # "disconnect"
  <2>1. Len(L.events) \in Nat \ {0} /\ e = L.events[1] /\ 1 \in DOMAIN L.events
      BY <1>1, TailParts DEF Wires
  <2> QED
      BY <1>5, <2>1 DEF Genuine
<1>11. Alone(L) /\ e.kind = "start" => Genuine(s, T)
  <2>1. SameWires(R, T) /\ T.running = R.running \cup {e.proc}
      BY <1>4, Zenon DEF SetRunning, Local, SameWires
  <2> HIDE DEF T, R
  <2>2. e.kind = "start" => T.running \subseteq Noted(L)
      BY <1>2, <2>1 DEF Noted
  <2>3. SameWires(ReadEvent(L), T)
      BY <2>1 DEF R
  <2> QED
      BY <1>1, <1>5, <2>2, <2>3, ReadGenuine
<1> QED
    BY <1>1, <1>2, <1>4, <1>5, <1>6, <1>7, <1>8, <1>9, <1>10, <1>11

\* In the states that read crashes a coroutine need not be attentive.
LEMMA BusyHonest ==
    ASSUME NEW s, NEW i \in Slot, NEW M, NEW st \in Crashing, RunsIn(M, i, st),
           Alone(M) => Genuine(s, M)
    PROVE  Honest(s, M)
BY OnlyOne DEF Honest, Attentive, RunsIn, Downed, Crashing

\* After a crash the one process is not believed to run.
LEMMA AfterCrashHonest ==
    ASSUME NEW s \in Subsystem, Solitary(s), NEW i \in Slot, NEW L \in Local,
           NEW p \in Processes[s], NEW how, NEW st \in Crashing, RunsIn(L, i, st),
           Alone(L) => Genuine(s, SetStopped(L, p))
    PROVE  Honest(s, AfterCrash(s, i, L, p, how))
<1> DEFINE M == SetStopped(L, p)
           A == [M EXCEPT !.alarm = @ \cup {p}]
           B == [A EXCEPT !.tries[p] = @ + 1, !.timers = @ + 1]
           n == A.restarts + 1
           C == [A EXCEPT !.restarts = n, !.co[i].at = "wait"]
<1>1. p \in Process
    BY Finite
<1>2. M \in Local /\ M.running = L.running \ {p} /\ M.co = L.co
    BY <1>1, Zenon DEF SetStopped, Local
<1>3. Alone(L) => M.running = {}
    BY <1>2 DEF Genuine, Solitary
<1> HIDE DEF M
<1>4. M.alarm \cup {p} \in SUBSET Process
    BY <1>1, <1>2, Fields
<1>5. A \in Local /\ SameWires(M, A) /\ A.running = M.running /\ A.co = M.co
    BY <1>2, <1>4, Zenon DEF Local, SameWires
<1>6. AfterCrash(s, i, L, p, how) \in {M, B, C} \cup {EnterState(A, i, g, L.co[i].cid) : g \in OperState}
  <2>1. "Broken" \in OperState /\ "Degraded" \in OperState
      BY DEF OperState
  <2>2. C = [A EXCEPT !.restarts = @ + 1, !.co[i].at = "wait"]
      BY <1>5, Zenon DEF Local
  <2> HIDE DEF B, C
  <2> QED
      BY <2>1, <2>2 DEF AfterCrash, M, A, B
<1> HIDE DEF A, n
<1>7. SameWires(A, B) /\ B.running = A.running /\ B.co = A.co
    BY <1>5, Zenon DEF Local, SameWires
<1> HIDE DEF B
<1>8. RunsIn(M, i, st) /\ RunsIn(A, i, st) /\ RunsIn(B, i, st)
    BY <1>2, <1>5, <1>7 DEF RunsIn
<1>9. (Alone(M) <=> Alone(L)) /\ (Alone(A) <=> Alone(L)) /\ (Alone(B) <=> Alone(L))
    BY <1>2, <1>5, <1>7 DEF Alone
<1>10. Alone(L) => Genuine(s, M) /\ Genuine(s, A)
    BY <1>2, <1>5, SameGenuine DEF M
<1>11. Alone(L) => Genuine(s, B)
    BY <1>5, <1>7, <1>10, SameGenuine
<1>12. Honest(s, M) /\ Honest(s, B)
    BY <1>8, <1>9, <1>10, <1>11, BusyHonest
<1>13. \A g : Honest(s, EnterState(A, i, g, L.co[i].cid))
    BY <1>3, <1>5, <1>9, <1>10, EnterStateHonest
<1>14. Honest(s, C)
    BY <1>3, <1>5, <1>9, <1>10, SleepHonest
<1> QED
    BY <1>6, <1>12, <1>13, <1>14

LEMMA CrashHonest ==
    ASSUME IInv, LInv, BInv, NEW s \in Subsystem, Solitary(s), emergency = FALSE,
           NEW i \in Slot, NEW L \in Local, NEW P, NEW p \in Processes[s], NEW how,
           NEW st \in Crashing, RunsIn(L, i, st), Crash(s, i, L, P, p, how),
           Alone(L) => Genuine(s, SetStopped(L, p))
    PROVE  BInv'
<1>1. Set(s, AfterCrash(s, i, L, p, how), P)
    BY DEF Crash, Solitary
<1> QED
    BY <1>1, AfterCrashHonest, PutHonest

\* The states that look at stop events only, or at no event.
LEMMA QuietEventsHonest ==
    ASSUME IInv, LInv, BInv, NEW s \in Subsystem, Solitary(s), NEW i \in Slot,
           \/ IgnoreEvent(s, i) \/ StartingChildrenEvent(s, i) \/ ConnectingEvent(s, i)
           \/ StoppingChildrenEvent(s, i) \/ RestartingEvent(s, i)
           \/ WaitForRestartEvent(s, i)
    PROVE  BInv'
<1> DEFINE L == sub[s]
           R == ReadEvent(L)
           e == Head(L.events)
<1>1. sub[s].co[i].at # "dead" /\ HasEvent(s)
    BY Zenon DEF IgnoreEvent, StartingChildrenEvent, ConnectingEvent, StoppingChildrenEvent,
       RestartingEvent, WaitForRestartEvent, Reads, Running, Waits
<1>2. /\ L \in Local /\ L \in Steady(s) /\ L.events # <<>> /\ L.umb = "connected"
      /\ R \in Local /\ R.running = L.running /\ Poised(L, R)
      /\ Honest(s, NoteStop(L)) /\ (e.kind # "stop" => Honest(s, R))
      /\ Alone(L) => i = 1 /\ Genuine(s, L) /\ Attentive(L)
    BY <1>1, EventHonest
<1>3. ASSUME NEW st, Reads(s, i, st)
      PROVE  /\ R \in Told(s) /\ L.co[i].at = "run" /\ L.co[i].state = st
             /\ R.co[i].at = "run" /\ R.co[i].state = st
             /\ Alone(L) => Waiting(s, L, st, L.co[i].next)
    BY <1>3, ReadsEvent, BeforeHonest DEF RunsIn
<1>4. Alone(R) <=> Alone(L)
    BY <1>2, PoisedAlone
<1>5. ASSUME NEW st, Reads(s, i, st), Alone(L) => L.running = {} \/ e.kind # "stop"
      PROVE  Honest(s, R)
  <2>1. CASE ~Alone(L)
      BY <1>4, <2>1 DEF Honest
  <2>2. CASE e.kind # "stop"
      BY <1>2, <2>2
  <2>3. CASE Alone(L) /\ L.running = {} /\ e.kind = "stop"
    <3>1. Wires(s, L) /\ Genuine(s, L)
        BY <1>2, <2>3 DEF Steady
    <3>2. R.running \subseteq Noted(L) /\ SameWires(R, R)
        BY <1>2, <2>3 DEF SameWires
    <3>3. Genuine(s, R)
        BY <1>2, <3>1, <3>2, ReadGenuine
    <3>4. Attentive(R)
        BY <1>2, <1>5, <2>3, SlotAssumption DEF Attentive, Poised
    <3> QED
        BY <3>3, <3>4 DEF Honest
  <2> QED
      BY <1>5, <2>1, <2>2, <2>3
<1> HIDE DEF R, e
<1>6. CASE IgnoreEvent(s, i)
  <2>1. PICK st \in {"Offline", "Broken", "Degraded"} : Reads(s, i, st)
      BY <1>6 DEF IgnoreEvent
  <2>2. Alone(L) => L.running = {}
      BY <1>2, <1>3, <2>1 DEF Waiting, Attentive, Downed
  <2>3. Set(s, R, pipe)
      BY <1>6 DEF IgnoreEvent, R
  <2> QED
      BY <1>5, <2>1, <2>2, <2>3, PutHonest
<1>7. CASE StartingChildrenEvent(s, i)
  <2>1. /\ Reads(s, i, "StartingChildren")
        /\ Set(s, R, pipe) \/ StartingChildrenTail(s, i, R, pipe)
      BY <1>7 DEF StartingChildrenEvent, R
  <2>2. ~Alone(L)
      BY <1>2, <1>3, <2>1 DEF Attentive
  <2>3. Honest(s, R)
      BY <1>4, <2>2 DEF Honest
  <2> QED
      BY <1>3, <2>1, <2>3, PutHonest, TailsHonest
<1>8. CASE ConnectingEvent(s, i)
  <2>1. /\ Reads(s, i, "Connecting")
        /\ Set(s, R, pipe) \/ ConnectingTail(s, i, R, pipe)
      BY <1>8 DEF ConnectingEvent, R
  <2>2. Alone(L) => L.running = {}
      BY <1>2, <1>3, <2>1 DEF Attentive
  <2>3. Honest(s, R)
      BY <1>5, <2>1, <2>2
  <2> QED
      BY <1>3, <2>1, <2>3, PutHonest, TailsHonest
<1>9. CASE StoppingChildrenEvent(s, i)
  <2>1. Reads(s, i, "StoppingChildren") /\ StoppingChildrenTail(s, i, R, pipe)
      BY <1>9 DEF StoppingChildrenEvent, R
  <2>2. ~Alone(L)
      BY <1>2, <1>3, <2>1 DEF Attentive
  <2>3. Honest(s, R)
      BY <1>4, <2>2 DEF Honest
  <2> QED
      BY <1>3, <2>1, <2>3, TailsHonest
<1>10. CASE RestartingEvent(s, i)
  <2>1. Reads(s, i, "Restarting") /\ RestartingTail(s, i, NoteStop(L), pipe)
      BY <1>10 DEF RestartingEvent
  <2>2. NoteStop(L) \in Told(s) /\ NoteStop(L).co[i].at = "run"
      BY <2>1, ReadsEvent DEF Plain, RunsIn
  <2> QED
      BY <1>2, <2>1, <2>2, TailsHonest
<1>11. CASE WaitForRestartEvent(s, i)
  <2>1. Set(s, NoteStop(L), pipe)
      BY <1>11 DEF WaitForRestartEvent
  <2> QED
      BY <1>2, <2>1, PutHonest
<1> QED
    BY <1>6, <1>7, <1>8, <1>9, <1>10, <1>11

LEMMA StartingProcessesEventHonest ==
    ASSUME IInv, LInv, BInv, NEW s \in Subsystem, Solitary(s), emergency = FALSE,
           NEW i \in Slot, StartingProcessesEvent(s, i)
    PROVE  BInv'
<1> DEFINE B == sub[s]
           L == ReadEvent(B)
           e == Head(B.events)
           R == SetRunning(L, e.proc)
           K == SetStopped(L, e.proc)
           M == [K EXCEPT !.exit[e.proc] = e.how]
           st == "StartingProcesses"
<1>1. Reads(s, i, st) /\ B.co[i].at # "dead" /\ HasEvent(s)
    BY DEF StartingProcessesEvent, Reads, Running
<1>2. /\ L \in Told(s) /\ L \in Steady(s) /\ RunsIn(L, i, st) /\ e \in OwnEvent(s)
    BY <1>1, ReadsEvent
<1>3. /\ L \in Local /\ Poised(B, L) /\ (e.kind # "stop" => Honest(s, L))
      /\ Alone(B) => /\ e.kind = "stop" => Genuine(s, K)
                     /\ e.kind = "start" => Genuine(s, R)
    BY <1>1, EventHonest
<1>4. Alone(L) <=> Alone(B)
    BY <1>3, PoisedAlone
<1>5. \/ e.kind = "start" /\ StartingProcessesTail(s, i, R, pipe)
      \/ e.kind = "stop" /\ e.how # "signal" /\ StartingProcessesTail(s, i, M, pipe)
      \/ e.kind = "stop" /\ Crash(s, i, L, pipe, e.proc, e.how)
      \/ e.kind # "stop" /\ StartingProcessesTail(s, i, L, pipe)
    BY DEF StartingProcessesEvent
<1>6. st \in Crashing
    BY DEF Crashing
<1> HIDE DEF L, e
<1>7. CASE e.kind = "start" /\ StartingProcessesTail(s, i, R, pipe)
  <2>1. e.proc \in Processes[s] /\ e.proc \in Process
      BY <1>2, <1>7, OwnEventFields
  <2>2. Alone(L) => L.maybe = Processes[s]
      BY <1>2, Only DEF RunsIn, Fit
  <2>3. R \in Steady(s) /\ Poised(L, R) /\ R.maybe = L.maybe
      BY <1>2, <2>1, <2>2, SetRunningSteady
  <2> HIDE DEF R
  <2>4. R \in Told(s) /\ RunsIn(R, i, st)
      BY <1>2, <2>3, BusyTold
  <2>5. Honest(s, R)
      BY <1>3, <1>4, <1>6, <1>7, <2>3, <2>4, PoisedAlone, BusyHonest
  <2> QED
      BY <1>7, <2>4, <2>5, TailsHonest DEF RunsIn
<1>8. CASE /\ e.kind = "stop" /\ e.how # "signal"
           /\ StartingProcessesTail(s, i, M, pipe)
  <2>1. e.proc \in Process /\ e.how \in {"ok", "fail"}
      BY <1>2, <1>8, EventFields DEF OwnEvent
  <2>2. K \in Steady(s) /\ Poised(L, K) /\ K.maybe = L.maybe
      BY <1>2, <2>1, SetStoppedSteady
  <2>3. K \in Local
      BY <2>2, SteadySound
  <2> HIDE DEF K
  <2>4. M \in Steady(s) /\ Poised(K, M) /\ M.maybe = K.maybe
      BY <2>1, <2>2, ExitSteady
  <2>5. SameWires(K, M) /\ M.running = K.running
      BY <2>3, Zenon DEF Local, SameWires
  <2> HIDE DEF M
  <2>6. Poised(L, M)
      BY <2>2, <2>4 DEF Poised
  <2>7. M \in Told(s) /\ RunsIn(M, i, st)
      BY <1>2, <2>2, <2>4, <2>6, BusyTold
  <2>8. Alone(M) => Genuine(s, M)
      BY <1>3, <1>4, <1>8, <2>3, <2>5, <2>6, PoisedAlone, SameGenuine
  <2>9. Honest(s, M)
      BY <1>6, <2>7, <2>8, BusyHonest
  <2> QED
      BY <1>8, <2>7, <2>9, TailsHonest DEF RunsIn
<1>9. CASE e.kind = "stop" /\ Crash(s, i, L, pipe, e.proc, e.how)
  <2>1. e.proc \in Processes[s]
      BY <1>2, <1>9, OwnEventFields
  <2> QED
      BY <1>2, <1>3, <1>4, <1>6, <1>9, <2>1, CrashHonest
<1>10. CASE e.kind # "stop" /\ StartingProcessesTail(s, i, L, pipe)
    BY <1>2, <1>3, <1>10, TailsHonest DEF RunsIn
<1> QED
    BY <1>5, <1>7, <1>8, <1>9, <1>10

\* A disconnect event needs a lost connection; an interactive subsystem goes
\* offline when its process ends.
LEMMA OnlineEventHonest ==
    ASSUME IInv, LInv, BInv, NEW s \in Subsystem, Solitary(s), emergency = FALSE,
           NEW i \in Slot, OnlineEvent(s, i)
    PROVE  BInv'
<1> DEFINE B == sub[s]
           L == ReadEvent(B)
           e == Head(B.events)
           K == SetStopped(L, e.proc)
           M == [K EXCEPT !.admin = "Offline"]
           D == Disconnect(L, Processes[s])
           st == "Online"
<1>1. Reads(s, i, st) /\ B.co[i].at # "dead" /\ HasEvent(s)
    BY DEF OnlineEvent, Reads, Running
<1>2. L \in Told(s) /\ L \in Steady(s) /\ RunsIn(L, i, st) /\ e \in OwnEvent(s)
    BY <1>1, ReadsEvent
<1>3. /\ L \in Local /\ Poised(B, L) /\ (e.kind # "stop" => Honest(s, L))
      /\ Alone(B) => /\ e.kind # "disconnect"
                     /\ e.kind = "stop" => Genuine(s, K)
    BY <1>1, EventHonest
<1>4. Alone(L) <=> Alone(B)
    BY <1>3, PoisedAlone
<1>5. \/ e.kind = "disconnect" /\ Goto(s, i, D, pipe, "Restarting", NoClient)
      \/ e.kind = "stop" /\ Goto(s, i, M, pipe, "Offline", NoClient)
      \/ e.kind = "stop" /\ Crash(s, i, L, pipe, e.proc, e.how)
      \/ e.kind # "stop" /\ Set(s, L, pipe)
    BY DEF OnlineEvent
<1>6. st \in Crashing
    BY DEF Crashing
<1> HIDE DEF L, e
<1>7. CASE e.kind = "disconnect" /\ Goto(s, i, D, pipe, "Restarting", NoClient)
  <2>1. D \in Steady(s) /\ Poised(L, D)
      BY <1>2, DisconnectSteady
  <2>2. D \in Local
      BY <2>1, SteadySound
  <2> HIDE DEF D
  <2>3. ~Alone(D)
      BY <1>3, <1>4, <1>7, <2>1, PoisedAlone
  <2> QED
      BY <1>7, <2>2, <2>3, GotoHonest
<1>8. CASE e.kind = "stop" /\ Goto(s, i, M, pipe, "Offline", NoClient)
  <2>1. e.proc \in Process
      BY <1>2, <1>8, OwnEventFields
  <2>2. K \in Steady(s) /\ Poised(L, K)
      BY <1>2, <2>1, SetStoppedSteady
  <2>3. K \in Local /\ "Offline" \in AdminState
      BY <2>2, SteadySound, States
  <2> HIDE DEF K
  <2>4. M \in Local /\ SameWires(K, M) /\ M.running = K.running /\ M.co = K.co
      BY <2>3, Zenon DEF Local, SameWires
  <2> HIDE DEF M
  <2>5. Alone(M) => Genuine(s, M)
      BY <1>3, <1>4, <1>8, <2>2, <2>3, <2>4, PoisedAlone, SameGenuine DEF Alone
  <2> QED
      BY <1>8, <2>4, <2>5, GotoHonest DEF Downed
<1>9. CASE e.kind = "stop" /\ Crash(s, i, L, pipe, e.proc, e.how)
  <2>1. e.proc \in Processes[s]
      BY <1>2, <1>9, OwnEventFields
  <2> QED
      BY <1>2, <1>3, <1>4, <1>6, <1>9, <2>1, CrashHonest
<1>10. CASE e.kind # "stop" /\ Set(s, L, pipe)
    BY <1>3, <1>10, PutHonest
<1> QED
    BY <1>5, <1>7, <1>8, <1>9, <1>10

LEMMA StoppingProcessesEventHonest ==
    ASSUME IInv, LInv, BInv, NEW s \in Subsystem, Solitary(s), NEW i \in Slot,
           StoppingProcessesEvent(s, i)
    PROVE  BInv'
<1> DEFINE B == sub[s]
           L == ReadEvent(B)
           A == Disconnect(L, Processes[s])
           N == NoteStop(B)
           st == "StoppingProcesses"
<1>1. Reads(s, i, st) /\ B.co[i].at # "dead" /\ HasEvent(s)
    BY DEF StoppingProcessesEvent, Reads, Running
<1>2. /\ L \in Told(s) /\ L \in Steady(s) /\ RunsIn(L, i, st)
      /\ N \in Told(s) /\ RunsIn(N, i, st)
    BY <1>1, ReadsEvent DEF Plain
<1>3. /\ Poised(B, L) /\ Honest(s, N)
      /\ Alone(B) => Head(B.events).kind # "disconnect"
    BY <1>1, EventHonest
<1>4. \/ Head(B.events).kind = "disconnect" /\ StoppingProcessesTail(s, i, A, pipe)
      \/ StoppingProcessesTail(s, i, N, pipe)
    BY Zenon DEF StoppingProcessesEvent
<1> HIDE DEF L, N
<1>5. CASE Head(B.events).kind = "disconnect" /\ StoppingProcessesTail(s, i, A, pipe)
  <2>1. A \in Steady(s) /\ Poised(L, A)
      BY <1>2, DisconnectSteady
  <2> HIDE DEF A
  <2>2. ~Alone(L) /\ ~Alone(A)
      BY <1>3, <1>5, <2>1, PoisedAlone
  <2>3. A \in Told(s) /\ RunsIn(A, i, st)
      BY <1>2, <2>1, <2>2, PoisedTold DEF RunsIn, Poised
  <2>4. Honest(s, A)
      BY <2>2 DEF Honest
  <2> QED
      BY <1>5, <2>3, <2>4, TailsHonest DEF RunsIn
<1>6. CASE StoppingProcessesTail(s, i, N, pipe)
    BY <1>2, <1>3, <1>6, TailsHonest DEF RunsIn
<1> QED
    BY <1>4, <1>5, <1>6

LEMMA RestartingProcessesEventHonest ==
    ASSUME IInv, LInv, BInv, NEW s \in Subsystem, Solitary(s), emergency = FALSE,
           NEW i \in Slot, RestartingProcessesEvent(s, i)
    PROVE  BInv'
<1> DEFINE C == sub[s]
           L == ReadEvent(C)
           e == Head(C.events)
           N == NoteStop(C)
           R == SetRunning(L, e.proc)
           K == SetStopped(L, e.proc)
           add == R.co[i].started \cup {e.proc}
           del == L.co[i].started \ {e.proc}
           A == [R EXCEPT !.co[i].started = add]
           B == [L EXCEPT !.co[i].started = del]
           J == SetStopped(B, e.proc)
           st == "RestartingProcesses"
<1>1. Reads(s, i, st) /\ C.co[i].at # "dead" /\ HasEvent(s)
    BY DEF RestartingProcessesEvent, Reads, Running
<1>2. /\ L \in Told(s) /\ L \in Steady(s) /\ RunsIn(L, i, st)
      /\ N \in Told(s) /\ RunsIn(N, i, st) /\ e \in OwnEvent(s)
    BY <1>1, ReadsEvent DEF Plain
<1>3. /\ L \in Local /\ Poised(C, L) /\ Honest(s, N)
      /\ Alone(C) => /\ e.kind = "stop" => Genuine(s, K)
                     /\ e.kind = "start" => Genuine(s, R)
    BY <1>1, EventHonest
<1>4. Alone(L) <=> Alone(C)
    BY <1>3, PoisedAlone
<1>5. Alone(L) => i = 1 /\ ~Quiet(s)
    BY <1>2, Only DEF RunsIn, Fit
<1>6. L.co \in [Slot -> Coroutine] /\ L.co[i].started \in SUBSET Process
    BY <1>3, CoroutineFields, Fields
<1>7. \/ e.kind = "start"
         /\ RestartingProcessesTail(s, i, [R EXCEPT !.co[i].started = @ \cup {e.proc}], pipe)
      \/ e.kind = "stop"
         /\ Crash(s, i, [L EXCEPT !.co[i].started = @ \ {e.proc}], pipe, e.proc, "signal")
      \/ RestartingProcessesTail(s, i, N, pipe)
    BY DEF RestartingProcessesEvent
<1>8. st \in Crashing
    BY DEF Crashing
<1> HIDE DEF L, e, N
<1>9. CASE e.kind = "start"
           /\ RestartingProcessesTail(s, i, [R EXCEPT !.co[i].started = @ \cup {e.proc}], pipe)
  <2>1. e.proc \in Process
      BY <1>2, <1>9, OwnEventFields
  <2>2. R \in Steady(s) /\ Poised(L, R)
      BY <1>2, <1>5, <2>1, SetRunningSteady
  <2> HIDE DEF R
  <2>3. R \in Told(s) /\ RunsIn(R, i, st)
      BY <1>2, <1>5, <2>2, PoisedTold DEF RunsIn, Poised, Plain
  <2>4. /\ R \in Local /\ R.co \in [Slot -> Coroutine] /\ add \in SUBSET Process
        /\ R.co[i] \in Coroutine
      BY <2>1, <2>2, SteadySound, CoroutineFields, Fields
  <2>5. A = [R EXCEPT !.co[i].started = @ \cup {e.proc}]
      BY <2>4
  <2>6. A \in Told(s) /\ Poised(R, A)
      BY <2>3, <2>4, CoroutineTold
  <2>7. SameWires(R, A) /\ A.running = R.running
      BY <2>4, Zenon DEF Local, SameWires
  <2> HIDE DEF add, A
  <2>8. RestartingProcessesTail(s, i, A, pipe)
      BY <1>9, <2>5
  <2>9. RunsIn(A, i, st)
      BY <2>3, <2>6 DEF Poised, RunsIn
  <2>10. Alone(A) => Genuine(s, A)
      BY <1>3, <1>4, <1>9, <2>2, <2>4, <2>6, <2>7, PoisedAlone, SameGenuine
  <2>11. Honest(s, A)
      BY <1>8, <2>9, <2>10, BusyHonest
  <2> QED
      BY <2>6, <2>8, <2>9, <2>11, TailsHonest DEF RunsIn
<1>10. CASE e.kind = "stop"
           /\ Crash(s, i, [L EXCEPT !.co[i].started = @ \ {e.proc}], pipe, e.proc, "signal")
  <2>1. e.proc \in Processes[s] /\ e.proc \in Process
      BY <1>2, <1>10, OwnEventFields
  <2>2. del \in SUBSET Process
      BY <1>6
  <2>3. B = [L EXCEPT !.co[i].started = @ \ {e.proc}]
      BY <1>3, <1>6
  <2>4. B \in Told(s) /\ Poised(L, B)
      BY <1>2, <2>2, CoroutineTold
  <2>5. B \in Local
      BY <2>4, SteadySound
  <2>6. SameWires(L, B) /\ B.running = L.running
      BY <1>3, Zenon DEF Local, SameWires
  <2> HIDE DEF del, B
  <2>7. K \in Local /\ SameWires(L, K) /\ K.running = L.running \ {e.proc}
      BY <1>3, <2>1, Zenon DEF SetStopped, Local, SameWires
  <2>8. SameWires(B, J) /\ J.running = B.running \ {e.proc}
      BY <2>5, Zenon DEF SetStopped, Local, SameWires
  <2> HIDE DEF K, J
  <2>9. SameWires(K, J) /\ J.running = K.running
      BY <2>6, <2>7, <2>8 DEF SameWires
  <2>10. Alone(B) => Genuine(s, J)
      BY <1>3, <1>4, <1>10, <2>4, <2>7, <2>9, PoisedAlone, SameGenuine
  <2>11. RunsIn(B, i, st)
      BY <1>2, <2>4 DEF Poised, RunsIn
  <2>12. Crash(s, i, B, pipe, e.proc, "signal")
      BY <1>10, <2>3
  <2> QED
      BY <1>8, <2>1, <2>5, <2>10, <2>11, <2>12, CrashHonest DEF J
<1>11. CASE RestartingProcessesTail(s, i, N, pipe)
    BY <1>2, <1>3, <1>11, TailsHonest DEF RunsIn
<1> QED
    BY <1>7, <1>9, <1>10, <1>11

LEMMA StateStepHonest ==
    ASSUME IInv, LInv, BInv, NEW s \in Subsystem, Solitary(s), emergency = FALSE,
           NEW i \in Slot, StateStep(s, i)
    PROVE  BInv'
<1>1. CASE GetsEvent(s, i)
    BY <1>1, QuietEventsHonest, StartingProcessesEventHonest, OnlineEventHonest,
       StoppingProcessesEventHonest, RestartingProcessesEventHonest DEF GetsEvent
<1>2. CASE DelayOver(s, i)
  <2>1. Goto(s, i, sub[s], pipe, "Restarting", sub[s].co[i].cid)
      BY <1>2 DEF DelayOver
  <2>2. sub[s] \in Local /\ Honest(s, sub[s])
      BY BeforeTold DEF BInv
  <2> QED
      BY <2>1, <2>2, GotoCalm DEF Downed
<1> QED
    BY <1>1, <1>2, PrologueHonest, GetsMessageHonest DEF StateStep

-----------------------------------------------------------------------------
(* What happens outside the coroutines.                                    *)

\* A new connection finds nothing that is believed to run.
LEMMA ConnectorHonest ==
    ASSUME IInv, LInv, BInv, NEW s \in Subsystem,
           ConnectorConnects(s) \/ ConnectorQuits(s) \/ CrashTimer(s)
    PROVE  BInv'
<1> DEFINE L == sub[s]
           A == [CloseSocket(L) EXCEPT
                   !.conn = @ - 1, !.umb = "connected", !.sock = "open",
                   !.events = <<[kind |-> "connect"]>>]
           B == [L EXCEPT !.conn = @ - 1]
           C == [L EXCEPT !.timers = @ - 1]
           P == [pipe EXCEPT ![s] = Append(@, Order("RestartCrashed", NoClient, {}))]
<1>1. L \in Local /\ Honest(s, L)
    BY BeforeTold, SteadySound DEF BInv
<1>2. /\ A.umb = "connected" /\ A.sock = "open" /\ A.events = <<[kind |-> "connect"]>>
      /\ A.running = L.running /\ A.co = L.co
    BY <1>1, Zenon DEF CloseSocket, Local
<1>3. SameWires(L, B) /\ B.running = L.running /\ B.co = L.co
    BY <1>1, Zenon DEF Local, SameWires
<1>4. SameWires(L, C) /\ C.running = L.running /\ C.co = L.co
    BY <1>1, Zenon DEF Local, SameWires
<1>5. \/ L.umb = "connecting" /\ Set(s, A, pipe)
      \/ Set(s, B, pipe)
      \/ Set(s, C, P)
    BY Zenon DEF ConnectorConnects, ConnectorQuits, CrashTimer
<1> HIDE DEF A, B, C, P, L
<1>6. CASE L.umb = "connecting" /\ Set(s, A, pipe)
  <2>1. DOMAIN A.events = {1} /\ A.events[1].kind = "connect"
      BY <1>2
  <2>2. ASSUME Alone(L) PROVE Genuine(s, A) /\ Attentive(A)
    <3>1. Genuine(s, L) /\ Attentive(L)
        BY <1>1, <2>2 DEF Honest
    <3>2. L.running = {}
        BY <1>1, <1>6, <3>1, NothingBelieved
    <3> QED
        BY <1>2, <2>1, <3>1, <3>2 DEF Genuine, Attentive
  <2>3. Honest(s, A)
      BY <1>2, <2>2 DEF Honest, Alone
  <2> QED
      BY <1>6, <2>3, PutHonest
<1>7. Honest(s, B) /\ Honest(s, C)
    BY <1>1, <1>3, <1>4, SameHonest DEF Mild
<1> QED
    BY <1>5, <1>6, <1>7, PutHonest

\* An instance of p tells an event.  If that is a start it is still there, and if
\* it is a stop Capcom has still to read it.
LEMMA TellHonest ==
    ASSUME NEW s \in Subsystem, NEW L \in Local, Honest(s, L), ~Still(L),
           NEW p \in Process, NEW e \in StageZeroEvent,
           e.kind \in {"start", "stop"}, e.proc = p,
           NEW M, M.umb = L.umb, M.sock = L.sock, M.running = L.running, M.co = L.co,
           M.events = Append(L.events, e),
           \A q \in Process \ {p} : Here(L, q) => Here(M, q),
           e.kind = "start" => Here(M, p)
    PROVE  Honest(s, M)
<1> DEFINE E == L.events
           F == M.events
           n == Len(E)
<1>1. E \in Seq(StageZeroEvent)
    BY Fields
<1>2. /\ n \in Nat /\ DOMAIN E = 1..n /\ DOMAIN F = 1..(n + 1)
      /\ F[n + 1] = e /\ \A k \in 1..n : F[k] = E[k] /\ E[k] \in StageZeroEvent
  <2> HIDE DEF E
  <2>1. F = Append(E, e)
      BY DEF E
  <2> QED
      BY <1>1, <2>1
<1> HIDE DEF E, F, n
<1>3. ASSUME NEW q \in Process, NEW k \in 0..n, Vouched(L, q, k)
      PROVE  Vouched(M, q, k)
  <2>1. CASE Here(L, q) /\ (q # p \/ e.kind = "start")
      BY <2>1 DEF Vouched
  <2>2. CASE q = p /\ e.kind = "stop"
    <3>1. n + 1 \in DOMAIN F /\ n + 1 > k /\ F[n + 1].kind = "stop" /\ F[n + 1].proc = q
        BY <1>2, <2>2
    <3> QED
        BY <3>1 DEF Vouched, F
  <2>3. ASSUME NEW j \in DOMAIN E, j > k, E[j].kind = "stop", E[j].proc = q
        PROVE  Vouched(M, q, k)
    <3>1. j \in DOMAIN F /\ F[j] = E[j]
        BY <1>2
    <3> QED
        BY <2>3, <3>1 DEF Vouched, F
  <2> QED
      BY <1>3, <2>1, <2>2, <2>3 DEF Vouched, E
<1>4. ASSUME Genuine(s, L) PROVE Genuine(s, M)
  <2>1. ASSUME NEW q \in M.running PROVE Vouched(M, q, 0)
    <3>1. q \in Process /\ Vouched(L, q, 0) /\ 0 \in 0..n
        BY <1>2, <1>4, Fields DEF Genuine
    <3> QED
        BY <1>3, <3>1
  <2>2. ASSUME NEW k \in DOMAIN F, F[k].kind = "start" PROVE Vouched(M, F[k].proc, k)
    <3>1. CASE k = n + 1
        BY <1>2, <2>2, <3>1 DEF Vouched
    <3>2. CASE k # n + 1
      <4>1. k \in DOMAIN E /\ k \in 0..n /\ F[k] = E[k] /\ E[k] \in StageZeroEvent
          BY <1>2, <3>2
      <4>2. E[k].proc \in Process
          BY <2>2, <4>1, EventFields
      <4>3. Vouched(L, E[k].proc, k)
          BY <1>4, <2>2, <4>1 DEF Genuine, E
      <4> QED
          BY <1>3, <4>1, <4>2, <4>3
    <3> QED
        BY <3>1, <3>2
  <2>3. ASSUME NEW k \in DOMAIN F PROVE F[k].kind # "disconnect"
    <3>1. CASE k = n + 1
        BY <1>2, <3>1
    <3>2. CASE k # n + 1
      <4>1. k \in DOMAIN E /\ F[k] = E[k]
          BY <1>2, <3>2
      <4> QED
          BY <1>4, <4>1 DEF Genuine, E
    <3> QED
        BY <3>1, <3>2
  <2> QED
      BY <1>4, <2>1, <2>2, <2>3 DEF Genuine, F
<1> QED
    BY <1>4 DEF Honest, Alone, Attentive

\* The steps of one instance: the one with the recorded id, or another one.
LEMMA LiveHonest ==
    ASSUME NEW s \in Subsystem, NEW L \in Local, Honest(s, L), NEW p \in Process,
           NEW e \in StageZeroEvent, e.kind \in {"start", "stop"}, e.proc = p,
           NEW l, L.live[p] # "none", e.kind = "start" => l # "none"
    PROVE  Honest(s, Tell([L EXCEPT !.live[p] = l], e))
<1> DEFINE M == Tell([L EXCEPT !.live[p] = l], e)
<1>1. L.live \in [Process -> {"none", "starting", "up"}]
    BY Fields
<1>2. /\ M.umb = L.umb /\ M.sock = L.sock /\ M.running = L.running
      /\ M.co = L.co /\ M.events = Append(L.events, e)
      /\ M.live = [L.live EXCEPT ![p] = l] /\ M.others = L.others
    BY Zenon DEF Tell, Local
<1> HIDE DEF M
<1>3. ~Still(L)
    BY DEF Still
<1>4. \A q \in Process \ {p} : Here(L, q) => Here(M, q)
    BY <1>1, <1>2 DEF Here
<1>5. e.kind = "start" => Here(M, p)
    BY <1>1, <1>2 DEF Here
<1> QED
    BY <1>2, <1>3, <1>4, <1>5, TellHonest DEF M

LEMMA MoveHonest ==
    ASSUME NEW s \in Subsystem, NEW L \in Local, Honest(s, L), NEW p \in Process,
           NEW e \in StageZeroEvent, e.kind \in {"start", "stop"}, e.proc = p,
           NEW f \in Phase, NEW g, L.others[p][f] > 0,
           e.kind = "start" => g \in Phase \ {f}
    PROVE  Honest(s, Tell(Move(L, p, f, g), e))
<1> DEFINE n == [x \in Phase |-> IF x = f THEN L.others[p][x] - 1
                                 ELSE IF x = g THEN L.others[p][x] + 1
                                 ELSE L.others[p][x]]
           N == [L EXCEPT !.others[p] = n]
           M == Tell(N, e)
<1>1. Move(L, p, f, g) = N
    BY Zenon DEF Move
<1>2. L.others \in [Process -> [Phase -> Nat]]
    BY Fields
<1>3. g \in Phase \ {f} => n[g] = L.others[p][g] + 1 /\ L.others[p][g] \in Nat
    BY <1>2
<1> HIDE DEF n
<1>4. /\ M.umb = L.umb /\ M.sock = L.sock /\ M.running = L.running
      /\ M.co = L.co /\ M.events = Append(L.events, e)
      /\ M.live = L.live /\ M.others = [L.others EXCEPT ![p] = n]
    BY Zenon DEF Tell, Local
<1> HIDE DEF M, N
<1>5. ~Still(L)
    BY DEF Still
<1>6. (\A q \in Process \ {p} : M.others[q] = L.others[q]) /\ M.others[p] = n
    BY <1>2, <1>4
<1>7. \A q \in Process \ {p} : Here(L, q) => Here(M, q)
    BY <1>4, <1>6 DEF Here
<1>8. e.kind = "start" => g \in Phase /\ M.others[p][g] > 0
    BY <1>3, <1>6
<1>9. e.kind = "start" => Here(M, p)
    BY <1>8 DEF Here
<1>10. Honest(s, M)
    BY <1>4, <1>5, <1>7, <1>9, TellHonest
<1> QED
    BY <1>1, <1>10 DEF M

LEMMA InstanceHonest ==
    ASSUME IInv, LInv, BInv, NEW s \in Subsystem, NEW p \in Process,
           NEW e \in StageZeroEvent, e.kind \in {"start", "stop"}, e.proc = p,
           \/ \E l : LET M == Tell([sub[s] EXCEPT !.live[p] = l], e) IN
                /\ sub[s].live[p] # "none" /\ (e.kind = "start" => l # "none")
                /\ Put(s, M, pipe) \/ Set(s, M, pipe)
           \/ \E f \in Phase : \E g : LET M == Tell(Move(sub[s], p, f, g), e) IN
                /\ sub[s].others[p][f] > 0 /\ (e.kind = "start" => g \in Phase \ {f})
                /\ Put(s, M, pipe) \/ Set(s, M, pipe)
    PROVE  BInv'
<1>1. sub[s] \in Local /\ Honest(s, sub[s])
    BY BeforeTold, SteadySound DEF BInv
<1>2. PICK M : Honest(s, M) /\ (Put(s, M, pipe) \/ Set(s, M, pipe))
    BY <1>1, LiveHonest, MoveHonest, Zenon
<1> QED
    BY <1>2, PutHonest

LEMMA StageZeroHonest ==
    ASSUME IInv, LInv, BInv, NEW s \in Subsystem, NEW p \in Processes[s],
           Started(s, p) \/ Dies(s, p) \/ OneShotEnds(s, p) \/ Crashes(s, p)
    PROVE  BInv'
<1>1. p \in Process
    BY Finite
<1>2. LET e == Event("start", p, "ok") IN
      e \in StageZeroEvent /\ e.kind = "start" /\ e.proc = p
    BY <1>1, EventTypes DEF Event
<1>3. \A how \in {"ok", "fail", "signal"} : LET e == Event("stop", p, how) IN
      e \in StageZeroEvent /\ e.kind = "stop" /\ e.proc = p
    BY <1>1, EventTypes DEF Event
<1>4. \A how \in Outcomes(p) : how \in {"ok", "fail", "signal"}
    BY <1>1, EventTypes
<1>5. "starting" # "none" /\ "up" # "none" /\ "start" # "stop"
    OBVIOUS
<1>6. ASSUME NEW F \in SUBSET Phase, NEW how \in {"ok", "fail", "signal"},
             Ends(s, p, F, how), "none" \notin F
      PROVE  BInv'
  <2> DEFINE e == Event("stop", p, how)
  <2>1. e \in StageZeroEvent /\ e.kind = "stop" /\ e.proc = p
      BY <1>3
  <2>2. \/ /\ sub[s].live[p] \in F
           /\ Put(s, Tell([sub[s] EXCEPT !.live[p] = "none"], e), pipe)
        \/ \E f \in F : /\ sub[s].others[p][f] > 0
                        /\ Put(s, Tell(Move(sub[s], p, f, "gone"), e), pipe)
      BY <1>6, Zenon DEF Ends
  <2> HIDE DEF e
  <2>3. e.kind # "start" /\ e.kind \in {"start", "stop"}
      BY <2>1
  <2> QED
      BY <1>1, <1>6, <2>1, <2>2, <2>3, InstanceHonest, Zenon
<1>7. {"starting", "up", "halting", "dying"} \subseteq Phase /\ "none" \notin Phase
    BY DEF Phase
<1>8. CASE Started(s, p)
  <2> DEFINE e == Event("start", p, "ok")
  <2>1. e \in StageZeroEvent /\ e.kind = "start" /\ e.proc = p
      BY <1>2
  <2>2. \/ /\ sub[s].live[p] = "starting"
           /\ Set(s, Tell([sub[s] EXCEPT !.live[p] = "up"], e), pipe)
        \/ /\ sub[s].others[p]["starting"] > 0
           /\ Set(s, Tell(Move(sub[s], p, "starting", "up"), e), pipe)
        \/ /\ sub[s].others[p]["halting"] > 0
           /\ Set(s, Tell(Move(sub[s], p, "halting", "dying"), e), pipe)
    <3>1. CASE \E move \in {<<"starting", "up">>, <<"halting", "dying">>} :
                 /\ sub[s].others[p][move[1]] > 0
                 /\ Set(s, Tell(Move(sub[s], p, move[1], move[2]), e), pipe)
      <4>1. PICK move \in {<<"starting", "up">>, <<"halting", "dying">>} :
              /\ sub[s].others[p][move[1]] > 0
              /\ Set(s, Tell(Move(sub[s], p, move[1], move[2]), e), pipe)
          BY <3>1
      <4>2. \/ move[1] = "starting" /\ move[2] = "up"
            \/ move[1] = "halting" /\ move[2] = "dying"
          OBVIOUS
      <4> QED
          BY <4>1, <4>2, Zenon
    <3>2. CASE /\ sub[s].live[p] = "starting"
               /\ Set(s, Tell([sub[s] EXCEPT !.live[p] = "up"], e), pipe)
        BY <3>2
    <3> QED
        BY <1>8, <3>1, <3>2, Zenon DEF Started
  <2>3. /\ "up" \in Phase \ {"starting"} /\ "dying" \in Phase \ {"halting"}
        /\ "starting" \in Phase /\ "halting" \in Phase
      BY DEF Phase
  <2> HIDE DEF e
  <2>4. e.kind \in {"start", "stop"}
      BY <2>1
  <2>5. CASE /\ sub[s].live[p] = "starting"
             /\ Set(s, Tell([sub[s] EXCEPT !.live[p] = "up"], e), pipe)
    <3>1. sub[s].live[p] # "none"
        BY <2>5
    <3> QED
        BY <1>1, <1>5, <2>1, <2>4, <2>5, <3>1, InstanceHonest, Zenon
  <2> QED
      BY <1>1, <2>1, <2>2, <2>3, <2>4, <2>5, InstanceHonest, Zenon
<1>9. CASE Dies(s, p)
  <2>1. PICK f \in {"halting", "dying"}, how \in Outcomes(p) :
          /\ sub[s].others[p][f] > 0
          /\ Set(s, Tell(Move(sub[s], p, f, "gone"), Event("stop", p, how)), pipe)
      BY <1>9 DEF Dies
  <2> DEFINE e == Event("stop", p, how)
  <2>2. f \in Phase /\ e \in StageZeroEvent /\ e.kind = "stop" /\ e.proc = p
      BY <1>3, <1>4, <1>7
  <2>3. Set(s, Tell(Move(sub[s], p, f, "gone"), e), pipe)
      BY <2>1
  <2> HIDE DEF e
  <2>4. e.kind # "start" /\ e.kind \in {"start", "stop"}
      BY <2>2
  <2> QED
      BY <1>1, <2>1, <2>2, <2>3, <2>4, InstanceHonest, Zenon
<1>10. CASE OneShotEnds(s, p)
    BY <1>6, <1>7, <1>10 DEF OneShotEnds
<1>11. CASE Crashes(s, p)
    BY <1>4, <1>6, <1>7, <1>11 DEF Crashes
<1> QED
    BY <1>8, <1>9, <1>10, <1>11

\* A killed instance is still there until it is dead.
LEMMA AbortKillsHonest ==
    ASSUME IInv, LInv, BInv, NEW e \in BOOLEAN, AbortKills(e)
    PROVE  BInv'
<1>1. \A s \in Subsystem :
          sub'[s] = sub[s] \/ (sub[s].sock = "open" /\ sub'[s] = KillAll(sub[s]))
    BY Zenon DEF AbortKills
<1>2. ASSUME NEW s \in Subsystem, sub[s].sock = "open" PROVE Honest(s, KillAll(sub[s]))
  <2> DEFINE L == sub[s]
             all(p, f) == L.others[p][f] + IF L.live[p] = f THEN 1 ELSE 0
             live == [p \in Process |-> "none"]
             others == [p \in Process |->
                          [f \in Phase |->
                             CASE f = "halting" -> L.others[p][f] + all(p, "starting")
                               [] f = "dying" -> L.others[p][f] + all(p, "up")
                               [] OTHER -> 0]]
             M == [L EXCEPT !.live = live, !.others = others]
  <2>1. L \in Local /\ Honest(s, L) /\ L.sock = "open"
      BY <1>2, BeforeTold, SteadySound DEF BInv
  <2>2. L.others \in [Process -> [Phase -> Nat]]
        /\ L.live \in [Process -> {"none", "starting", "up"}]
      BY <2>1, Fields
  <2>3. KillAll(L) = M
    <3>1. \A p \in Process : L.others[p] = L.others[p]
        OBVIOUS
    <3> QED
        BY <2>1, <2>2 DEF KillAll, Local
  <2>4. ASSUME NEW p \in Process, Here(L, p)
        PROVE  \E f \in Phase : others[p][f] > 0
    <3>1. /\ "halting" \in Phase /\ "dying" \in Phase /\ "starting" \in Phase /\ "up" \in Phase
          /\ others[p]["halting"] = L.others[p]["halting"] + all(p, "starting")
          /\ others[p]["dying"] = L.others[p]["dying"] + all(p, "up")
        BY DEF Phase
    <3>2. /\ L.others[p]["halting"] \in Nat /\ L.others[p]["dying"] \in Nat
          /\ L.others[p]["starting"] \in Nat /\ L.others[p]["up"] \in Nat
          /\ L.live[p] \in {"none", "starting", "up"}
        BY <2>2, <3>1
    <3>3. CASE L.live[p] # "none"
        BY <3>1, <3>2, <3>3
    <3>4. ASSUME NEW f \in Phase, L.others[p][f] > 0
          PROVE  \E g \in Phase : others[p][g] > 0
      <4>1. f \in {"starting", "up", "halting", "dying"}
          BY DEF Phase
      <4> QED
          BY <3>1, <3>2, <3>4, <4>1
    <3> QED
        BY <2>4, <3>3, <3>4 DEF Here
  <2> HIDE DEF live, others
  <2>5. /\ M.umb = L.umb /\ M.sock = L.sock /\ M.events = L.events
        /\ M.running = L.running /\ M.co = L.co /\ M.others = others
      BY <2>1, Zenon DEF Local
  <2> HIDE DEF M
  <2>6. \A p \in Process : Here(L, p) => Here(M, p)
      BY <2>4, <2>5 DEF Here
  <2>7. Alone(L) => Genuine(s, M)
      BY <2>1, <2>5, <2>6, HereGenuine DEF Honest
  <2>8. Honest(s, M)
      BY <2>1, <2>5, <2>7, MildHonest DEF Mild
  <2> QED
      BY <2>3, <2>8
<1> QED
    BY <1>1, <1>2 DEF BInv

-----------------------------------------------------------------------------
(* The inductive invariant, and the theorem.                               *)

LEMMA InitHonest == Init => BInv
<1> SUFFICES ASSUME Init, NEW s \in Subsystem PROVE Honest(s, sub[s])
    BY DEF BInv
<1>1. sub[s] = Idle
    BY DEF Init
<1>2. Idle.co[1].at = "enter" /\ Idle.co[1].state = "Offline"
    BY SlotAssumption DEF Idle, Dead, NewCoroutine
<1>3. Genuine(s, Idle) /\ Idle.running = {}
    BY DEF Genuine, Idle, Still
<1> QED
    BY <1>1, <1>2, <1>3 DEF Honest, Attentive

\* No emergency abort and no lost connection.
Calmly == ~emergency /\ spent.drops = 0

LEMMA NextHonest ==
    ASSUME IInv, LInv, BInv, \A s \in Subsystem : Solitary(s), Calmly, Calmly',
           [Next]_vars
    PROVE  BInv'
<1>1. CASE UNCHANGED vars
    BY <1>1 DEF vars, BInv
<1>2. CASE Next
  <2>1. ASSUME NEW s \in Subsystem, NEW i \in Slot,
               StateStep(s, i) \/ LaunchFails(s, i)
        PROVE  BInv'
    <3>1. emergency = FALSE
        BY DEF Calmly, IInv, TypeOK
    <3> QED
        BY <2>1, <3>1, StateStepHonest, LaunchFailsHonest
  <2>2. ASSUME NEW s \in Subsystem,
               ConnectorConnects(s) \/ ConnectorQuits(s) \/ CrashTimer(s)
        PROVE  BInv'
      BY <2>2, ConnectorHonest
  <2>3. ASSUME NEW s \in Subsystem, Drop(s) PROVE FALSE
      BY <2>3 DEF Drop, Calmly, IInv, TypeOK
  <2>4. ASSUME NEW s \in Subsystem, NEW p \in Processes[s],
               Started(s, p) \/ Dies(s, p) \/ OneShotEnds(s, p) \/ Crashes(s, p)
        PROVE  BInv'
      BY <2>4, StageZeroHonest
  <2>5. ASSUME NEW e \in BOOLEAN, AbortKills(e) PROVE BInv'
      BY <2>5, AbortKillsHonest
  <2>6. ASSUME sub' = sub PROVE BInv'
      BY <2>6 DEF BInv
  <2>7. ASSUME NEW s \in Subsystem, NEW c \in Client, ClientCommand(c, s)
        PROVE  sub' = sub
      BY <2>7 DEF ClientCommand
  <2>8. ASSUME NEW e \in BOOLEAN, ClientAbort(e) \/ CriticalAbort PROVE sub' = sub
      BY <2>8 DEF ClientAbort, CriticalAbort, AbortAll
  <2> QED
      BY <1>2, <2>1, <2>2, <2>3, <2>4, <2>5, <2>6, <2>7, <2>8 DEF Next, StageZeroStep
<1> QED
    BY <1>1, <1>2

\* What is vouched for is real.
LEMMA HonestIsReal ==
    ASSUME IInv, BInv, Undivided
    PROVE  RunningIsReal
<1> SUFFICES ASSUME NEW s \in Subsystem, NEW p \in sub[s].running
             PROVE  \/ Instances(s, p) > 0
                    \/ \E k \in DOMAIN sub[s].events :
                          LET e == sub[s].events[k] IN e.kind = "stop" /\ e.proc = p
    BY DEF RunningIsReal
<1>1. sub[s] \in Local /\ Genuine(s, sub[s])
    BY Unpack, SoundLocal DEF BInv, Honest, Undivided
<1>2. p \in Process /\ sub[s].others[p] \in [Phase -> Nat]
    BY <1>1, Fields
<1>3. CASE Here(sub[s], p)
  <2> DEFINE n == IF sub[s].live[p] = "none" THEN 0 ELSE 1
             a == sub[s].others[p]["starting"]
             b == sub[s].others[p]["up"]
             c == sub[s].others[p]["halting"]
             d == sub[s].others[p]["dying"]
  <2>1. n \in {0, 1} /\ a \in Nat /\ b \in Nat /\ c \in Nat /\ d \in Nat
      BY <1>2 DEF Phase
  <2>2. n = 1 \/ a > 0 \/ b > 0 \/ c > 0 \/ d > 0
      BY <1>3 DEF Here, Phase
  <2>3. Instances(s, p) = n + a + b + c + d
      BY Zenon DEF Instances
  <2> HIDE DEF n, a, b, c, d
  <2>4. n + a + b + c + d > 0
      BY <2>1, <2>2
  <2>5. Instances(s, p) > 0
      BY <2>3, <2>4
  <2> QED
      BY <2>5
<1> QED
    BY <1>1, <1>3 DEF Genuine, Vouched

\* While no connection is lost and nobody asks for an emergency abort, a subsystem
\* with one process and no children forgets no stop event: what Capcom believes to
\* run is an instance that StageZero runs or kills, or one whose end Capcom has
\* still to read (the event handlers of state_machine.cc).
THEOREM BelievesWhatRuns ==
    ASSUME \A s \in Subsystem : Solitary(s)
    PROVE  Spec /\ []Calmly => [](Undivided => RunningIsReal)
<1>1. IInv /\ LInv /\ BInv /\ Calmly /\ Calmly' /\ [Next]_vars => BInv'
    BY NextHonest
<1>2. IInv /\ BInv => (Undivided => RunningIsReal)
    BY HonestIsReal
<1> QED
    BY <1>1, <1>2, InitHonest, LimitsInvariance, PTL DEF Spec

=============================================================================
