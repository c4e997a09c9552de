-------------------------- MODULE SubsystemProofs --------------------------
(***************************************************************************)
(* Proofs about Subsystem: its types, and the reference counts of the      *)
(* umbilicals, for every graph, set of processes and bound.                *)
(*                                                                         *)
(* The actions are built from functions on the state L of one subsystem.   *)
(* Sound(s) is the set of the states of s that are well typed and count    *)
(* their references; the lemmas show, bottom up, that each function keeps  *)
(* a state in it, that the ways to end a step keep the invariant, and then *)
(* that every action does.  In the same way Calm(s) adds to Sound(s) what  *)
(* makes a subsystem go online only when its processes run.                *)
(***************************************************************************)
EXTENDS Subsystem, FiniteSetTheorems, TLAPS

Sound(s) ==
    {L \in Local :
        /\ L.maybe \subseteq Processes[s]
        /\ L.refs = Cardinality(L.maybe)
        /\ L.umb = "closed" <=> L.refs = 0}

Pipes == [Subsystem -> Seq(Message)]

\* The inductive invariant: the types and the reference counts need each other.
IInv == TypeOK /\ RefsCountConnections

-----------------------------------------------------------------------------
(* The fields of a subsystem, and the updates that leave its umbilical     *)
(* alone.                                                                  *)

LEMMA Fields ==
    ASSUME NEW L \in Local
    PROVE  /\ L.admin \in AdminState /\ L.oper \in OperState
           /\ L.active \in SUBSET Client /\ L.interactive \in BOOLEAN
           /\ L.restarts \in Nat /\ L.co \in [Slot -> Coroutine]
           /\ L.running \in SUBSET Process /\ L.maybe \in SUBSET Process
           /\ L.exit \in [Process -> {"unset", "launched", "ok", "fail"}]
           /\ L.tries \in [Process -> Nat] /\ L.alarm \in SUBSET Process
           /\ L.todo \in SUBSET Process /\ L.timers \in Nat
           /\ L.umb \in {"closed", "connecting", "connected"}
           /\ L.refs \in Int /\ L.conn \in Nat
           /\ L.sock \in {"none", "open", "eof"}
           /\ L.events \in Seq(StageZeroEvent)
           /\ L.live \in [Process -> {"none", "starting", "up"}]
           /\ L.others \in [Process -> [Phase -> Nat]]
BY Zenon DEF Local

LEMMA CoroutineFields ==
    ASSUME NEW L \in Local, NEW i \in Slot
    PROVE  /\ L.co[i] \in Coroutine
           /\ L.co[i].state \in OperState /\ L.co[i].cid \in ClientId
           /\ L.co[i].next \in OperState /\ L.co[i].told \in SUBSET Subsystem
           /\ L.co[i].off \in SUBSET ClientId
           /\ L.co[i].started \in SUBSET Process
<1>1. L.co[i] \in Coroutine
    BY Fields
<1> QED
    BY <1>1, Zenon DEF Coroutine

LEMMA SoundLocal ==
    ASSUME NEW s \in Subsystem, NEW L \in Sound(s)
    PROVE  L \in Local
BY DEF Sound

-----------------------------------------------------------------------------
(* The functions on the state of a subsystem keep it sound.                *)

LEMMA EnterStateSound ==
    ASSUME NEW s \in Subsystem, NEW L \in Sound(s), NEW i \in Slot,
           NEW st \in OperState, NEW c \in ClientId
    PROVE  EnterState(L, i, st, c) \in Sound(s)
<1>1. NewCoroutine("enter", st, c) \in Coroutine
    BY DEF NewCoroutine, Coroutine
<1>2. [L.co EXCEPT ![i] = NewCoroutine("enter", st, c)] \in [Slot -> Coroutine]
    BY <1>1, Fields, SoundLocal
<1> QED
    BY <1>2, Zenon DEF EnterState, Local, Sound

LEMMA RunInSound ==
    ASSUME NEW s \in Subsystem, NEW L \in Sound(s), NEW i \in Slot,
           NEW st \in OperState
    PROVE  RunIn(L, i, st) \in Sound(s)
<1>1. [L.co[i] EXCEPT !.at = "run", !.next = st] \in Coroutine
    BY SoundLocal, CoroutineFields, Zenon DEF Coroutine
<1>2. [L.co EXCEPT ![i] = [L.co[i] EXCEPT !.at = "run", !.next = st]]
        \in [Slot -> Coroutine]
    BY <1>1, Fields, SoundLocal
<1>3. [L.co EXCEPT ![i].at = "run", ![i].next = st] \in [Slot -> Coroutine]
    BY <1>2, Fields, SoundLocal
<1> QED
    BY <1>3, Zenon DEF RunIn, Local, Sound

\* The updates of one field, or of one field of a coroutine.
LEMMA FieldSound ==
    ASSUME NEW s \in Subsystem, NEW L \in Sound(s)
    PROVE  /\ \A a \in AdminState : [L EXCEPT !.admin = a] \in Sound(s)
           /\ \A st \in OperState : [L EXCEPT !.oper = st] \in Sound(s)
           /\ \A A \in SUBSET Client : [L EXCEPT !.active = A] \in Sound(s)
           /\ \A b \in BOOLEAN : [L EXCEPT !.interactive = b] \in Sound(s)
           /\ \A n \in Nat : [L EXCEPT !.restarts = n] \in Sound(s)
           /\ \A n \in Nat : [L EXCEPT !.timers = n] \in Sound(s)
           /\ \A n \in Nat : [L EXCEPT !.conn = n] \in Sound(s)
           /\ \A D \in SUBSET Process : [L EXCEPT !.running = D] \in Sound(s)
           /\ \A D \in SUBSET Process : [L EXCEPT !.todo = D] \in Sound(s)
           /\ \A D \in SUBSET Process : [L EXCEPT !.alarm = D] \in Sound(s)
           /\ \A f \in [Process -> Nat] : [L EXCEPT !.tries = f] \in Sound(s)
           /\ \A f \in [Process -> {"unset", "launched", "ok", "fail"}] :
                 [L EXCEPT !.exit = f] \in Sound(s)
           /\ \A E \in Seq(StageZeroEvent) : [L EXCEPT !.events = E] \in Sound(s)
           /\ \A f \in [Slot -> Coroutine] : [L EXCEPT !.co = f] \in Sound(s)
<1>1. ASSUME NEW a \in AdminState
      PROVE  [L EXCEPT !.admin = a] \in Sound(s)
    BY Zenon DEF Local, Sound
<1>2. ASSUME NEW st \in OperState
      PROVE  [L EXCEPT !.oper = st] \in Sound(s)
    BY Zenon DEF Local, Sound
<1>3. ASSUME NEW A \in SUBSET Client
      PROVE  [L EXCEPT !.active = A] \in Sound(s)
    BY Zenon DEF Local, Sound
<1>4. ASSUME NEW b \in BOOLEAN
      PROVE  [L EXCEPT !.interactive = b] \in Sound(s)
    BY Zenon DEF Local, Sound
<1>5. ASSUME NEW n \in Nat
      PROVE  [L EXCEPT !.restarts = n] \in Sound(s)
    BY Zenon DEF Local, Sound
<1>6. ASSUME NEW n \in Nat
      PROVE  [L EXCEPT !.timers = n] \in Sound(s)
    BY Zenon DEF Local, Sound
<1>7. ASSUME NEW n \in Nat
      PROVE  [L EXCEPT !.conn = n] \in Sound(s)
    BY Zenon DEF Local, Sound
<1>8. ASSUME NEW D \in SUBSET Process
      PROVE  [L EXCEPT !.running = D] \in Sound(s)
    BY Zenon DEF Local, Sound
<1>9. ASSUME NEW D \in SUBSET Process
      PROVE  [L EXCEPT !.todo = D] \in Sound(s)
    BY Zenon DEF Local, Sound
<1>10. ASSUME NEW D \in SUBSET Process
      PROVE  [L EXCEPT !.alarm = D] \in Sound(s)
    BY Zenon DEF Local, Sound
<1>11. ASSUME NEW f \in [Process -> Nat]
      PROVE  [L EXCEPT !.tries = f] \in Sound(s)
    BY Zenon DEF Local, Sound
<1>12. ASSUME NEW f \in [Process -> {"unset", "launched", "ok", "fail"}]
      PROVE  [L EXCEPT !.exit = f] \in Sound(s)
    BY Zenon DEF Local, Sound
<1>13. ASSUME NEW E \in Seq(StageZeroEvent)
      PROVE  [L EXCEPT !.events = E] \in Sound(s)
    BY Zenon DEF Local, Sound
<1>14. ASSUME NEW f \in [Slot -> Coroutine]
      PROVE  [L EXCEPT !.co = f] \in Sound(s)
    BY Zenon DEF Local, Sound
<1> QED
    BY <1>1, <1>2, <1>3, <1>4, <1>5, <1>6, <1>7, <1>8, <1>9,
       <1>10, <1>11, <1>12, <1>13, <1>14

LEMMA Redirected ==
    ASSUME NEW f \in [Slot -> Coroutine], NEW i \in Slot, NEW st, NEW c,
           [f[i] EXCEPT !.next = st, !.cid = c] \in Coroutine
    PROVE  [f EXCEPT ![i].next = st, ![i].cid = c] \in [Slot -> Coroutine]
<1> DEFINE d == [f[i] EXCEPT !.next = st, !.cid = c]
<1>1. [f EXCEPT ![i].next = st, ![i].cid = c] = [f EXCEPT ![i] = d]
    BY ZenonT(40)
<1> HIDE DEF d
<1>2. [f EXCEPT ![i] = d] \in [Slot -> Coroutine]
    BY DEF d
<1> QED
    BY <1>1, <1>2

LEMMA CoroutineSound ==
    ASSUME NEW s \in Subsystem, NEW L \in Sound(s), NEW i \in Slot
    PROVE  /\ \A at \in {"wait", "nap"} : [L EXCEPT !.co[i].at = at] \in Sound(s)
           /\ \A T \in SUBSET Subsystem : [L EXCEPT !.co[i].told = T] \in Sound(s)
           /\ \A O \in SUBSET ClientId : [L EXCEPT !.co[i].off = O] \in Sound(s)
           /\ \A D \in SUBSET Process : [L EXCEPT !.co[i].started = D] \in Sound(s)
           /\ \A st \in OperState, c \in ClientId :
                 [L EXCEPT !.co[i].next = st, !.co[i].cid = c] \in Sound(s)
<1> USE DEF Coroutine
<1>1. ASSUME NEW f \in Coroutine PROVE [L.co EXCEPT ![i] = f] \in [Slot -> Coroutine]
    BY Fields, SoundLocal
<1>2. ASSUME NEW at \in {"wait", "nap"} PROVE [L EXCEPT !.co[i].at = at] \in Sound(s)
  <2>1. [L.co[i] EXCEPT !.at = at] \in Coroutine
      BY SoundLocal, CoroutineFields, Zenon
  <2> QED
      BY <2>1, <1>1, FieldSound
<1>3. ASSUME NEW T \in SUBSET Subsystem PROVE [L EXCEPT !.co[i].told = T] \in Sound(s)
  <2>1. [L.co[i] EXCEPT !.told = T] \in Coroutine
      BY SoundLocal, CoroutineFields, Zenon
  <2> QED
      BY <2>1, <1>1, FieldSound
<1>4. ASSUME NEW O \in SUBSET ClientId PROVE [L EXCEPT !.co[i].off = O] \in Sound(s)
  <2>1. [L.co[i] EXCEPT !.off = O] \in Coroutine
      BY SoundLocal, CoroutineFields, Zenon
  <2> QED
      BY <2>1, <1>1, FieldSound
<1>5. ASSUME NEW D \in SUBSET Process PROVE [L EXCEPT !.co[i].started = D] \in Sound(s)
  <2>1. [L.co[i] EXCEPT !.started = D] \in Coroutine
      BY SoundLocal, CoroutineFields, Zenon
  <2> QED
      BY <2>1, <1>1, FieldSound
<1>6. ASSUME NEW st \in OperState, NEW c \in ClientId
      PROVE [L EXCEPT !.co[i].next = st, !.co[i].cid = c] \in Sound(s)
  <2>1. [L.co[i] EXCEPT !.next = st, !.cid = c] \in Coroutine
      BY SoundLocal, CoroutineFields, Zenon
  <2>2. L.co \in [Slot -> Coroutine]
      BY Fields, SoundLocal
  <2>3. [L.co EXCEPT ![i].next = st, ![i].cid = c] \in [Slot -> Coroutine]
      BY <2>1, <2>2, Redirected, ZenonT(40)
  <2> QED
      BY <2>3, Zenon DEF Local, Sound
<1> QED
    BY <1>2, <1>3, <1>4, <1>5, <1>6

LEMMA CloseSocketSound ==
    ASSUME NEW s \in Subsystem, NEW L \in Sound(s)
    PROVE  CloseSocket(L) \in Sound(s)
<1>1. [p \in Process |-> "none"] \in [Process -> {"none", "starting", "up"}]
    OBVIOUS
<1>2. [p \in Process |-> [f \in Phase |-> 0]] \in [Process -> [Phase -> Nat]]
    OBVIOUS
<1>3. <<>> \in Seq(StageZeroEvent)
    OBVIOUS
<1> QED
    BY <1>1, <1>2, <1>3, Zenon DEF CloseSocket, Local, Sound

LEMMA SetRunningSound ==
    ASSUME NEW s \in Subsystem, NEW L \in Sound(s), NEW p \in Process
    PROVE  SetRunning(L, p) \in Sound(s) /\ SetStopped(L, p) \in Sound(s)
<1>1. L.running \cup {p} \in SUBSET Process /\ L.running \ {p} \in SUBSET Process
    BY Fields, SoundLocal
<1>2. L.alarm \ {p} \in SUBSET Process
    BY Fields, SoundLocal
<1> QED
    BY <1>1, <1>2, Zenon DEF SetRunning, SetStopped, Local, Sound

LEMMA ResetSound ==
    ASSUME NEW s \in Subsystem, NEW L \in Sound(s)
    PROVE  ResetProcessRestarts(L) \in Sound(s)
<1>1. [p \in Process |-> 0] \in [Process -> Nat]
    OBVIOUS
<1> QED
    BY <1>1, FieldSound DEF ResetProcessRestarts

LEMMA ReadEventSound ==
    ASSUME NEW s \in Subsystem, NEW L \in Sound(s), L.events # <<>>
    PROVE  /\ ReadEvent(L) \in Sound(s)
           /\ Head(L.events) \in StageZeroEvent
<1>1. Head(L.events) \in StageZeroEvent /\ Tail(L.events) \in Seq(StageZeroEvent)
    BY Fields, SoundLocal
<1> QED
    BY <1>1, FieldSound, CloseSocketSound DEF ReadEvent

\* The process of a start or stop event.
LEMMA EventFields ==
    ASSUME NEW e \in StageZeroEvent, e.kind \in {"start", "stop"}
    PROVE  e.proc \in Process /\ e.how \in {"ok", "fail", "signal"}
BY DEF StageZeroEvent

LEMMA NoteStopSound ==
    ASSUME NEW s \in Subsystem, NEW L \in Sound(s), L.events # <<>>
    PROVE  NoteStop(L) \in Sound(s)
BY ReadEventSound, EventFields, SetRunningSound DEF NoteStop

-----------------------------------------------------------------------------
(* The umbilical's reference counts.                                       *)

\* The sets of processes in question are finite.
LEMMA Finite ==
    ASSUME NEW s \in Subsystem, NEW D, D \subseteq Processes[s]
    PROVE  /\ IsFiniteSet(D) /\ D \in SUBSET Process
           /\ Cardinality(D) \in Nat
           /\ Cardinality(D) = 0 <=> D = {}
BY ProcessAssumption, FS_Subset, FS_CardinalityType, FS_EmptySet

LEMMA ConnectSound ==
    ASSUME NEW s \in Subsystem, NEW L \in Sound(s)
    PROVE  Connect(s, L) \in Sound(s)
<1> DEFINE new == Processes[s] \ L.maybe
           n == Cardinality(new)
<1>1. L \in Local /\ L.maybe \subseteq Processes[s] /\ L.refs = Cardinality(L.maybe)
    BY DEF Sound
<1>2. L.maybe \cup new \in SUBSET Process /\ L.maybe \cup new \subseteq Processes[s]
    BY <1>1, Finite
<1>3. L.refs + n = Cardinality(L.maybe \cup new)
  <2>1. L.maybe \cap new = {}
      OBVIOUS
  <2>2. /\ IsFiniteSet(L.maybe) /\ IsFiniteSet(new)
        /\ Cardinality(L.maybe) \in Nat /\ n \in Nat
      BY <1>1, Finite
  <2>3. Cardinality(L.maybe \cup new)
            = Cardinality(L.maybe) + n - Cardinality(L.maybe \cap new)
      BY <2>2, FS_Union
  <2>4. Cardinality(L.maybe \cap new) = 0
      BY <2>1, FS_EmptySet
  <2> QED
      BY <2>2, <2>3, <2>4, <1>1
<1>4. L.refs + n \in Int /\ (new # {} => L.refs + n # 0)
  <2>1. Cardinality(L.maybe) \in Nat /\ n \in Nat /\ (n = 0 <=> new = {})
      BY <1>1, Finite
  <2> QED
      BY <2>1, <1>1
<1>5. CASE new = {}
    BY <1>5 DEF Connect
<1>6. CASE new # {}
  <2> DEFINE up == [L EXCEPT !.maybe = @ \cup new, !.refs = @ + n,
                             !.umb = "connecting"]
  <2> HIDE DEF n, new
  <2>1. up \in Sound(s)
      BY <1>1, <1>2, <1>3, <1>4, <1>6, Zenon DEF Local, Sound
  <2>2. L.conn + 1 \in Nat /\ up.conn = L.conn
    <3>1. up.conn = L.conn
        BY <1>1, Zenon DEF Local
    <3> QED
        BY <3>1, <1>1, Fields
  <2>3. [up EXCEPT !.conn = @ + 1] \in Sound(s)
    <3> HIDE DEF up
    <3> QED
        BY <2>1, <2>2, FieldSound
  <2>4. Connect(s, L) = IF L.umb = "closed" THEN [up EXCEPT !.conn = @ + 1] ELSE up
      BY <1>6 DEF Connect, n, new
  <2> QED
      BY <2>1, <2>3, <2>4
<1> QED
    BY <1>5, <1>6

LEMMA DisconnectSound ==
    ASSUME NEW s \in Subsystem, NEW L \in Sound(s), NEW D
    PROVE  Disconnect(L, D) \in Sound(s)
<1> DEFINE gone == D \cap L.maybe
           n == Cardinality(gone)
           down == [L EXCEPT !.running = @ \ gone, !.maybe = @ \ gone, !.refs = @ - n]
<1>1. /\ L \in Local /\ L.maybe \subseteq Processes[s]
      /\ L.refs = Cardinality(L.maybe) /\ (L.umb = "closed" <=> L.refs = 0)
    BY DEF Sound
<1>2. /\ L.running \ gone \in SUBSET Process /\ L.maybe \ gone \in SUBSET Process
      /\ L.maybe \ gone \subseteq Processes[s]
    BY <1>1, Fields
<1>3. L.refs - n = Cardinality(L.maybe \ gone)
  <2>1. L.maybe \cap gone = gone
      OBVIOUS
  <2>2. IsFiniteSet(L.maybe)
      BY <1>1, Finite
  <2>3. Cardinality(L.maybe \ gone)
            = Cardinality(L.maybe) - Cardinality(L.maybe \cap gone)
      BY <2>2, FS_Difference
  <2> QED
      BY <2>1, <2>3, <1>1
<1>4. /\ L.refs \in Nat /\ n \in Nat /\ L.refs - n \in Nat /\ L.refs - n \in Int
      /\ n = 0 <=> gone = {}
  <2>1. Cardinality(L.maybe) \in Nat /\ Cardinality(L.maybe \ gone) \in Nat
      BY <1>1, <1>2, Finite
  <2>2. n \in Nat /\ (n = 0 <=> gone = {})
      BY <1>1, Finite
  <2> QED
      BY <2>1, <2>2, <1>1, <1>3
<1> HIDE DEF n, gone
<1>5. /\ down \in Local /\ down.refs = L.refs - n /\ down.umb = L.umb
      /\ down.maybe = L.maybe \ gone
    BY <1>1, <1>2, <1>4, Zenon DEF Local
<1>6. CASE gone # {} /\ down.refs <= 0
  <2> DEFINE M == [CloseSocket(down) EXCEPT !.umb = "closed"]
  <2>1. L.refs - n = 0
      BY <1>4, <1>5, <1>6
  <2>2. /\ [p \in Process |-> "none"] \in [Process -> {"none", "starting", "up"}]
        /\ [p \in Process |-> [f \in Phase |-> 0]] \in [Process -> [Phase -> Nat]]
        /\ <<>> \in Seq(StageZeroEvent)
      OBVIOUS
  <2> HIDE DEF down
  <2>3. /\ CloseSocket(down) \in Local /\ CloseSocket(down).refs = down.refs
        /\ CloseSocket(down).maybe = down.maybe
      BY <2>2, <1>5, Zenon DEF Local, CloseSocket
  <2>4. /\ M \in Local /\ M.refs = down.refs /\ M.maybe = down.maybe
        /\ M.umb = "closed"
      BY <2>3, Zenon DEF Local
  <2>5. M \in Sound(s)
    <3> HIDE DEF M
    <3> QED
        BY <2>4, <2>1, <1>2, <1>3, <1>5 DEF Sound
  <2>6. Disconnect(L, D) = M
      BY <1>6, Zenon DEF Disconnect, down, gone, n
  <2> QED
      BY <2>5, <2>6
<1>7. CASE ~(gone # {} /\ down.refs <= 0)
  <2>1. Disconnect(L, D) = down
      BY <1>7, Zenon DEF Disconnect, n, gone
  <2>2. down.umb = "closed" <=> down.refs = 0
    <3> HIDE DEF down
    <3> QED
        BY <1>7, <1>5, <1>4, <1>1, <1>3
  <2>3. down \in Sound(s)
    <3> HIDE DEF down
    <3> QED
        BY <2>2, <1>2, <1>3, <1>5 DEF Sound
  <2> QED
      BY <2>1, <2>3
<1> QED
    BY <1>6, <1>7

-----------------------------------------------------------------------------
(* Stopping and launching processes, and the restarts.                     *)

\* Updates of the processes that StageZero runs for the subsystem.
LEMMA InstancesSound ==
    ASSUME NEW s \in Subsystem, NEW L \in Sound(s),
           NEW live \in [Process -> {"none", "starting", "up"}],
           NEW others \in [Process -> [Phase -> Nat]],
           NEW tries \in [Process -> Nat],
           NEW exit \in [Process -> {"unset", "launched", "ok", "fail"}]
    PROVE  /\ [L EXCEPT !.live = live] \in Sound(s)
           /\ [L EXCEPT !.others = others] \in Sound(s)
           /\ [L EXCEPT !.live = live, !.others = others] \in Sound(s)
           /\ [L EXCEPT !.tries = tries, !.live = live, !.others = others] \in Sound(s)
           /\ [L EXCEPT !.exit = exit, !.live = live, !.others = others] \in Sound(s)
<1>1. [L EXCEPT !.live = live] \in Sound(s)
    BY Zenon DEF Local, Sound
<1>2. [L EXCEPT !.others = others] \in Sound(s)
    BY Zenon DEF Local, Sound
<1>3. [L EXCEPT !.live = live, !.others = others] \in Sound(s)
    BY Zenon DEF Local, Sound
<1>4. [L EXCEPT !.tries = tries, !.live = live, !.others = others] \in Sound(s)
    BY Zenon DEF Local, Sound
<1>5. [L EXCEPT !.exit = exit, !.live = live, !.others = others] \in Sound(s)
    BY Zenon DEF Local, Sound
<1> QED
    BY <1>1, <1>2, <1>3, <1>4, <1>5

LEMMA OneMoreType ==
    ASSUME NEW n \in [Phase -> Nat], NEW f \in Phase
    PROVE  OneMore(n, f) \in [Phase -> Nat]
BY DEF OneMore

LEMMA StopSound ==
    ASSUME NEW s \in Subsystem, NEW L \in Sound(s), NEW D
    PROVE  Stop(L, D) \in Sound(s)
<1> DEFINE hit == {p \in D : L.live[p] # "none" /\ L.sock = "open"}
           tries == [p \in Process |-> IF p \in D THEN 0 ELSE L.tries[p]]
           live == [p \in Process |-> IF p \in hit THEN "none" ELSE L.live[p]]
           others == [p \in Process |->
                        IF p \in hit
                        THEN OneMore(L.others[p], Halted(L.live[p]))
                        ELSE L.others[p]]
           M == [L EXCEPT !.tries = tries, !.live = live, !.others = others]
<1>1. tries \in [Process -> Nat]
    BY Fields, SoundLocal
<1>2. live \in [Process -> {"none", "starting", "up"}]
    BY Fields, SoundLocal
<1>3. others \in [Process -> [Phase -> Nat]]
  <2>1. \A f : Halted(f) \in Phase
      BY DEF Halted, Phase
  <2>2. \A p \in Process : L.others[p] \in [Phase -> Nat]
      BY Fields, SoundLocal
  <2>3. \A p \in Process :
           OneMore(L.others[p], Halted(L.live[p])) \in [Phase -> Nat]
      BY <2>1, <2>2, OneMoreType
  <2> QED
      BY <2>2, <2>3
<1>4. Stop(L, D) = IF D # {} /\ L.sock = "eof" THEN CloseSocket(M) ELSE M
    BY Zenon DEF Stop
<1> HIDE DEF tries, live, others
<1>5. M \in Sound(s)
    BY <1>1, <1>2, <1>3, Fields, SoundLocal, InstancesSound
<1> QED
    BY <1>4, <1>5, CloseSocketSound, Zenon

LEMMA StopProcessesSound ==
    ASSUME NEW s \in Subsystem, NEW L \in Sound(s)
    PROVE  StopProcesses(s, L) \in Sound(s)
BY DisconnectSound, StopSound, Zenon DEF StopProcesses

LEMMA LaunchSound ==
    ASSUME NEW s \in Subsystem, NEW L \in Sound(s), NEW D
    PROVE  Launch(L, D) \in Sound(s)
<1> DEFINE exit == [p \in Process |-> IF p \in D THEN "launched" ELSE L.exit[p]]
           live == [p \in Process |-> IF p \in D THEN "starting" ELSE L.live[p]]
           others == [p \in Process |->
                        IF p \in D /\ L.live[p] # "none"
                        THEN OneMore(L.others[p], L.live[p])
                        ELSE L.others[p]]
<1>1. exit \in [Process -> {"unset", "launched", "ok", "fail"}]
    BY Fields, SoundLocal
<1>2. live \in [Process -> {"none", "starting", "up"}]
    BY Fields, SoundLocal
<1>3. others \in [Process -> [Phase -> Nat]]
  <2>1. \A p \in Process : L.live[p] # "none" => L.live[p] \in Phase
      BY Fields, SoundLocal DEF Phase
  <2>2. \A p \in Process : L.others[p] \in [Phase -> Nat]
      BY Fields, SoundLocal
  <2>3. \A p \in Process : L.live[p] # "none" =>
           OneMore(L.others[p], L.live[p]) \in [Phase -> Nat]
      BY <2>1, <2>2, OneMoreType
  <2> QED
      BY <2>2, <2>3
<1>4. Launch(L, D) = [L EXCEPT !.exit = exit, !.live = live, !.others = others]
    BY Zenon DEF Launch
<1>5. L.tries \in [Process -> Nat]
    BY Fields, SoundLocal
<1> HIDE DEF exit, live, others
<1>6. [L EXCEPT !.exit = exit, !.live = live, !.others = others] \in Sound(s)
    BY <1>1, <1>2, <1>3, <1>5, InstancesSound
<1> QED
    BY <1>4, <1>6, Zenon

LEMMA RestartIfPossibleSound ==
    ASSUME NEW s \in Subsystem, NEW L \in Sound(s), NEW i \in Slot
    PROVE  RestartIfPossible(L, i) \in Sound(s)
<1>1. L.restarts + 1 \in Nat
    BY Fields, SoundLocal
<1>2. [L.co[i] EXCEPT !.at = "nap"] \in Coroutine
    BY SoundLocal, CoroutineFields, Zenon DEF Coroutine
<1>3. [L.co EXCEPT ![i].at = "nap"] \in [Slot -> Coroutine]
    BY <1>2, Fields, SoundLocal
<1>4. [L EXCEPT !.restarts = @ + 1, !.co[i].at = "nap"] \in Sound(s)
    BY <1>1, <1>3, Zenon DEF Local, Sound
<1>5. EnterState(L, i, "Broken", L.co[i].cid) \in Sound(s)
    BY EnterStateSound, CoroutineFields, SoundLocal DEF OperState
<1> QED
    BY <1>4, <1>5, Zenon DEF RestartIfPossible

LEMMA AfterCrashSound ==
    ASSUME NEW s \in Subsystem, NEW L \in Sound(s), NEW i \in Slot,
           NEW p \in Process, NEW how
    PROVE  AfterCrash(s, i, L, p, how) \in Sound(s)
<1> DEFINE c == L.co[i].cid
           M == SetStopped(L, p)
           A == [M EXCEPT !.alarm = @ \cup {p}]
<1>1. M \in Sound(s)
    BY SetRunningSound
<1>2. c \in ClientId
    BY CoroutineFields, SoundLocal
<1> HIDE DEF M, c
<1>3. A \in Sound(s)
  <2>1. M.alarm \cup {p} \in SUBSET Process
      BY <1>1, Fields, SoundLocal
  <2> QED
      BY <1>1, <2>1, FieldSound
<1> HIDE DEF A
<1>4. /\ EnterState(A, i, "Broken", c) \in Sound(s)
      /\ EnterState(A, i, "Degraded", c) \in Sound(s)
    BY <1>2, <1>3, EnterStateSound DEF OperState
<1>5. [A EXCEPT !.tries[p] = @ + 1, !.timers = @ + 1] \in Sound(s)
  <2>1. [A.tries EXCEPT ![p] = @ + 1] \in [Process -> Nat] /\ A.timers + 1 \in Nat
      BY <1>3, Fields, SoundLocal
  <2> QED
      BY <1>3, <2>1, Zenon DEF Local, Sound
<1>6. [A EXCEPT !.restarts = @ + 1, !.co[i].at = "wait"] \in Sound(s)
  <2>1. A.restarts + 1 \in Nat
      BY <1>3, Fields, SoundLocal
  <2>2. [A.co[i] EXCEPT !.at = "wait"] \in Coroutine
      BY <1>3, SoundLocal, CoroutineFields, ZenonT(40) DEF Coroutine
  <2>3. [A.co EXCEPT ![i].at = "wait"] \in [Slot -> Coroutine]
      BY <2>2, <1>3, Fields, SoundLocal
  <2> QED
      BY <1>3, <2>1, <2>3, Zenon DEF Local, Sound
<1> QED
    BY <1>1, <1>4, <1>5, <1>6, Zenon DEF AfterCrash, A, M, c

LEMMA AbortSubsystemSound ==
    ASSUME NEW s \in Subsystem, NEW L \in Sound(s), NEW i \in Slot, NEW m
    PROVE  AbortSubsystem(s, L, i, m) \in Sound(s)
<1>1. {} \in SUBSET Client /\ {} \in SUBSET Process /\ "Offline" \in AdminState
      /\ "Offline" \in OperState /\ NoClient \in ClientId
    BY DEF AdminState, OperState, ClientId
<1>2. [L EXCEPT !.admin = "Offline", !.active = {}, !.running = {}] \in Sound(s)
    BY <1>1, Zenon DEF Local, Sound
<1> QED
    BY <1>1, <1>2, EnterStateSound, Zenon DEF AbortSubsystem

-----------------------------------------------------------------------------
(* Messages and pipes.                                                     *)

LEMMA MessageFields ==
    ASSUME NEW m \in Message
    PROVE  /\ m.client \in ClientId /\ m.state \in OperState
           /\ m.procs \in SUBSET Process
           /\ m.code = "ReportOper" => m.from \in Subsystem
BY DEF Message

\* The messages that subsystems, clients and timers send.
LEMMA MessageTypes ==
    ASSUME NEW c \in ClientId, NEW st \in OperState
    PROVE  /\ \A s \in Subsystem \cup {Nobody} : ChangeAdmin(s, c, st) \in Message
           /\ \A s \in Subsystem : ReportOper(s, st) \in Message
           /\ \A D \in SUBSET Process, code \in {"Abort", "EmergencyAbort", "Restart",
                                              "RestartProcesses", "RestartCrashed"} :
                 Order(code, c, D) \in Message
BY DEF Message, ChangeAdmin, ReportOper, Order, ClientId, OperState

LEMMA TakeType ==
    ASSUME pipe \in Pipes, NEW s \in Subsystem, pipe[s] # <<>>
    PROVE  Take(s) \in Pipes /\ Head(pipe[s]) \in Message
<1>1. pipe[s] \in Seq(Message)
    BY DEF Pipes
<1>2. Head(pipe[s]) \in Message /\ Tail(pipe[s]) \in Seq(Message)
    BY <1>1
<1> QED
    BY <1>2 DEF Take, Pipes

LEMMA AppendType ==
    ASSUME NEW P \in Pipes, NEW s \in Subsystem, NEW m \in Message
    PROVE  Append(P[s], m) \in Seq(Message)
<1>1. P[s] \in Seq(Message)
    BY DEF Pipes
<1> QED
    BY <1>1

LEMMA NotifyParentsType ==
    ASSUME NEW P \in Pipes, NEW s \in Subsystem, NEW st \in OperState
    PROVE  NotifyParents(P, s, st) \in Pipes
<1>1. ReportOper(s, st) \in Message
    BY MessageTypes DEF ClientId
<1>2. \A t \in Subsystem : Append(P[t], ReportOper(s, st)) \in Seq(Message)
    BY <1>1, AppendType
<1>3. \A t \in Subsystem : P[t] \in Seq(Message)
    BY DEF Pipes
<1> QED
    BY <1>2, <1>3 DEF NotifyParents, Pipes

LEMMA SendToChildrenType ==
    ASSUME NEW P \in Pipes, NEW s \in Subsystem, NEW st \in OperState, NEW c \in ClientId
    PROVE  SendToChildren(P, s, st, c) \in Pipes
<1>1. ChangeAdmin(s, c, st) \in Message
    BY MessageTypes
<1>2. \A t \in Subsystem : Append(P[t], ChangeAdmin(s, c, st)) \in Seq(Message)
    BY <1>1, AppendType
<1>3. \A t \in Subsystem : P[t] \in Seq(Message)
    BY DEF Pipes
<1> QED
    BY <1>2, <1>3 DEF SendToChildren, Pipes

LEMMA BitsType ==
    ASSUME NEW c \in ClientId
    PROVE  Bits(c) \in SUBSET Client
BY DEF Bits, ClientId

LEMMA SetClientSound ==
    ASSUME NEW s \in Subsystem, NEW L \in Sound(s), NEW m \in Message
    PROVE  SetClient(L, m) \in Sound(s)
<1>1. Bits(m.client) \in SUBSET Client
    BY MessageFields, BitsType
<1>2. L.active \cup Bits(m.client) \in SUBSET Client
      /\ L.active \ Bits(m.client) \in SUBSET Client
    BY <1>1, Fields, SoundLocal
<1> QED
    BY <1>2, FieldSound DEF SetClient

LEMMA HandleAdminCommandSound ==
    ASSUME NEW s \in Subsystem, NEW L \in Sound(s), NEW P \in Pipes,
           NEW m \in Message, NEW a \in OperState, NEW b \in OperState
    PROVE  /\ HandleAdminCommand(s, L, P, m, a, b).sub \in Sound(s)
           /\ HandleAdminCommand(s, L, P, m, a, b).next \in OperState
           /\ HandleAdminCommand(s, L, P, m, a, b).pipe \in Pipes
<1> DEFINE M == SetClient(L, m)
<1>1. M \in Sound(s)
    BY SetClientSound
<1>2. NotifyParents(P, s, M.oper) \in Pipes
    BY <1>1, Fields, SoundLocal, NotifyParentsType
<1> HIDE DEF M
<1> QED
    BY <1>1, <1>2, Zenon DEF HandleAdminCommand, M

LEMMA AdoptSound ==
    ASSUME NEW s \in Subsystem, NEW i \in Slot, NEW m \in Message, NEW stop,
           NEW H, H.sub \in Sound(s), H.next \in OperState
    PROVE  /\ Adopt(H, i, m, stop) \in Sound(s)
           /\ [H.sub EXCEPT !.co[i].next = H.next, !.co[i].cid = m.client] \in Sound(s)
<1> DEFINE L == H.sub
           M == [L EXCEPT !.co[i].next = H.next, !.co[i].cid = m.client]
           a == IF H.next = stop THEN "Offline" ELSE L.admin
           co == [L.co EXCEPT ![i].next = H.next, ![i].cid = m.client]
<1>1. M \in Sound(s)
    BY CoroutineSound, MessageFields
<1>2. a \in AdminState
    BY Fields, SoundLocal DEF AdminState
<1>3. co \in [Slot -> Coroutine]
  <2>1. [L.co[i] EXCEPT !.next = H.next, !.cid = m.client] \in Coroutine
    <3>1. L.co[i] \in Coroutine
        BY SoundLocal, CoroutineFields
    <3>2. m.client \in ClientId
        BY MessageFields
    <3> HIDE DEF L
    <3> QED
        BY <3>1, <3>2, ZenonT(40) DEF Coroutine
  <2>2. L.co \in [Slot -> Coroutine]
      BY Fields, SoundLocal
  <2> HIDE DEF L
  <2> QED
      BY <2>1, <2>2, Redirected, ZenonT(40)
<1>4. Adopt(H, i, m, stop) = [L EXCEPT !.co = co, !.admin = a]
    BY ZenonT(40) DEF Adopt
<1> HIDE DEF a, co
<1>5. [L EXCEPT !.co = co, !.admin = a] \in Sound(s)
    BY <1>2, <1>3, Zenon DEF Local, Sound
<1> QED
    BY <1>1, <1>4, <1>5, Zenon

-----------------------------------------------------------------------------
(* The ways to end a step keep the invariant.                              *)

LEMMA Unpack ==
    ASSUME IInv
    PROVE  /\ pipe \in Pipes
           /\ \A s \in Subsystem : sub[s] \in Sound(s)
           /\ emergency \in BOOLEAN
           /\ abort \in [asked : Nat, waiting : [BOOLEAN -> Nat]]
           /\ spent \in [commands : Nat, crashes : Nat, drops : Nat, aborts : Nat]
BY DEF IInv, TypeOK, RefsCountConnections, Pipes, Sound

LEMMA Pack ==
    ASSUME pipe' \in Pipes,
           sub' \in [Subsystem -> Local],
           \A s \in Subsystem : sub'[s] \in Sound(s),
           emergency' \in BOOLEAN,
           abort' \in [asked : Nat, waiting : [BOOLEAN -> Nat]],
           spent' \in [commands : Nat, crashes : Nat, drops : Nat, aborts : Nat]
    PROVE  IInv'
BY DEF IInv, TypeOK, RefsCountConnections, Pipes, Sound

LEMMA PutInv ==
    ASSUME IInv, NEW s \in Subsystem, NEW L \in Sound(s), NEW P \in Pipes,
           Put(s, L, P),
           emergency' \in BOOLEAN,
           abort' \in [asked : Nat, waiting : [BOOLEAN -> Nat]],
           spent' \in [commands : Nat, crashes : Nat, drops : Nat, aborts : Nat]
    PROVE  IInv'
<1>1. sub \in [Subsystem -> Local] /\ L \in Local
    BY SoundLocal DEF IInv, TypeOK
<1>2. sub' \in [Subsystem -> Local]
    BY <1>1 DEF Put
<1>3. ASSUME NEW t \in Subsystem PROVE sub'[t] \in Sound(t)
    BY <1>1, Unpack DEF Put
<1>4. pipe' \in Pipes
    BY DEF Put
<1> QED
    BY <1>2, <1>3, <1>4, Pack

LEMMA SetInv ==
    ASSUME IInv, NEW s \in Subsystem, NEW L \in Sound(s), NEW P \in Pipes, Set(s, L, P)
    PROVE  IInv'
<1>1. /\ emergency' = emergency /\ abort' = abort /\ spent' = spent
      /\ Put(s, L, P)
    BY DEF Set
<1> QED
    BY <1>1, Unpack, PutInv

LEMMA GotoInv ==
    ASSUME IInv, NEW s \in Subsystem, NEW i \in Slot, NEW L \in Sound(s), NEW P \in Pipes,
           NEW st \in OperState, NEW c \in ClientId, Goto(s, i, L, P, st, c)
    PROVE  IInv'
BY EnterStateSound, SetInv DEF Goto

LEMMA NotifyAndRunInv ==
    ASSUME IInv, NEW s \in Subsystem, NEW i \in Slot, NEW L \in Sound(s),
           NEW st \in OperState, NotifyAndRun(s, i, L, st)
    PROVE  IInv'
<1>1. RunIn(L, i, st) \in Sound(s)
    BY RunInSound
<1>2. NotifyParents(pipe, s, L.oper) \in Pipes
    BY Unpack, NotifyParentsType, Fields, SoundLocal
<1> QED
    BY <1>1, <1>2, SetInv DEF NotifyAndRun

LEMMA RestartNowInv ==
    ASSUME IInv, NEW s \in Subsystem, NEW i \in Slot, NEW L \in Sound(s), NEW P \in Pipes,
           NEW c \in ClientId, RestartNow(s, i, L, P, c)
    PROVE  IInv'
<1>1. "Online" \in OperState /\ "StartingChildren" \in OperState
    BY DEF OperState
<1>2. SendToChildren(P, s, "Online", c) \in Pipes
    BY <1>1, SendToChildrenType
<1> QED
    BY <1>1, <1>2, GotoInv DEF RestartNow

LEMMA CrashInv ==
    ASSUME IInv, NEW s \in Subsystem, NEW i \in Slot, NEW L \in Sound(s), NEW P \in Pipes,
           NEW p \in Process, NEW how, Crash(s, i, L, P, p, how)
    PROVE  IInv'
<1>1. CASE Set(s, L, P)
    BY <1>1, SetInv
<1>2. CASE Set(s, AfterCrash(s, i, L, p, how), P)
    BY <1>2, AfterCrashSound, SetInv
<1>3. CASE Put(s, L, P) /\ abort' = [abort EXCEPT !.asked = @ + 1]
           /\ UNCHANGED <<emergency, spent>>
  <2>1. abort' \in [asked : Nat, waiting : [BOOLEAN -> Nat]]
      BY <1>3, Unpack
  <2> QED
      BY <1>3, <2>1, Unpack, PutInv
<1> QED
    BY <1>1, <1>2, <1>3, Zenon DEF Crash

\* What the handlers of a state do after their switch.
LEMMA TailsInv ==
    ASSUME IInv, NEW s \in Subsystem, NEW i \in Slot, NEW L \in Sound(s), NEW P \in Pipes
    PROVE  /\ StartingChildrenTail(s, i, L, P) => IInv'
           /\ ConnectingTail(s, i, L, P) => IInv'
           /\ StartingProcessesTail(s, i, L, P) => IInv'
           /\ StoppingProcessesTail(s, i, L, P) => IInv'
           /\ StoppingChildrenTail(s, i, L, P) => IInv'
           /\ RestartingTail(s, i, L, P) => IInv'
           /\ RestartingProcessesTail(s, i, L, P) => IInv'
<1> DEFINE c == L.co[i].cid
           next == L.co[i].next
<1>1. c \in ClientId /\ next \in OperState /\ L.oper \in OperState
    BY CoroutineFields, Fields, SoundLocal
<1>2. {"Offline", "Online", "Connecting", "StartingProcesses"} \subseteq OperState
    BY DEF OperState
<1> HIDE DEF c, next
<1>3. /\ SendToChildren(P, s, "Online", c) \in Pipes
      /\ SendToChildren(P, s, "Offline", c) \in Pipes
      /\ NotifyParents(P, s, L.oper) \in Pipes
    BY <1>1, <1>2, SendToChildrenType, NotifyParentsType
<1>4. StartingChildrenTail(s, i, L, P) => IInv'
    BY <1>1, <1>2, SetInv, GotoInv DEF StartingChildrenTail, c, next
<1>5. ConnectingTail(s, i, L, P) => IInv'
    BY <1>1, <1>2, <1>3, SetInv, GotoInv DEF ConnectingTail, c
<1>6. StartingProcessesTail(s, i, L, P) => IInv'
    BY <1>1, SetInv, GotoInv DEF StartingProcessesTail, c, next
<1>7. StoppingProcessesTail(s, i, L, P) => IInv'
    BY <1>1, <1>3, SetInv, GotoInv DEF StoppingProcessesTail, c, next
<1>8. StoppingChildrenTail(s, i, L, P) => IInv'
    BY <1>1, <1>3, SetInv, GotoInv DEF StoppingChildrenTail, c, next
<1>9. RestartingTail(s, i, L, P) => IInv'
    BY <1>1, <1>3, SetInv, RestartNowInv DEF RestartingTail, c
<1>10. RestartingProcessesTail(s, i, L, P) => IInv'
    BY <1>1, <1>2, SetInv, GotoInv DEF RestartingProcessesTail, c
<1> QED
    BY <1>4, <1>5, <1>6, <1>7, <1>8, <1>9, <1>10

-----------------------------------------------------------------------------
(* The prologues of the states.                                            *)

\* The client and the next state of a coroutine, and the states that the
\* actions name.
LEMMA Context ==
    ASSUME IInv, NEW s \in Subsystem, NEW i \in Slot
    PROVE  /\ sub[s] \in Sound(s) /\ pipe \in Pipes
           /\ sub[s].co[i].cid \in ClientId /\ sub[s].co[i].next \in OperState
           /\ sub[s].co[i].state \in OperState
           /\ sub[s].oper \in OperState
           /\ NotifyParents(pipe, s, sub[s].oper) \in Pipes
BY Unpack, SoundLocal, CoroutineFields, Fields, NotifyParentsType

LEMMA States == /\ AdminState \subseteq OperState
                /\ {"StartingChildren", "Connecting", "StartingProcesses",
                    "StoppingProcesses", "StoppingChildren", "Restarting",
                    "RestartingProcesses", "Broken", "Degraded"} \subseteq OperState
                /\ {"Offline", "Online"} \subseteq AdminState
                /\ NoClient \in ClientId
BY DEF AdminState, OperState, ClientId

LEMMA EnterOfflineInv ==
    ASSUME IInv, NEW s \in Subsystem, NEW i \in Slot, EnterOffline(s, i)
    PROVE  IInv'
<1> DEFINE K == [sub[s] EXCEPT !.restarts = 0]
           L == Disconnect(K, Processes[s])
<1>1. K \in Sound(s)
    BY Context, FieldSound
<1> HIDE DEF K
<1>2. ResetProcessRestarts(L) \in Sound(s)
    BY <1>1, DisconnectSound, ResetSound
<1>3. NotifyAndRun(s, i, ResetProcessRestarts(L), "Offline")
    BY DEF EnterOffline, K
<1> QED
    BY <1>2, <1>3, States, NotifyAndRunInv

LEMMA EnterStartingChildrenInv ==
    ASSUME IInv, NEW s \in Subsystem, NEW i \in Slot, EnterStartingChildren(s, i)
    PROVE  IInv'
BY Context, States, GotoInv, NotifyAndRunInv DEF EnterStartingChildren

LEMMA EnterConnectingInv ==
    ASSUME IInv, NEW s \in Subsystem, NEW i \in Slot, EnterConnecting(s, i)
    PROVE  IInv'
<1> DEFINE K == [sub[s] EXCEPT !.oper = "Connecting"]
           L == Connect(s, K)
<1>1. K \in Sound(s)
    BY Context, FieldSound, States
<1> HIDE DEF K
<1>2. L \in Sound(s) /\ L.co[i].cid \in ClientId
    BY <1>1, ConnectSound, CoroutineFields, SoundLocal
<1> HIDE DEF L
<1>3. Goto(s, i, L, pipe, "StartingProcesses", L.co[i].cid)
      \/ NotifyAndRun(s, i, L, "Connecting")
    BY Zenon DEF EnterConnecting, L, K
<1> QED
    BY <1>2, <1>3, Context, States, GotoInv, NotifyAndRunInv

LEMMA EnterStartingProcessesInv ==
    ASSUME IInv, NEW s \in Subsystem, NEW i \in Slot, EnterStartingProcesses(s, i)
    PROVE  IInv'
<1> DEFINE L == [sub[s] EXCEPT !.oper = "StartingProcesses"]
           D == ToLaunch(s)
           o == IF L.admin = "Offline" THEN "Offline" ELSE "Online"
<1>1. L \in Sound(s)
    BY Context, FieldSound, States
<1>2. o \in OperState /\ o \in AdminState
    BY States
<1>3. \/ Goto(s, i, L, NotifyParents(pipe, s, o), o, L.co[i].cid)
      \/ NotifyAndRun(s, i, Launch(L, D), "Online")
      \/ NotifyAndRun(s, i, CloseSocket(Launch(L, D)), "Online")
      \/ Set(s, RestartIfPossible(CloseSocket(L), i), pipe)
    BY Zenon DEF EnterStartingProcesses
<1> HIDE DEF L, D, o
<1>4. L.co[i].cid \in ClientId /\ NotifyParents(pipe, s, o) \in Pipes
    BY <1>1, <1>2, Context, CoroutineFields, SoundLocal, NotifyParentsType
<1>5. Launch(L, D) \in Sound(s) /\ CloseSocket(Launch(L, D)) \in Sound(s)
    BY <1>1, LaunchSound, CloseSocketSound
<1>6. RestartIfPossible(CloseSocket(L), i) \in Sound(s)
    BY <1>1, CloseSocketSound, RestartIfPossibleSound
<1>7. CASE Goto(s, i, L, NotifyParents(pipe, s, o), o, L.co[i].cid)
    BY <1>7, <1>1, <1>2, <1>4, GotoInv
<1>8. CASE \/ NotifyAndRun(s, i, Launch(L, D), "Online")
           \/ NotifyAndRun(s, i, CloseSocket(Launch(L, D)), "Online")
    BY <1>8, <1>5, States, NotifyAndRunInv
<1>9. CASE Set(s, RestartIfPossible(CloseSocket(L), i), pipe)
    BY <1>9, <1>6, Context, SetInv
<1> QED
    BY <1>3, <1>7, <1>8, <1>9

LEMMA LaunchFailsInv ==
    ASSUME IInv, NEW s \in Subsystem, NEW i \in Slot, LaunchFails(s, i)
    PROVE  IInv'
<1> DEFINE L == [sub[s] EXCEPT !.oper = "StartingProcesses"]
<1>1. L \in Sound(s)
    BY Context, FieldSound, States
<1>2. PICK K : Put(s, RestartIfPossible(Launch(L, K), i), pipe)
    BY Zenon DEF LaunchFails
<1> HIDE DEF L
<1>3. RestartIfPossible(Launch(L, K), i) \in Sound(s)
    BY <1>1, LaunchSound, RestartIfPossibleSound
<1>4. /\ emergency' = emergency /\ abort' = abort
      /\ spent' = [spent EXCEPT !.crashes = @ + 1]
    BY DEF LaunchFails
<1>5. spent' \in [commands : Nat, crashes : Nat, drops : Nat, aborts : Nat]
    BY <1>4, Unpack
<1> QED
    BY <1>2, <1>3, <1>4, <1>5, Unpack, PutInv

LEMMA EnterStoppingProcessesInv ==
    ASSUME IInv, NEW s \in Subsystem, NEW i \in Slot, EnterStoppingProcesses(s, i)
    PROVE  IInv'
<1>1. SendToChildren(pipe, s, "Offline", sub[s].co[i].cid) \in Pipes
    BY Context, States, SendToChildrenType
<1>2. StopProcesses(s, sub[s]) \in Sound(s)
    BY Context, StopProcessesSound
<1> QED
    BY <1>1, <1>2, Context, States, GotoInv, NotifyAndRunInv DEF EnterStoppingProcesses

LEMMA EnterStoppingChildrenInv ==
    ASSUME IInv, NEW s \in Subsystem, NEW i \in Slot, EnterStoppingChildren(s, i)
    PROVE  IInv'
<1>1. {sub[s].co[i].cid} \in SUBSET ClientId
    BY Context
<1>2. [sub[s] EXCEPT !.co[i].off = {sub[s].co[i].cid}] \in Sound(s)
    BY <1>1, Context, CoroutineSound
<1> QED
    BY <1>2, Context, States, GotoInv, NotifyAndRunInv DEF EnterStoppingChildren

LEMMA EnterRestartingInv ==
    ASSUME IInv, NEW s \in Subsystem, NEW i \in Slot,
           EnterRestarting(s, i) \/ EnterRestartingProcesses(s, i)
    PROVE  IInv'
<1>1. /\ RunIn(StopProcesses(s, sub[s]), i, "Restarting") \in Sound(s)
      /\ RunIn(sub[s], i, "RestartingProcesses") \in Sound(s)
    BY Context, States, StopProcessesSound, RunInSound
<1>2. CASE EnterRestarting(s, i)
    BY <1>1, <1>2, Context, States, SetInv, RestartNowInv DEF EnterRestarting
<1>3. CASE EnterRestartingProcesses(s, i)
    BY <1>1, <1>3, Context, States, SetInv, GotoInv DEF EnterRestartingProcesses
<1> QED
    BY <1>2, <1>3

LEMMA PrologueInv ==
    ASSUME IInv, NEW s \in Subsystem, NEW i \in Slot, Prologue(s, i)
    PROVE  IInv'
<1>1. CASE EnterOnline(s, i)
    BY <1>1, Context, States, NotifyAndRunInv DEF EnterOnline
<1>2. CASE EnterBroken(s, i)
    BY <1>2, Context, NotifyAndRunInv DEF EnterBroken
<1> QED
    BY <1>1, <1>2, EnterOfflineInv, EnterStartingChildrenInv, EnterConnectingInv,
       EnterStartingProcessesInv, EnterStoppingProcessesInv, EnterStoppingChildrenInv,
       EnterRestartingInv DEF Prologue

-----------------------------------------------------------------------------
(* The messages.                                                           *)

\* What a step that reads a message can rely on.
LEMMA Reading ==
    ASSUME IInv, NEW s \in Subsystem, pipe[s] # <<>>
    PROVE  /\ Head(pipe[s]) \in Message
           /\ Head(pipe[s]).client \in ClientId /\ Head(pipe[s]).state \in OperState
           /\ Take(s) \in Pipes
           /\ NotifyParents(Take(s), s, sub[s].oper) \in Pipes
BY Unpack, TakeType, MessageFields, NotifyParentsType, Fields, SoundLocal

LEMMA GetsAbortInv ==
    ASSUME IInv, NEW s \in Subsystem, NEW i \in Slot,
           GetsAbort(s, i) \/ GetsRestart(s, i) \/ GetsIgnored(s, i)
    PROVE  IInv'
<1>1. pipe[s] # <<>>
    BY DEF GetsAbort, GetsRestart, GetsIgnored, Receives
<1>2. CASE GetsAbort(s, i)
    BY <1>1, <1>2, Context, Reading, AbortSubsystemSound, SetInv DEF GetsAbort
<1>3. CASE GetsRestart(s, i)
    BY <1>1, <1>3, Context, Reading, States, GotoInv DEF GetsRestart
<1>4. CASE GetsIgnored(s, i)
    BY <1>1, <1>4, Context, Reading, SetInv DEF GetsIgnored
<1> QED
    BY <1>2, <1>3, <1>4

LEMMA OfflineInv ==
    ASSUME IInv, NEW s \in Subsystem, NEW i \in Slot,
           OfflineChangeAdmin(s, i) \/ OfflineReportOper(s, i)
    PROVE  IInv'
<1> DEFINE m == Head(pipe[s])
           H == HandleAdminCommand(s, sub[s], Take(s), m, "StartingChildren", "Offline")
           M == [H.sub EXCEPT !.interactive = m.from = Nobody /\ m.client \in Interactive]
           N == [M EXCEPT !.admin = "Online"]
           P == SendToChildren(H.pipe, s, "Online", m.client)
<1>1. pipe[s] # <<>>
    BY DEF OfflineChangeAdmin, OfflineReportOper, Receives
<1>2. m \in Message /\ m.client \in ClientId
    BY <1>1, Reading
<1>3. H.sub \in Sound(s) /\ H.pipe \in Pipes
    BY <1>1, <1>2, Context, Reading, States, HandleAdminCommandSound
<1>4. P \in Pipes
    BY <1>2, <1>3, States, SendToChildrenType
<1>5. M \in Sound(s)
  <2>1. (m.from = Nobody /\ m.client \in Interactive) \in BOOLEAN
      OBVIOUS
  <2> HIDE DEF H, m
  <2> QED
      BY <2>1, <1>3, FieldSound, Zenon
<1>6. N \in Sound(s)
  <2> HIDE DEF M
  <2> QED
      BY <1>5, FieldSound, States
<1>7. CASE OfflineChangeAdmin(s, i)
  <2>1. \/ Set(s, sub[s], NotifyParents(Take(s), s, sub[s].oper))
        \/ Set(s, M, H.pipe)
        \/ Goto(s, i, N, P, "StartingChildren", NoClient)
      BY <1>7, Zenon DEF OfflineChangeAdmin
  <2> HIDE DEF H, M, N, P
  <2> QED
      BY <2>1, <1>1, <1>3, <1>4, <1>5, <1>6, Context, Reading, States, SetInv, GotoInv
<1>8. CASE OfflineReportOper(s, i)
    BY <1>8, <1>1, Context, Reading, States, SetInv, GotoInv DEF OfflineReportOper
<1> QED
    BY <1>7, <1>8

\* A command that a state adopts and then forwards to its children.
LEMMA AdoptInv ==
    ASSUME IInv, NEW s \in Subsystem, NEW i \in Slot, pipe[s] # <<>>,
           NEW a \in OperState, NEW b \in OperState, NEW stop
    PROVE  LET m == Head(pipe[s])
               H == HandleAdminCommand(s, sub[s], Take(s), m, a, b)
           IN  /\ H.sub \in Sound(s) /\ H.pipe \in Pipes /\ H.next \in OperState
               /\ Adopt(H, i, m, stop) \in Sound(s)
               /\ [H.sub EXCEPT !.co[i].next = H.next, !.co[i].cid = m.client] \in Sound(s)
               /\ SendToChildren(H.pipe, s, m.state, m.client) \in Pipes
<1> DEFINE m == Head(pipe[s])
           H == HandleAdminCommand(s, sub[s], Take(s), m, a, b)
<1>1. m \in Message /\ m.client \in ClientId /\ m.state \in OperState
    BY Reading
<1>2. H.sub \in Sound(s) /\ H.pipe \in Pipes /\ H.next \in OperState
    BY <1>1, Context, Reading, HandleAdminCommandSound
<1> HIDE DEF m, H
<1>3. /\ Adopt(H, i, m, stop) \in Sound(s)
      /\ [H.sub EXCEPT !.co[i].next = H.next, !.co[i].cid = m.client] \in Sound(s)
    BY <1>1, <1>2, AdoptSound
<1>4. SendToChildren(H.pipe, s, m.state, m.client) \in Pipes
    BY <1>1, <1>2, SendToChildrenType
<1> QED
    BY <1>2, <1>3, <1>4 DEF H, m

LEMMA StartingChildrenInv ==
    ASSUME IInv, NEW s \in Subsystem, NEW i \in Slot,
           StartingChildrenChangeAdmin(s, i) \/ StartingChildrenReportOper(s, i)
    PROVE  IInv'
<1>1. pipe[s] # <<>>
    BY DEF StartingChildrenChangeAdmin, StartingChildrenReportOper, Receives
<1>2. CASE StartingChildrenChangeAdmin(s, i)
    BY <1>1, <1>2, States, AdoptInv, TailsInv, Zenon DEF StartingChildrenChangeAdmin
<1>3. CASE StartingChildrenReportOper(s, i)
  <2> DEFINE L == sub[s]
             m == Head(pipe[s])
             K == [L EXCEPT !.co[i].told = @ \cup {m.from}]
  <2>1. m.code = "ReportOper"
      BY <1>3 DEF StartingChildrenReportOper, Receives
  <2>2. L.co[i].told \cup {m.from} \in SUBSET Subsystem
      BY <1>1, <2>1, Reading, MessageFields, Context, SoundLocal, CoroutineFields
  <2>3. K \in Sound(s)
      BY <2>2, Context, CoroutineSound
  <2>4. \/ Goto(s, i, L, Take(s), "Broken", L.co[i].cid)
        \/ StartingChildrenTail(s, i, K, NotifyParents(Take(s), s, L.oper))
        \/ StartingChildrenTail(s, i, L, NotifyParents(Take(s), s, L.oper))
      BY <1>3, Zenon DEF StartingChildrenReportOper
  <2> HIDE DEF K
  <2> QED
      BY <2>3, <2>4, <1>1, Context, Reading, States, GotoInv, TailsInv
<1> QED
    BY <1>2, <1>3

LEMMA ConnectingInv ==
    ASSUME IInv, NEW s \in Subsystem, NEW i \in Slot,
           ConnectingChangeAdmin(s, i) \/ ConnectingReportOper(s, i)
    PROVE  IInv'
<1>1. pipe[s] # <<>>
    BY DEF ConnectingChangeAdmin, ConnectingReportOper, Receives
<1>2. CASE ConnectingChangeAdmin(s, i)
  <2> DEFINE m == Head(pipe[s])
             H == HandleAdminCommand(s, sub[s], Take(s), m, "StoppingProcesses",
                                     "StoppingProcesses")
             K == [H.sub EXCEPT !.admin = "Offline"]
  <2>1. H.sub \in Sound(s) /\ H.pipe \in Pipes
      BY <1>1, States, AdoptInv, Zenon
  <2>2. \/ Goto(s, i, K, H.pipe, "StoppingProcesses", m.client)
        \/ ConnectingTail(s, i, sub[s], Take(s))
      BY <1>2, Zenon DEF ConnectingChangeAdmin
  <2> HIDE DEF H
  <2>3. K \in Sound(s)
      BY <2>1, FieldSound, States
  <2> HIDE DEF K
  <2> QED
      BY <2>1, <2>2, <2>3, <1>1, Context, Reading, States, GotoInv, TailsInv
<1>3. CASE ConnectingReportOper(s, i)
    BY <1>1, <1>3, Context, Reading, TailsInv DEF ConnectingReportOper
<1> QED
    BY <1>2, <1>3

LEMMA StartingProcessesInv ==
    ASSUME IInv, NEW s \in Subsystem, NEW i \in Slot,
           \/ StartingProcessesChangeAdmin(s, i)
           \/ StartingProcessesReportOper(s, i)
           \/ StartingProcessesRestartProcesses(s, i)
    PROVE  IInv'
<1>1. pipe[s] # <<>>
    BY DEF StartingProcessesChangeAdmin, StartingProcessesReportOper,
           StartingProcessesRestartProcesses, Receives
<1>2. CASE StartingProcessesChangeAdmin(s, i)
    BY <1>1, <1>2, States, AdoptInv, TailsInv, Zenon DEF StartingProcessesChangeAdmin
<1>3. CASE StartingProcessesReportOper(s, i)
    BY <1>1, <1>3, Context, Reading, TailsInv DEF StartingProcessesReportOper
<1>4. CASE StartingProcessesRestartProcesses(s, i)
    BY <1>1, <1>4, Context, Reading, States, GotoInv
       DEF StartingProcessesRestartProcesses
<1> QED
    BY <1>2, <1>3, <1>4

LEMMA OnlineInv ==
    ASSUME IInv, NEW s \in Subsystem, NEW i \in Slot,
           \/ OnlineChangeAdmin(s, i) \/ OnlineReportOper(s, i)
           \/ OnlineRestartProcesses(s, i) \/ OnlineRestartCrashed(s, i)
    PROVE  IInv'
<1>1. pipe[s] # <<>>
    BY DEF OnlineChangeAdmin, OnlineReportOper, OnlineRestartProcesses,
           OnlineRestartCrashed, Receives
<1>2. CASE OnlineChangeAdmin(s, i)
  <2> DEFINE m == Head(pipe[s])
             H == HandleAdminCommand(s, sub[s], Take(s), m, "Online", "StoppingProcesses")
             M == Adopt(H, i, m, "StoppingProcesses")
  <2>1. M \in Sound(s) /\ H.pipe \in Pipes
      BY <1>1, States, AdoptInv, Zenon
  <2>2. \/ Set(s, sub[s], NotifyParents(Take(s), s, sub[s].oper))
        \/ Set(s, M, H.pipe)
        \/ Goto(s, i, M, H.pipe, "StoppingProcesses", m.client)
      BY <1>2, Zenon DEF OnlineChangeAdmin
  <2> HIDE DEF H, M
  <2> QED
      BY <2>1, <2>2, <1>1, Context, Reading, States, SetInv, GotoInv
<1>3. CASE OnlineReportOper(s, i)
    BY <1>1, <1>3, Context, Reading, SetInv, GotoInv DEF OnlineReportOper
<1>4. CASE OnlineRestartProcesses(s, i)
  <2> DEFINE m == Head(pipe[s])
             A == StopProcesses(s, sub[s])
             B == Stop(sub[s], m.procs \cap sub[s].running)
  <2>1. [A EXCEPT !.todo = Processes[s]] \in Sound(s)
    <3>1. A \in Sound(s) /\ Processes[s] \in SUBSET Process
        BY Context, StopProcessesSound, Finite
    <3> HIDE DEF A
    <3> QED
        BY <3>1, FieldSound
  <2>2. [B EXCEPT !.todo = m.procs] \in Sound(s)
    <3>1. B \in Sound(s) /\ m.procs \in SUBSET Process
        BY <1>1, Context, StopSound, Reading, MessageFields
    <3> HIDE DEF B, m
    <3> QED
        BY <3>1, FieldSound
  <2>3. \/ Goto(s, i, [A EXCEPT !.todo = Processes[s]], Take(s), "RestartingProcesses",
                m.client)
        \/ Goto(s, i, [B EXCEPT !.todo = m.procs], Take(s), "RestartingProcesses",
                m.client)
      BY <1>4, Zenon DEF OnlineRestartProcesses
  <2> QED
      BY <2>1, <2>2, <2>3, <1>1, Reading, States, GotoInv, Zenon
<1>5. CASE OnlineRestartCrashed(s, i)
    BY <1>1, <1>5, Context, Reading, States, GotoInv DEF OnlineRestartCrashed
<1> QED
    BY <1>2, <1>3, <1>4, <1>5

LEMMA StoppingProcessesInv ==
    ASSUME IInv, NEW s \in Subsystem, NEW i \in Slot,
           StoppingProcessesChangeAdmin(s, i) \/ StoppingProcessesReportOper(s, i)
    PROVE  IInv'
<1>1. pipe[s] # <<>>
    BY DEF StoppingProcessesChangeAdmin, StoppingProcessesReportOper, Receives
<1>2. CASE StoppingProcessesChangeAdmin(s, i)
    BY <1>1, <1>2, States, AdoptInv, TailsInv, Zenon DEF StoppingProcessesChangeAdmin
<1>3. CASE StoppingProcessesReportOper(s, i)
    BY <1>1, <1>3, Context, Reading, TailsInv DEF StoppingProcessesReportOper
<1> QED
    BY <1>2, <1>3

LEMMA StoppingChildrenInv ==
    ASSUME IInv, NEW s \in Subsystem, NEW i \in Slot,
           StoppingChildrenChangeAdmin(s, i) \/ StoppingChildrenReportOper(s, i)
    PROVE  IInv'
<1> DEFINE m == Head(pipe[s])
<1>1. pipe[s] # <<>> /\ m \in Message /\ m.client \in ClientId
    BY Reading DEF StoppingChildrenChangeAdmin, StoppingChildrenReportOper, Receives
<1>2. CASE StoppingChildrenChangeAdmin(s, i)
  <2> DEFINE H == HandleAdminCommand(s, sub[s], Take(s), m, "StartingChildren", "Offline")
             K == [H.sub EXCEPT !.co[i].next = H.next, !.co[i].cid = m.client]
             off == IF m.state = "Offline" THEN H.sub.co[i].off \cup {m.client}
                    ELSE H.sub.co[i].off \ {m.client}
             f == [H.sub.co EXCEPT ![i].next = H.next, ![i].cid = m.client,
                                   ![i].off = off]
             M == [H.sub EXCEPT !.co = f]
  <2>1. H.sub \in Sound(s) /\ H.pipe \in Pipes /\ H.next \in OperState
      BY <1>1, States, AdoptInv, Zenon
  <2>2. StoppingChildrenTail(s, i, M, H.pipe)
      BY <1>2, ZenonT(40) DEF StoppingChildrenChangeAdmin
  <2> HIDE DEF H, m
  <2>3. M \in Sound(s)
    <3>1. off \in SUBSET ClientId
        BY <1>1, <2>1, SoundLocal, CoroutineFields
    <3> HIDE DEF off
    <3>2. [H.sub.co[i] EXCEPT !.next = H.next, !.cid = m.client, !.off = off] \in Coroutine
        BY <1>1, <2>1, <3>1, SoundLocal, CoroutineFields, ZenonT(60) DEF Coroutine
    <3>3. [H.sub.co EXCEPT
             ![i] = [H.sub.co[i] EXCEPT !.next = H.next, !.cid = m.client, !.off = off]]
               \in [Slot -> Coroutine]
        BY <2>1, <3>2, Fields, SoundLocal
    <3>4. f \in [Slot -> Coroutine]
        BY <2>1, <3>3, Fields, SoundLocal
    <3> HIDE DEF f
    <3> QED
        BY <2>1, <3>4, FieldSound
  <2> HIDE DEF M
  <2> QED
      BY <2>1, <2>2, <2>3, TailsInv
<1>3. CASE StoppingChildrenReportOper(s, i)
  <2> DEFINE L == sub[s]
             K == [L EXCEPT !.co[i].told = @ \cup {m.from}]
  <2>1. m.code = "ReportOper"
      BY <1>3 DEF StoppingChildrenReportOper, Receives
  <2>2. L.co[i].told \cup {m.from} \in SUBSET Subsystem
      BY <1>1, <2>1, MessageFields, Context, SoundLocal, CoroutineFields
  <2>3. K \in Sound(s)
      BY <2>2, Context, CoroutineSound
  <2>4. \/ StoppingChildrenTail(s, i, K, NotifyParents(Take(s), s, L.oper))
        \/ StoppingChildrenTail(s, i, L, NotifyParents(Take(s), s, L.oper))
      BY <1>3, Zenon DEF StoppingChildrenReportOper
  <2> HIDE DEF K, m
  <2> QED
      BY <2>3, <2>4, <1>1, Context, Reading, TailsInv
<1> QED
    BY <1>2, <1>3

LEMMA RestartingInv ==
    ASSUME IInv, NEW s \in Subsystem, NEW i \in Slot,
           \/ RestartingChangeAdmin(s, i) \/ RestartingReportOper(s, i)
           \/ RestartingProcessesChangeAdmin(s, i) \/ RestartingProcessesOther(s, i)
    PROVE  IInv'
<1>1. pipe[s] # <<>>
    BY DEF RestartingChangeAdmin, RestartingReportOper,
           RestartingProcessesChangeAdmin, RestartingProcessesOther, Receives
<1>2. CASE RestartingChangeAdmin(s, i)
    BY <1>1, <1>2, Context, Reading, RestartNowInv, TailsInv DEF RestartingChangeAdmin
<1>3. CASE RestartingReportOper(s, i)
    BY <1>1, <1>3, Context, Reading, TailsInv DEF RestartingReportOper
<1>4. CASE RestartingProcessesChangeAdmin(s, i)
    BY <1>1, <1>4, Context, Reading, States, GotoInv, TailsInv
       DEF RestartingProcessesChangeAdmin
<1>5. CASE RestartingProcessesOther(s, i)
    BY <1>1, <1>5, Context, Reading, TailsInv DEF RestartingProcessesOther
<1> QED
    BY <1>2, <1>3, <1>4, <1>5

LEMMA BrokenInv ==
    ASSUME IInv, NEW s \in Subsystem, NEW i \in Slot,
           BrokenCommand(s, i) \/ BrokenRestartProcesses(s, i)
    PROVE  IInv'
<1> DEFINE m == Head(pipe[s])
           c == sub[s].co[i].cid
           K == [sub[s] EXCEPT !.restarts = 0]
           L == ResetProcessRestarts(K)
           P == SendToChildren(Take(s), s, m.state, m.client)
           A == [L EXCEPT !.active = @ \cup Bits(c)]
           B == [L EXCEPT !.active = @ \ Bits(c), !.admin = "Offline"]
<1>1. pipe[s] # <<>>
    BY DEF BrokenCommand, BrokenRestartProcesses, Receives
<1>2. K \in Sound(s) /\ c \in ClientId
    BY Context, FieldSound
<1>3. P \in Pipes /\ Take(s) \in Pipes
    BY <1>1, Reading, SendToChildrenType
<1> HIDE DEF K, c, m
<1>4. L \in Sound(s)
    BY <1>2, ResetSound
<1> HIDE DEF L
<1>5. L.active \cup Bits(c) \in SUBSET Client /\ L.active \ Bits(c) \in SUBSET Client
    BY <1>2, <1>4, BitsType, Fields, SoundLocal
<1>6. A \in Sound(s) /\ B \in Sound(s)
  <2>1. A \in Sound(s)
      BY <1>4, <1>5, FieldSound
  <2>2. B \in Sound(s)
      BY <1>4, <1>5, States, Zenon DEF Local, Sound
  <2> QED
      BY <2>1, <2>2
<1>7. CASE BrokenCommand(s, i)
  <2>1. \/ Goto(s, i, A, P, "StartingChildren", c)
        \/ Goto(s, i, B, P, "StoppingChildren", c)
      BY <1>7, Zenon DEF BrokenCommand, L, K, c, m
  <2> HIDE DEF A, B
  <2> QED
      BY <2>1, <1>2, <1>3, <1>6, States, GotoInv
<1>8. CASE BrokenRestartProcesses(s, i)
  <2>1. Goto(s, i, A, Take(s), "Connecting", c)
      BY <1>8, Zenon DEF BrokenRestartProcesses, L, K, c
  <2> HIDE DEF A
  <2> QED
      BY <2>1, <1>2, <1>3, <1>6, States, GotoInv
<1> QED
    BY <1>7, <1>8

LEMMA WaitForRestartInv ==
    ASSUME IInv, NEW s \in Subsystem, NEW i \in Slot, WaitForRestartMessage(s, i)
    PROVE  IInv'
<1> DEFINE m == Head(pipe[s])
<1>1. pipe[s] # <<>>
    BY DEF WaitForRestartMessage
<1>2. \/ Goto(s, i, sub[s], Take(s), "Restarting", sub[s].co[i].cid)
      \/ \E j \in Slot : Goto(s, i, AbortSubsystem(s, sub[s], j, m), Take(s),
                              "Restarting", sub[s].co[i].cid)
      \/ Set(s, sub[s], Take(s))
    BY Zenon DEF WaitForRestartMessage
<1>3. \A j \in Slot : AbortSubsystem(s, sub[s], j, m) \in Sound(s)
    BY Context, AbortSubsystemSound
<1> QED
    BY <1>1, <1>2, <1>3, Context, Reading, States, GotoInv, SetInv

LEMMA GetsMessageInv ==
    ASSUME IInv, NEW s \in Subsystem, NEW i \in Slot, GetsMessage(s, i)
    PROVE  IInv'
BY GetsAbortInv, OfflineInv, StartingChildrenInv, ConnectingInv, StartingProcessesInv,
   OnlineInv, StoppingProcessesInv, StoppingChildrenInv, RestartingInv, BrokenInv,
   WaitForRestartInv DEF GetsMessage

-----------------------------------------------------------------------------
(* The events of StageZero.                                                *)

\* What a step that reads an event can rely on.
LEMMA Events ==
    ASSUME IInv, NEW s \in Subsystem, sub[s].events # <<>>
    PROVE  /\ ReadEvent(sub[s]) \in Sound(s)
           /\ NoteStop(sub[s]) \in Sound(s)
           /\ Head(sub[s].events) \in StageZeroEvent
BY Unpack, ReadEventSound, NoteStopSound

LEMMA QuietEventsInv ==
    ASSUME IInv, NEW s \in Subsystem, NEW i \in Slot,
           \/ IgnoreEvent(s, i) \/ StartingChildrenEvent(s, i) \/ ConnectingEvent(s, i)
           \/ StoppingChildrenEvent(s, i) \/ RestartingEvent(s, i)
           \/ WaitForRestartEvent(s, i)
    PROVE  IInv'
<1>1. sub[s].events # <<>>
    BY DEF IgnoreEvent, StartingChildrenEvent, ConnectingEvent, StoppingChildrenEvent,
           RestartingEvent, WaitForRestartEvent, Reads, HasEvent
<1>2. CASE IgnoreEvent(s, i)
    BY <1>1, <1>2, Context, Events, SetInv DEF IgnoreEvent
<1>3. CASE StartingChildrenEvent(s, i)
    BY <1>1, <1>3, Context, Events, SetInv, TailsInv DEF StartingChildrenEvent
<1>4. CASE ConnectingEvent(s, i)
    BY <1>1, <1>4, Context, Events, SetInv, TailsInv DEF ConnectingEvent
<1>5. CASE StoppingChildrenEvent(s, i)
    BY <1>1, <1>5, Context, Events, TailsInv DEF StoppingChildrenEvent
<1>6. CASE RestartingEvent(s, i)
    BY <1>1, <1>6, Context, Events, TailsInv DEF RestartingEvent
<1>7. CASE WaitForRestartEvent(s, i)
    BY <1>1, <1>7, Context, Events, SetInv DEF WaitForRestartEvent
<1> QED
    BY <1>2, <1>3, <1>4, <1>5, <1>6, <1>7

LEMMA StartingProcessesEventInv ==
    ASSUME IInv, NEW s \in Subsystem, NEW i \in Slot, StartingProcessesEvent(s, i)
    PROVE  IInv'
<1> DEFINE L == ReadEvent(sub[s])
           e == Head(sub[s].events)
           K == SetStopped(L, e.proc)
           M == [K EXCEPT !.exit[e.proc] = e.how]
<1>1. sub[s].events # <<>>
    BY DEF StartingProcessesEvent, Reads, HasEvent
<1>2. L \in Sound(s) /\ e \in StageZeroEvent /\ pipe \in Pipes
    BY <1>1, Events, Context
<1>3. \/ e.kind = "start" /\ StartingProcessesTail(s, i, SetRunning(L, e.proc), pipe)
      \/ e.kind = "stop" /\ e.how # "signal" /\ StartingProcessesTail(s, i, M, pipe)
      \/ e.kind = "stop" /\ Crash(s, i, L, pipe, e.proc, e.how)
      \/ StartingProcessesTail(s, i, L, pipe)
    BY DEF StartingProcessesEvent
<1> HIDE DEF L, e
<1>4. CASE e.kind = "start" /\ StartingProcessesTail(s, i, SetRunning(L, e.proc), pipe)
    BY <1>4, <1>2, EventFields, SetRunningSound, TailsInv
<1>5. CASE /\ e.kind = "stop" /\ e.how # "signal"
           /\ StartingProcessesTail(s, i, M, pipe)
  <2>1. e.proc \in Process /\ e.how \in {"ok", "fail"}
      BY <1>5, <1>2, EventFields
  <2>2. K \in Sound(s)
      BY <2>1, <1>2, SetRunningSound
  <2> HIDE DEF K
  <2>3. [K.exit EXCEPT ![e.proc] = e.how]
          \in [Process -> {"unset", "launched", "ok", "fail"}]
      BY <2>1, <2>2, Fields, SoundLocal
  <2>4. M \in Sound(s)
      BY <2>2, <2>3, FieldSound
  <2> QED
      BY <2>4, <1>5, <1>2, TailsInv
<1>6. CASE e.kind = "stop" /\ Crash(s, i, L, pipe, e.proc, e.how)
    BY <1>6, <1>2, EventFields, CrashInv
<1>7. CASE StartingProcessesTail(s, i, L, pipe)
    BY <1>7, <1>2, TailsInv
<1> QED
    BY <1>3, <1>4, <1>5, <1>6, <1>7

LEMMA OnlineEventInv ==
    ASSUME IInv, NEW s \in Subsystem, NEW i \in Slot, OnlineEvent(s, i)
    PROVE  IInv'
<1> DEFINE L == ReadEvent(sub[s])
           e == Head(sub[s].events)
           K == SetStopped(L, e.proc)
           M == [K EXCEPT !.admin = "Offline"]
           D == Disconnect(L, Processes[s])
<1>1. sub[s].events # <<>>
    BY DEF OnlineEvent, Reads, HasEvent
<1>2. L \in Sound(s) /\ e \in StageZeroEvent /\ pipe \in Pipes
    BY <1>1, Events, Context
<1>3. \/ Goto(s, i, D, pipe, "Restarting", NoClient)
      \/ e.kind = "stop" /\ Goto(s, i, M, pipe, "Offline", NoClient)
      \/ e.kind = "stop" /\ Crash(s, i, L, pipe, e.proc, e.how)
      \/ Set(s, L, pipe)
    BY DEF OnlineEvent
<1> HIDE DEF L, e
<1>4. CASE Goto(s, i, D, pipe, "Restarting", NoClient)
    BY <1>4, <1>2, States, DisconnectSound, GotoInv
<1>5. CASE e.kind = "stop" /\ Goto(s, i, M, pipe, "Offline", NoClient)
  <2>1. K \in Sound(s)
      BY <1>5, <1>2, EventFields, SetRunningSound
  <2> HIDE DEF K
  <2>2. M \in Sound(s)
      BY <2>1, States, FieldSound
  <2> QED
      BY <2>2, <1>5, <1>2, States, GotoInv
<1>6. CASE e.kind = "stop" /\ Crash(s, i, L, pipe, e.proc, e.how)
    BY <1>6, <1>2, EventFields, CrashInv
<1>7. CASE Set(s, L, pipe)
    BY <1>7, <1>2, SetInv
<1> QED
    BY <1>3, <1>4, <1>5, <1>6, <1>7

LEMMA StoppingProcessesEventInv ==
    ASSUME IInv, NEW s \in Subsystem, NEW i \in Slot, StoppingProcessesEvent(s, i)
    PROVE  IInv'
<1>1. sub[s].events # <<>>
    BY DEF StoppingProcessesEvent, Reads, HasEvent
<1>2. Disconnect(ReadEvent(sub[s]), Processes[s]) \in Sound(s)
    BY <1>1, Events, DisconnectSound
<1> QED
    BY <1>1, <1>2, Events, Context, TailsInv DEF StoppingProcessesEvent

LEMMA RestartingProcessesEventInv ==
    ASSUME IInv, NEW s \in Subsystem, NEW i \in Slot, RestartingProcessesEvent(s, i)
    PROVE  IInv'
<1> DEFINE L == ReadEvent(sub[s])
           e == Head(sub[s].events)
           R == SetRunning(L, e.proc)
           A == [R EXCEPT !.co[i].started = @ \cup {e.proc}]
           B == [L EXCEPT !.co[i].started = @ \ {e.proc}]
<1>1. sub[s].events # <<>>
    BY DEF RestartingProcessesEvent, Reads, HasEvent
<1>2. /\ L \in Sound(s) /\ NoteStop(sub[s]) \in Sound(s)
      /\ e \in StageZeroEvent /\ pipe \in Pipes
    BY <1>1, Events, Context
<1>3. \/ e.kind = "start" /\ RestartingProcessesTail(s, i, A, pipe)
      \/ e.kind = "stop" /\ Crash(s, i, B, pipe, e.proc, "signal")
      \/ RestartingProcessesTail(s, i, NoteStop(sub[s]), pipe)
    BY DEF RestartingProcessesEvent
<1> HIDE DEF L, e
<1>4. CASE e.kind = "start" /\ RestartingProcessesTail(s, i, A, pipe)
  <2>1. e.proc \in Process /\ R \in Sound(s)
      BY <1>4, <1>2, EventFields, SetRunningSound
  <2> HIDE DEF R
  <2>2. R.co[i].started \cup {e.proc} \in SUBSET Process
      BY <2>1, SoundLocal, CoroutineFields
  <2>3. A \in Sound(s)
      BY <2>1, <2>2, CoroutineSound
  <2> QED
      BY <2>3, <1>4, <1>2, TailsInv
<1>5. CASE e.kind = "stop" /\ Crash(s, i, B, pipe, e.proc, "signal")
  <2>1. L.co[i].started \ {e.proc} \in SUBSET Process
      BY <1>2, SoundLocal, CoroutineFields
  <2>2. B \in Sound(s)
      BY <1>2, <2>1, CoroutineSound
  <2> QED
      BY <2>2, <1>5, <1>2, EventFields, CrashInv
<1>6. CASE RestartingProcessesTail(s, i, NoteStop(sub[s]), pipe)
    BY <1>6, <1>2, TailsInv
<1> QED
    BY <1>3, <1>4, <1>5, <1>6

LEMMA StateStepInv ==
    ASSUME IInv, NEW s \in Subsystem, NEW i \in Slot, StateStep(s, i)
    PROVE  IInv'
<1>1. CASE GetsEvent(s, i)
    BY <1>1, QuietEventsInv, StartingProcessesEventInv, OnlineEventInv,
       StoppingProcessesEventInv, RestartingProcessesEventInv DEF GetsEvent
<1>2. CASE DelayOver(s, i)
    BY <1>2, Context, States, GotoInv DEF DelayOver
<1> QED
    BY <1>1, <1>2, PrologueInv, GetsMessageInv DEF StateStep

-----------------------------------------------------------------------------
(* The other steps of a subsystem, StageZero, the clients and Abort.       *)

LEMMA ConnectorInv ==
    ASSUME IInv, NEW s \in Subsystem,
           ConnectorConnects(s) \/ ConnectorQuits(s) \/ CrashTimer(s)
    PROVE  IInv'
<1>1. CASE ConnectorConnects(s)
  <2> DEFINE L == CloseSocket(sub[s])
             M == [L EXCEPT !.conn = @ - 1, !.umb = "connected", !.sock = "open",
                            !.events = <<[kind |-> "connect"]>>]
  <2>1. sub[s] \in Local
      BY Unpack, SoundLocal
  <2>2. L \in Sound(s) /\ L.conn = sub[s].conn /\ L.umb = sub[s].umb
    <3>1. L.conn = sub[s].conn /\ L.umb = sub[s].umb
        BY <2>1, Zenon DEF CloseSocket, Local
    <3> QED
        BY <3>1, Unpack, CloseSocketSound
  <2>3. Set(s, M, pipe) /\ L.conn > 0 /\ L.umb = "connecting"
      BY <1>1, <2>2, Zenon DEF ConnectorConnects
  <2> HIDE DEF L
  <2>4. L.conn - 1 \in Nat /\ <<[kind |-> "connect"]>> \in Seq(StageZeroEvent)
      BY <2>2, <2>3, Fields, SoundLocal DEF StageZeroEvent
  <2>5. L.umb # "closed"
      BY <2>3
  <2>6. M \in Sound(s)
      BY <2>2, <2>4, <2>5, Zenon DEF Local, Sound
  <2> HIDE DEF M
  <2> QED
      BY <2>3, <2>6, Unpack, SetInv
<1>2. CASE ConnectorQuits(s)
  <2>1. sub[s].conn - 1 \in Nat
      BY <1>2, Unpack, Fields, SoundLocal DEF ConnectorQuits
  <2>2. [sub[s] EXCEPT !.conn = @ - 1] \in Sound(s)
      BY <2>1, Unpack, FieldSound
  <2> QED
      BY <1>2, <2>2, Unpack, SetInv DEF ConnectorQuits
<1>3. CASE CrashTimer(s)
  <2> DEFINE P == [pipe EXCEPT ![s] = Append(@, Order("RestartCrashed", NoClient, {}))]
  <2>1. sub[s].timers - 1 \in Nat
      BY <1>3, Unpack, Fields, SoundLocal DEF CrashTimer
  <2>2. [sub[s] EXCEPT !.timers = @ - 1] \in Sound(s)
      BY <2>1, Unpack, FieldSound
  <2>3. Order("RestartCrashed", NoClient, {}) \in Message
      BY States, MessageTypes
  <2>4. P \in Pipes
      BY <2>3, Unpack, AppendType DEF Pipes
  <2> QED
      BY <1>3, <2>2, <2>4, SetInv DEF CrashTimer
<1> QED
    BY <1>1, <1>2, <1>3

\* An event of StageZero is queued, and an instance changes its phase or ends.
LEMMA TellSound ==
    ASSUME NEW s \in Subsystem, NEW L \in Sound(s), NEW e \in StageZeroEvent
    PROVE  Tell(L, e) \in Sound(s)
<1>1. Append(L.events, e) \in Seq(StageZeroEvent)
    BY Fields, SoundLocal
<1> QED
    BY <1>1, FieldSound DEF Tell

LEMMA LiveSound ==
    ASSUME NEW s \in Subsystem, NEW L \in Sound(s), NEW p \in Process,
           NEW f \in {"none", "up"}
    PROVE  [L EXCEPT !.live[p] = f] \in Sound(s)
<1>1. [L.live EXCEPT ![p] = f] \in [Process -> {"none", "starting", "up"}]
    BY Fields, SoundLocal
<1> QED
    BY <1>1, Zenon DEF Local, Sound

LEMMA MoveSound ==
    ASSUME NEW s \in Subsystem, NEW L \in Sound(s), NEW p \in Process,
           NEW from \in Phase, NEW to, L.others[p][from] > 0
    PROVE  Move(L, p, from, to) \in Sound(s)
<1> DEFINE n == [f \in Phase |-> IF f = from THEN L.others[p][f] - 1
                                 ELSE IF f = to THEN L.others[p][f] + 1
                                 ELSE L.others[p][f]]
<1>1. \A f \in Phase : L.others[p][f] \in Nat
    BY Fields, SoundLocal
<1>2. n \in [Phase -> Nat]
    BY <1>1
<1>3. Move(L, p, from, to) = [L EXCEPT !.others[p] = n]
    BY Zenon DEF Move
<1> HIDE DEF n
<1>4. [L.others EXCEPT ![p] = n] \in [Process -> [Phase -> Nat]]
    BY <1>2, Fields, SoundLocal
<1> QED
    BY <1>3, <1>4, ZenonT(40) DEF Local, Sound

LEMMA EventTypes ==
    ASSUME NEW p \in Process
    PROVE  /\ Event("start", p, "ok") \in StageZeroEvent
           /\ \A how \in {"ok", "fail", "signal"} : Event("stop", p, how) \in StageZeroEvent
           /\ \A how \in Outcomes(p) : how \in {"ok", "fail", "signal"}
BY DEF Event, StageZeroEvent, Outcomes

LEMMA EndsInv ==
    ASSUME IInv, NEW s \in Subsystem, NEW p \in Process, NEW F \in SUBSET Phase,
           NEW how \in {"ok", "fail", "signal"}, Ends(s, p, F, how),
           emergency' = emergency, abort' = abort,
           spent' \in [commands : Nat, crashes : Nat, drops : Nat, aborts : Nat]
    PROVE  IInv'
<1> DEFINE e == Event("stop", p, how)
<1>1. e \in StageZeroEvent /\ sub[s] \in Sound(s) /\ pipe \in Pipes
    BY Unpack, EventTypes
<1> HIDE DEF e
<1>2. CASE Put(s, Tell([sub[s] EXCEPT !.live[p] = "none"], e), pipe)
  <2>1. Tell([sub[s] EXCEPT !.live[p] = "none"], e) \in Sound(s)
      BY <1>1, LiveSound, TellSound
  <2> QED
      BY <1>1, <1>2, <2>1, Unpack, PutInv
<1>3. CASE \E f \in F : /\ sub[s].others[p][f] > 0
                        /\ Put(s, Tell(Move(sub[s], p, f, "gone"), e), pipe)
  <2>1. PICK f \in Phase : /\ sub[s].others[p][f] > 0
                           /\ Put(s, Tell(Move(sub[s], p, f, "gone"), e), pipe)
      BY <1>3
  <2>2. Tell(Move(sub[s], p, f, "gone"), e) \in Sound(s)
      BY <1>1, <2>1, MoveSound, TellSound
  <2> QED
      BY <1>1, <2>1, <2>2, Unpack, PutInv
<1> QED
    BY <1>2, <1>3, Zenon DEF Ends, e

LEMMA StartedInv ==
    ASSUME IInv, NEW s \in Subsystem, NEW p \in Process, Started(s, p)
    PROVE  IInv'
<1> DEFINE e == Event("start", p, "ok")
<1>1. e \in StageZeroEvent /\ sub[s] \in Sound(s) /\ pipe \in Pipes
    BY Unpack, EventTypes
<1> HIDE DEF e
<1>2. CASE Set(s, Tell([sub[s] EXCEPT !.live[p] = "up"], e), pipe)
  <2>1. Tell([sub[s] EXCEPT !.live[p] = "up"], e) \in Sound(s)
      BY <1>1, LiveSound, TellSound
  <2> QED
      BY <1>1, <1>2, <2>1, SetInv
<1>3. ASSUME NEW f \in Phase, NEW g, sub[s].others[p][f] > 0,
             Set(s, Tell(Move(sub[s], p, f, g), e), pipe)
      PROVE  IInv'
  <2>1. Tell(Move(sub[s], p, f, g), e) \in Sound(s)
      BY <1>1, <1>3, MoveSound, TellSound
  <2> QED
      BY <1>1, <1>3, <2>1, SetInv
<1>4. {"starting", "halting"} \subseteq Phase
    BY DEF Phase
<1> QED
    BY <1>2, <1>3, <1>4 DEF Started, e

LEMMA DiesInv ==
    ASSUME IInv, NEW s \in Subsystem, NEW p \in Process, Dies(s, p)
    PROVE  IInv'
<1>1. PICK f \in {"halting", "dying"}, how \in Outcomes(p) :
        /\ sub[s].others[p][f] > 0
        /\ Set(s, Tell(Move(sub[s], p, f, "gone"), Event("stop", p, how)), pipe)
    BY DEF Dies
<1>2. f \in Phase /\ Event("stop", p, how) \in StageZeroEvent
    BY EventTypes DEF Phase
<1>3. Tell(Move(sub[s], p, f, "gone"), Event("stop", p, how)) \in Sound(s)
    BY <1>1, <1>2, Unpack, MoveSound, TellSound
<1> QED
    BY <1>1, <1>3, Unpack, SetInv

LEMMA StageZeroStepInv ==
    ASSUME IInv, NEW s \in Subsystem, StageZeroStep(s)
    PROVE  IInv'
<1>1. PICK p \in Process : Started(s, p) \/ Dies(s, p) \/ OneShotEnds(s, p)
    BY Finite DEF StageZeroStep
<1>2. CASE OneShotEnds(s, p)
  <2>1. {"up"} \in SUBSET Phase
      BY DEF Phase
  <2> QED
      BY <1>2, <2>1, Unpack, EndsInv DEF OneShotEnds
<1> QED
    BY <1>1, <1>2, StartedInv, DiesInv

LEMMA CrashesInv ==
    ASSUME IInv, NEW s \in Subsystem, NEW p \in Process, Crashes(s, p)
    PROVE  IInv'
<1>1. PICK how \in Outcomes(p) \ {"ok"} : Ends(s, p, {"starting", "up"}, how)
    BY DEF Crashes
<1>2. spent' \in [commands : Nat, crashes : Nat, drops : Nat, aborts : Nat]
    BY Unpack DEF Crashes
<1>3. {"starting", "up"} \in SUBSET Phase
    BY DEF Phase
<1> QED
    BY <1>1, <1>2, <1>3, EventTypes, EndsInv DEF Crashes

LEMMA DropInv ==
    ASSUME IInv, NEW s \in Subsystem, Drop(s)
    PROVE  IInv'
<1> DEFINE L == CloseSocket(sub[s])
           events == Append(sub[s].events, [kind |-> "disconnect"])
           M == [L EXCEPT !.sock = "eof", !.events = events]
<1>1. sub[s] \in Sound(s) /\ L \in Sound(s)
    BY Unpack, CloseSocketSound
<1>2. events \in Seq(StageZeroEvent)
    BY <1>1, Fields, SoundLocal DEF StageZeroEvent
<1>3. /\ Put(s, M, pipe) /\ emergency' = emergency /\ abort' = abort
      /\ spent' = [spent EXCEPT !.drops = @ + 1]
    BY DEF Drop
<1> HIDE DEF L, events
<1>4. M \in Sound(s)
    BY <1>1, <1>2, Zenon DEF Local, Sound
<1>5. spent' \in [commands : Nat, crashes : Nat, drops : Nat, aborts : Nat]
    BY <1>3, Unpack
<1> QED
    BY <1>3, <1>4, <1>5, Unpack, PutInv

LEMMA ClientCommandInv ==
    ASSUME IInv, NEW c \in Client, NEW s \in Subsystem, ClientCommand(c, s)
    PROVE  IInv'
<1>1. c \in ClientId /\ Nobody \in Subsystem \cup {Nobody}
    BY DEF ClientId
<1>2. \A D \in SUBSET Processes[s] : D \in SUBSET Process
    BY Finite
<1>3. /\ ChangeAdmin(Nobody, c, "Online") \in Message
      /\ ChangeAdmin(Nobody, c, "Offline") \in Message
      /\ Order("Restart", c, {}) \in Message
      /\ \A D \in SUBSET Processes[s] : Order("RestartProcesses", c, D) \in Message
    BY <1>1, <1>2, States, MessageTypes
<1>4. PICK kind : \E m \in Sends(c, s, kind) : pipe' = [pipe EXCEPT ![s] = Append(@, m)]
    BY DEF ClientCommand
<1>5. Sends(c, s, kind) \subseteq Message
    BY <1>3 DEF Sends
<1>6. PICK m \in Message : pipe' = [pipe EXCEPT ![s] = Append(@, m)]
    BY <1>4, <1>5
<1>7. pipe' \in Pipes
    BY <1>6, Unpack, AppendType DEF Pipes
<1>8. spent' \in [commands : Nat, crashes : Nat, drops : Nat, aborts : Nat]
    BY Unpack DEF ClientCommand
<1>9. sub' = sub /\ emergency' = emergency /\ abort' = abort
    BY DEF ClientCommand
<1>10. sub \in [Subsystem -> Local]
    BY DEF IInv, TypeOK
<1> QED
    BY <1>7, <1>8, <1>9, <1>10, Unpack, Pack

LEMMA AbortAllInv ==
    ASSUME IInv, NEW e \in BOOLEAN, NEW n \in Nat, AbortAll(e, n),
           spent' \in [commands : Nat, crashes : Nat, drops : Nat, aborts : Nat]
    PROVE  IInv'
<1> DEFINE m == Order(IF e THEN "EmergencyAbort" ELSE "Abort", NoClient, {})
<1>1. m \in Message
    BY States, MessageTypes
<1>2. pipe' = [s \in Subsystem |-> IF s \in Critical THEN pipe[s] ELSE Append(pipe[s], m)]
    BY DEF AbortAll
<1> HIDE DEF m
<1>3. pipe' \in Pipes
    BY <1>1, <1>2, Unpack, AppendType DEF Pipes
<1>4. abort' \in [asked : Nat, waiting : [BOOLEAN -> Nat]]
  <2>1. abort' = [abort EXCEPT !.asked = n, !.waiting[e] = @ + 1]
      BY DEF AbortAll
  <2>2. [abort.waiting EXCEPT ![e] = @ + 1] \in [BOOLEAN -> Nat]
      BY Unpack
  <2> QED
      BY <2>1, <2>2, Unpack
<1>5. sub' = sub /\ emergency' \in BOOLEAN /\ sub \in [Subsystem -> Local]
    BY DEF AbortAll, IInv, TypeOK
<1> QED
    BY <1>3, <1>4, <1>5, Unpack, Pack

LEMMA KillAllSound ==
    ASSUME NEW s \in Subsystem, NEW L \in Sound(s)
    PROVE  KillAll(L) \in Sound(s)
<1> DEFINE all(p, f) == L.others[p][f] + IF L.live[p] = f THEN 1 ELSE 0
           live == [p \in Process |-> "none"]
           others == [p \in Process |->
              [f \in Phase |-> CASE f = "halting" -> L.others[p][f] + all(p, "starting")
                                 [] f = "dying" -> L.others[p][f] + all(p, "up")
                                 [] OTHER -> 0]]
<1>1. live \in [Process -> {"none", "starting", "up"}]
    OBVIOUS
<1>2. others \in [Process -> [Phase -> Nat]]
  <2>1. \A p \in Process : \A f \in Phase : L.others[p][f] \in Nat
      BY Fields, SoundLocal
  <2>2. \A p \in Process : all(p, "starting") \in Nat /\ all(p, "up") \in Nat
      BY <2>1 DEF Phase
  <2> HIDE DEF all
  <2>3. ASSUME NEW p \in Process, NEW f \in Phase
        PROVE  (CASE f = "halting" -> L.others[p][f] + all(p, "starting")
                  [] f = "dying" -> L.others[p][f] + all(p, "up")
                  [] OTHER -> 0) \in Nat
      BY <2>1, <2>2
  <2> QED
      BY <2>3
<1>3. KillAll(L) = [L EXCEPT !.live = live, !.others = others]
    BY Zenon DEF KillAll
<1>4. /\ L.tries \in [Process -> Nat]
      /\ L.exit \in [Process -> {"unset", "launched", "ok", "fail"}]
    BY Fields, SoundLocal
<1> HIDE DEF live, others
<1>5. [L EXCEPT !.live = live, !.others = others] \in Sound(s)
    BY <1>1, <1>2, <1>4, InstancesSound
<1> QED
    BY <1>3, <1>5, Zenon

LEMMA AbortKillsInv ==
    ASSUME IInv, NEW e \in BOOLEAN, AbortKills(e)
    PROVE  IInv'
<1>1. \A s \in Subsystem : sub[s] \in Sound(s) /\ KillAll(sub[s]) \in Sound(s)
    BY Unpack, KillAllSound
<1>2. PICK hit \in SUBSET Subsystem :
        sub' = [s \in Subsystem |-> IF s \in hit THEN KillAll(sub[s]) ELSE sub[s]]
  <2>1. PICK R \in SUBSET Subsystem :
          sub' = [s \in Subsystem |->
                    IF s \in R /\ (e \/ s \notin Critical) /\ sub[s].sock = "open"
                    THEN KillAll(sub[s]) ELSE sub[s]]
      BY Zenon DEF AbortKills
  <2> WITNESS {s \in R : (e \/ s \notin Critical) /\ sub[s].sock = "open"}
        \in SUBSET Subsystem
  <2> QED
      BY <2>1
<1>3. sub' \in [Subsystem -> Local] /\ \A s \in Subsystem : sub'[s] \in Sound(s)
    BY <1>1, <1>2, SoundLocal
<1>4. abort' \in [asked : Nat, waiting : [BOOLEAN -> Nat]]
  <2>1. abort' = [abort EXCEPT !.waiting[e] = @ - 1] /\ abort.waiting[e] > 0
      BY DEF AbortKills
  <2>2. [abort.waiting EXCEPT ![e] = @ - 1] \in [BOOLEAN -> Nat]
      BY <2>1, Unpack
  <2> QED
      BY <2>1, <2>2, Unpack
<1>5. pipe' = pipe /\ emergency' = emergency /\ spent' = spent
    BY DEF AbortKills
<1> QED
    BY <1>3, <1>4, <1>5, Unpack, Pack

-----------------------------------------------------------------------------
(* The theorems.                                                           *)

LEMMA InitInv == Init => IInv
<1> SUFFICES ASSUME Init PROVE IInv
    OBVIOUS
<1>1. Dead \in Coroutine
    BY DEF Dead, NewCoroutine, Coroutine, OperState, ClientId
<1> DEFINE co == [[i \in Slot |-> Dead] EXCEPT ![1].at = "enter"]
<1>2. co \in [Slot -> Coroutine]
  <2>1. [Dead EXCEPT !.at = "enter"] \in Coroutine
      BY <1>1, Zenon DEF Coroutine
  <2> HIDE DEF Dead
  <2>2. co = [i \in Slot |-> IF i = 1 THEN [Dead EXCEPT !.at = "enter"] ELSE Dead]
      BY SlotAssumption
  <2> QED
      BY <1>1, <2>1, <2>2
<1> HIDE DEF co
<1>3. /\ "Offline" \in AdminState /\ "Offline" \in OperState
      /\ [p \in Process |-> "unset"] \in [Process -> {"unset", "launched", "ok", "fail"}]
      /\ [p \in Process |-> 0] \in [Process -> Nat]
      /\ [p \in Process |-> [f \in Phase |-> 0]] \in [Process -> [Phase -> Nat]]
      /\ [p \in Process |-> "none"] \in [Process -> {"none", "starting", "up"}]
      /\ {} \in SUBSET Client /\ {} \in SUBSET Process
      /\ 0 \in Nat /\ 0 \in Int /\ FALSE \in BOOLEAN
      /\ <<>> \in Seq(StageZeroEvent)
    BY States
<1>4. /\ Idle \in Local
      /\ Idle.maybe = {} /\ Idle.refs = 0 /\ Idle.umb = "closed"
  <2>1. Idle.maybe = {} /\ Idle.refs = 0 /\ Idle.umb = "closed"
      BY DEF Idle
  <2>2. Idle \in Local
      BY <1>2, <1>3, Zenon DEF Idle, Local, co
  <2> QED
      BY <2>1, <2>2
<1>5. TypeOK
  <2>1. sub \in [Subsystem -> Local]
      BY <1>4 DEF Init
  <2>2. pipe \in [Subsystem -> Seq(Message)]
    <3>1. <<>> \in Seq(Message)
        OBVIOUS
    <3> QED
        BY <3>1 DEF Init
  <2>3. emergency \in BOOLEAN /\ abort \in [asked : Nat, waiting : [BOOLEAN -> Nat]]
      BY DEF Init
  <2>4. spent \in [commands : Nat, crashes : Nat, drops : Nat, aborts : Nat]
      BY DEF Init
  <2> QED
      BY <2>1, <2>2, <2>3, <2>4 DEF TypeOK
<1>6. RefsCountConnections
    BY <1>4, FS_EmptySet DEF Init, RefsCountConnections
<1> QED
    BY <1>5, <1>6 DEF IInv

LEMMA NextInv == IInv /\ [Next]_vars => IInv'
<1> SUFFICES ASSUME IInv, [Next]_vars PROVE IInv'
    OBVIOUS
<1>1. CASE UNCHANGED vars
    BY <1>1 DEF vars, IInv, TypeOK, RefsCountConnections
<1>2. CASE Next
  <2>1. ASSUME NEW s \in Subsystem, NEW i \in Slot,
               StateStep(s, i) \/ LaunchFails(s, i)
        PROVE  IInv'
      BY <2>1, StateStepInv, LaunchFailsInv
  <2>2. ASSUME NEW s \in Subsystem,
               \/ ConnectorConnects(s) \/ ConnectorQuits(s) \/ CrashTimer(s)
               \/ StageZeroStep(s) \/ Drop(s)
        PROVE  IInv'
      BY <2>2, ConnectorInv, StageZeroStepInv, DropInv
  <2>3. ASSUME NEW s \in Subsystem, NEW p \in Processes[s], Crashes(s, p)
        PROVE  IInv'
    <3>1. p \in Process
        BY Finite
    <3> QED
        BY <2>3, <3>1, CrashesInv
  <2>4. ASSUME NEW s \in Subsystem, NEW c \in Client, ClientCommand(c, s)
        PROVE  IInv'
      BY <2>4, ClientCommandInv
  <2>5. ASSUME NEW e \in BOOLEAN, ClientAbort(e) \/ AbortKills(e)
        PROVE  IInv'
    <3>1. CASE ClientAbort(e)
      <4>1. /\ abort.asked \in Nat
            /\ spent' \in [commands : Nat, crashes : Nat, drops : Nat, aborts : Nat]
          BY <3>1, Unpack DEF ClientAbort
      <4> QED
          BY <3>1, <4>1, AbortAllInv DEF ClientAbort
    <3> QED
        BY <2>5, <3>1, AbortKillsInv
  <2>6. CASE CriticalAbort
    <3>1. abort.asked - 1 \in Nat /\ spent' = spent /\ TRUE \in BOOLEAN
        BY <2>6, Unpack DEF CriticalAbort
    <3> QED
        BY <2>6, <3>1, Unpack, AbortAllInv DEF CriticalAbort
  <2> QED
      BY <1>2, <2>1, <2>2, <2>3, <2>4, <2>5, <2>6 DEF Next
<1> QED
    BY <1>1, <1>2

\* The types and the reference counts of the umbilicals are an inductive
\* invariant of every step of Capcom, StageZero and the clients.
THEOREM Invariance == Spec => []IInv
BY InitInv, NextInv, PTL DEF Spec

\* Every reachable state is well typed: in particular no counter of
\* StageZero's processes, of connecting coroutines, of timers or of waiting aborts
\* becomes negative.
THEOREM TypeCorrect == Spec => []TypeOK
<1>1. IInv => TypeOK
    BY DEF IInv
<1> QED
    BY <1>1, Invariance, PTL

\* In every graph of subsystems with any processes, through any sequence of
\* commands, crashes, lost connections and aborts, the umbilical of a subsystem
\* counts the processes that may be connected and is closed exactly when there
\* is none (Umbilical::Precondition, Connect and Disconnect).
THEOREM ReferencesCounted == Spec => []RefsCountConnections
<1>1. IInv => RefsCountConnections
    BY DEF IInv
<1> QED
    BY <1>1, Invariance, PTL

-----------------------------------------------------------------------------
(***************************************************************************)
(* Proof that a subsystem goes online only when all its processes run, for *)
(* every graph, set of processes, policy and bound.                        *)
(*                                                                         *)
(* A subsystem goes online where a state coroutine enters the state in its *)
(* local next_state, so the proof needs to know what next_state can be:    *)
(* the states on the way up and down (Passing) never aim at Online.        *)
(* Calm(s) is the set of the states of s that aim rightly and are online   *)
(* only if s was so before the step; the lemmas show, bottom up, that each *)
(* function of Subsystem keeps a state in it, that the ways to end a step  *)
(* are good, and then that every action is.                                *)
(***************************************************************************)

Passing == {"StartingChildren", "StoppingProcesses", "StoppingChildren"}

Aims(L) ==
    \A i \in Slot :
        L.co[i].at = "run" /\ L.co[i].state \in Passing => L.co[i].next # "Online"

\* The invariant of the coroutines that the proof rests on.
AimsRight == \A s \in Subsystem : Aims(sub[s])

Complete(s, L) == Processes[s] \ OneShot \subseteq L.running

Calm(s) ==
    {L \in Sound(s) : Aims(L) /\ (L.oper = "Online" => sub[s].oper = "Online")}

\* A step that keeps AimsRight and takes no subsystem online too early.
GoodStep ==
    \A s \in Subsystem :
        /\ Aims(sub'[s])
        /\ sub[s].oper # "Online" /\ sub'[s].oper = "Online" => Complete(s, sub'[s])

Same(L, M) == M.oper = L.oper /\ M.co = L.co

\* What HandleAdminCommand answers to the first message of s, and a coroutine that
\* takes the answer over, with the admin state as it is.
Answer(s, a, b) == HandleAdminCommand(s, sub[s], Take(s), Head(pipe[s]), a, b)

TakeOver(H, i, m) == [H.sub EXCEPT !.co[i].next = H.next, !.co[i].cid = m.client]

-----------------------------------------------------------------------------
(* The functions on the state of a subsystem keep it calm.                 *)

LEMMA CalmSound ==
    ASSUME NEW s \in Subsystem, NEW L \in Calm(s)
    PROVE  L \in Sound(s) /\ L \in Local
BY DEF Calm, Sound

LEMMA SameCalm ==
    ASSUME NEW s \in Subsystem, NEW L \in Calm(s), NEW M \in Sound(s), Same(L, M)
    PROVE  M \in Calm(s)
BY DEF Calm, Same, Aims

LEMMA EnterStateCalm ==
    ASSUME NEW s \in Subsystem, NEW L \in Calm(s), NEW i \in Slot,
           NEW st \in OperState, NEW c \in ClientId
    PROVE  /\ EnterState(L, i, st, c) \in Sound(s)
           /\ Aims(EnterState(L, i, st, c))
           /\ EnterState(L, i, st, c).oper = st
           /\ EnterState(L, i, st, c).running = L.running
           /\ st # "Online" => EnterState(L, i, st, c) \in Calm(s)
<1> DEFINE M == EnterState(L, i, st, c)
<1>1. M \in Sound(s)
    BY EnterStateSound, CalmSound
<1>2. /\ M.oper = st /\ M.running = L.running
      /\ M.co = [L.co EXCEPT ![i] = NewCoroutine("enter", st, c)]
    BY CalmSound, Zenon DEF EnterState, Local
<1>3. L.co \in [Slot -> Coroutine] /\ NewCoroutine("enter", st, c).at = "enter"
    BY CalmSound, Fields DEF NewCoroutine
<1> HIDE DEF M
<1>4. Aims(M)
    BY <1>2, <1>3 DEF Aims, Calm
<1> QED
    BY <1>1, <1>2, <1>4 DEF Calm, M

LEMMA RunInCalm ==
    ASSUME NEW s \in Subsystem, NEW L \in Calm(s), NEW i \in Slot,
           NEW st \in OperState, L.co[i].state \in Passing => st # "Online"
    PROVE  RunIn(L, i, st) \in Calm(s)
<1> DEFINE M == RunIn(L, i, st)
<1>1. M \in Sound(s)
    BY RunInSound, CalmSound
<1>2. M.oper = L.oper /\ M.co = [L.co EXCEPT ![i].at = "run", ![i].next = st]
    BY CalmSound, Zenon DEF RunIn, Local
<1> HIDE DEF M
<1>3. L.co \in [Slot -> Coroutine] /\ L.co[i] \in Coroutine
    BY CalmSound, Fields
<1>4. M.co[i].state = L.co[i].state /\ M.co[i].next = st
    BY <1>2, <1>3 DEF Coroutine
<1>5. \A j \in Slot : j # i => M.co[j] = L.co[j]
    BY <1>2, <1>3
<1>6. Aims(M)
    BY <1>4, <1>5 DEF Aims, Calm
<1> QED
    BY <1>1, <1>2, <1>6 DEF Calm, M

\* The updates that leave the operational state and the coroutines alone.
LEMMA FieldCalm ==
    ASSUME NEW s \in Subsystem, NEW L \in Calm(s)
    PROVE  /\ \A a \in AdminState : [L EXCEPT !.admin = a] \in Calm(s)
           /\ \A st \in OperState \ {"Online"} : [L EXCEPT !.oper = st] \in Calm(s)
           /\ \A A \in SUBSET Client : [L EXCEPT !.active = A] \in Calm(s)
           /\ \A b \in BOOLEAN : [L EXCEPT !.interactive = b] \in Calm(s)
           /\ \A n \in Nat : [L EXCEPT !.restarts = n] \in Calm(s)
           /\ \A n \in Nat : [L EXCEPT !.timers = n] \in Calm(s)
           /\ \A n \in Nat : [L EXCEPT !.conn = n] \in Calm(s)
           /\ \A D \in SUBSET Process : [L EXCEPT !.todo = D] \in Calm(s)
           /\ \A D \in SUBSET Process : [L EXCEPT !.alarm = D] \in Calm(s)
           /\ \A f \in [Process -> {"unset", "launched", "ok", "fail"}] :
                 [L EXCEPT !.exit = f] \in Calm(s)
<1>1. L \in Sound(s) /\ L \in Local
    BY CalmSound
<1>2. ASSUME NEW a \in AdminState PROVE [L EXCEPT !.admin = a] \in Calm(s)
  <2>1. Same(L, [L EXCEPT !.admin = a])
      BY <1>1, Zenon DEF Same, Local
  <2> QED
      BY <1>1, <2>1, FieldSound, SameCalm
<1>3. ASSUME NEW st \in OperState \ {"Online"} PROVE [L EXCEPT !.oper = st] \in Calm(s)
  <2> DEFINE M == [L EXCEPT !.oper = st]
  <2>1. M \in Sound(s) /\ M.oper = st /\ M.co = L.co
      BY <1>1, FieldSound DEF Local
  <2> HIDE DEF M
  <2>2. M \in Calm(s)
      BY <2>1 DEF Calm, Aims
  <2> QED
      BY <2>2 DEF M
<1>4. ASSUME NEW A \in SUBSET Client PROVE [L EXCEPT !.active = A] \in Calm(s)
  <2>1. Same(L, [L EXCEPT !.active = A])
      BY <1>1, Zenon DEF Same, Local
  <2> QED
      BY <1>1, <2>1, FieldSound, SameCalm
<1>5. ASSUME NEW b \in BOOLEAN PROVE [L EXCEPT !.interactive = b] \in Calm(s)
  <2>1. Same(L, [L EXCEPT !.interactive = b])
      BY <1>1, Zenon DEF Same, Local
  <2> QED
      BY <1>1, <2>1, FieldSound, SameCalm, Zenon
<1>6. ASSUME NEW n \in Nat
      PROVE  /\ [L EXCEPT !.restarts = n] \in Calm(s)
             /\ [L EXCEPT !.timers = n] \in Calm(s)
             /\ [L EXCEPT !.conn = n] \in Calm(s)
  <2>1. /\ Same(L, [L EXCEPT !.restarts = n])
        /\ Same(L, [L EXCEPT !.timers = n])
        /\ Same(L, [L EXCEPT !.conn = n])
      BY <1>1, Zenon DEF Same, Local
  <2>2. /\ [L EXCEPT !.restarts = n] \in Sound(s)
        /\ [L EXCEPT !.timers = n] \in Sound(s)
        /\ [L EXCEPT !.conn = n] \in Sound(s)
      BY <1>1, FieldSound
  <2> QED
      BY <2>1, <2>2, SameCalm
<1>7. ASSUME NEW D \in SUBSET Process
      PROVE  /\ [L EXCEPT !.todo = D] \in Calm(s)
             /\ [L EXCEPT !.alarm = D] \in Calm(s)
  <2>1. Same(L, [L EXCEPT !.todo = D]) /\ Same(L, [L EXCEPT !.alarm = D])
      BY <1>1, Zenon DEF Same, Local
  <2> QED
      BY <1>1, <2>1, FieldSound, SameCalm
<1>8. ASSUME NEW f \in [Process -> {"unset", "launched", "ok", "fail"}]
      PROVE [L EXCEPT !.exit = f] \in Calm(s)
  <2>1. Same(L, [L EXCEPT !.exit = f])
      BY <1>1, Zenon DEF Same, Local
  <2> QED
      BY <1>1, <2>1, FieldSound, SameCalm
<1> QED
    BY <1>2, <1>3, <1>4, <1>5, <1>6, <1>7, <1>8

\* The updates of a coroutine that do not make it run.
LEMMA CoroutineCalm ==
    ASSUME NEW s \in Subsystem, NEW L \in Calm(s), NEW i \in Slot
    PROVE  /\ \A at \in {"wait", "nap"} : [L EXCEPT !.co[i].at = at] \in Calm(s)
           /\ \A T \in SUBSET Subsystem : [L EXCEPT !.co[i].told = T] \in Calm(s)
           /\ \A O \in SUBSET ClientId : [L EXCEPT !.co[i].off = O] \in Calm(s)
           /\ \A D \in SUBSET Process : [L EXCEPT !.co[i].started = D] \in Calm(s)
<1>1. L \in Sound(s) /\ L \in Local /\ L.co \in [Slot -> Coroutine] /\ L.co[i] \in Coroutine
    BY CalmSound, Fields
<1>2. ASSUME NEW f \in Coroutine, NEW M \in Sound(s), M.oper = L.oper,
             M.co = [L.co EXCEPT ![i] = f],
             f.at = "run" => /\ L.co[i].at = "run"
                             /\ f.state = L.co[i].state /\ f.next = L.co[i].next
      PROVE  M \in Calm(s)
  <2>1. \A j \in Slot : M.co[j] = IF j = i THEN f ELSE L.co[j]
      BY <1>1, <1>2
  <2>2. Aims(M)
      BY <1>2, <2>1 DEF Aims, Calm
  <2> QED
      BY <1>2, <2>2 DEF Calm
<1>3. ASSUME NEW at \in {"wait", "nap"} PROVE [L EXCEPT !.co[i].at = at] \in Calm(s)
  <2> DEFINE M == [L EXCEPT !.co[i].at = at]
             f == [L.co[i] EXCEPT !.at = at]
  <2>1. f \in Coroutine /\ f.at # "run"
      BY <1>1 DEF Coroutine
  <2>2. M \in Sound(s) /\ M.oper = L.oper
      BY <1>1, CoroutineSound DEF Local
  <2>3. M.co = [L.co EXCEPT ![i] = f]
      BY <1>1, Zenon DEF Local
  <2> HIDE DEF M, f
  <2>4. M \in Calm(s)
      BY <1>2, <2>1, <2>2, <2>3
  <2> QED
      BY <2>4 DEF M
<1>4. ASSUME NEW T \in SUBSET Subsystem PROVE [L EXCEPT !.co[i].told = T] \in Calm(s)
  <2> DEFINE M == [L EXCEPT !.co[i].told = T]
             f == [L.co[i] EXCEPT !.told = T]
  <2>1. f \in Coroutine /\ f.at = L.co[i].at /\ f.state = L.co[i].state
        /\ f.next = L.co[i].next
      BY <1>1 DEF Coroutine
  <2>2. M \in Sound(s) /\ M.oper = L.oper
      BY <1>1, CoroutineSound DEF Local
  <2>3. M.co = [L.co EXCEPT ![i] = f]
      BY <1>1, Zenon DEF Local
  <2> HIDE DEF M, f
  <2>4. M \in Calm(s)
      BY <1>2, <2>1, <2>2, <2>3
  <2> QED
      BY <2>4 DEF M
<1>5. ASSUME NEW O \in SUBSET ClientId PROVE [L EXCEPT !.co[i].off = O] \in Calm(s)
  <2> DEFINE M == [L EXCEPT !.co[i].off = O]
             f == [L.co[i] EXCEPT !.off = O]
  <2>1. f \in Coroutine /\ f.at = L.co[i].at /\ f.state = L.co[i].state
        /\ f.next = L.co[i].next
      BY <1>1 DEF Coroutine
  <2>2. M \in Sound(s) /\ M.oper = L.oper
      BY <1>1, CoroutineSound DEF Local
  <2>3. M.co = [L.co EXCEPT ![i] = f]
      BY <1>1, Zenon DEF Local
  <2> HIDE DEF M, f
  <2>4. M \in Calm(s)
      BY <1>2, <2>1, <2>2, <2>3
  <2> QED
      BY <2>4 DEF M
<1>6. ASSUME NEW D \in SUBSET Process PROVE [L EXCEPT !.co[i].started = D] \in Calm(s)
  <2> DEFINE M == [L EXCEPT !.co[i].started = D]
             f == [L.co[i] EXCEPT !.started = D]
  <2>1. f \in Coroutine /\ f.at = L.co[i].at /\ f.state = L.co[i].state
        /\ f.next = L.co[i].next
      BY <1>1 DEF Coroutine
  <2>2. M \in Sound(s) /\ M.oper = L.oper
      BY <1>1, CoroutineSound DEF Local
  <2>3. M.co = [L.co EXCEPT ![i] = f]
      BY <1>1, Zenon DEF Local
  <2> HIDE DEF M, f
  <2>4. M \in Calm(s)
      BY <1>2, <2>1, <2>2, <2>3
  <2> QED
      BY <2>4 DEF M
<1> QED
    BY <1>3, <1>4, <1>5, <1>6

\* The helpers of the Subsystem and Process classes.
LEMMA HelpersCalm ==
    ASSUME NEW s \in Subsystem, NEW L \in Calm(s)
    PROVE  /\ CloseSocket(L) \in Calm(s)
           /\ \A p \in Process : SetRunning(L, p) \in Calm(s)
           /\ \A p \in Process : SetStopped(L, p) \in Calm(s)
           /\ ResetProcessRestarts(L) \in Calm(s)
           /\ Connect(s, L) \in Calm(s)
           /\ \A m \in Message : SetClient(L, m) \in Calm(s)
<1>1. L \in Sound(s) /\ L \in Local
    BY CalmSound
<1>2. Same(L, CloseSocket(L))
    BY <1>1, Zenon DEF Same, CloseSocket, Local
<1>3. \A p : Same(L, SetRunning(L, p)) /\ Same(L, SetStopped(L, p))
    BY <1>1, Zenon DEF Same, SetRunning, SetStopped, Local
<1>4. Same(L, ResetProcessRestarts(L))
    BY <1>1, Zenon DEF Same, ResetProcessRestarts, Local
<1>5. Same(L, Connect(s, L))
  <2> DEFINE new == Processes[s] \ L.maybe
             up == [L EXCEPT !.maybe = @ \cup new, !.refs = @ + Cardinality(new),
                             !.umb = "connecting"]
  <2>1. Connect(s, L) = L \/ Connect(s, L) = up \/ Connect(s, L) = [up EXCEPT !.conn = @ + 1]
      BY DEF Connect
  <2> HIDE DEF new
  <2>2. Same(L, up) /\ Same(L, [up EXCEPT !.conn = @ + 1])
      BY <1>1, Zenon DEF Same, Local
  <2> QED
      BY <2>1, <2>2 DEF Same
<1>6. \A m : Same(L, SetClient(L, m))
    BY <1>1, Zenon DEF Same, SetClient, Local
<1> QED
    BY <1>1, <1>2, <1>3, <1>4, <1>5, <1>6, SameCalm, CloseSocketSound, SetRunningSound,
       ResetSound, ConnectSound, SetClientSound

LEMMA ReadEventCalm ==
    ASSUME NEW s \in Subsystem, NEW L \in Calm(s), L.events # <<>>
    PROVE  ReadEvent(L) \in Calm(s) /\ NoteStop(L) \in Calm(s)
<1>1. L \in Sound(s) /\ L \in Local
    BY CalmSound
<1>2. Same(L, [L EXCEPT !.events = Tail(@)])
    BY <1>1, Zenon DEF Same, Local
<1>3. [L EXCEPT !.events = Tail(@)] \in Sound(s)
  <2>1. Tail(L.events) \in Seq(StageZeroEvent)
      BY <1>1, Fields
  <2> QED
      BY <1>1, <2>1, FieldSound
<1>4. ReadEvent(L) \in Calm(s)
    BY <1>2, <1>3, SameCalm, HelpersCalm DEF ReadEvent
<1>5. Head(L.events) \in StageZeroEvent
    BY <1>1, Fields
<1> QED
    BY <1>4, <1>5, EventFields, HelpersCalm DEF NoteStop

LEMMA DisconnectCalm ==
    ASSUME NEW s \in Subsystem, NEW L \in Calm(s), NEW D
    PROVE  Disconnect(L, D) \in Calm(s)
<1> DEFINE gone == D \cap L.maybe
           n == Cardinality(gone)
           down == [L EXCEPT !.running = @ \ gone, !.maybe = @ \ gone, !.refs = @ - n]
           M == [CloseSocket(down) EXCEPT !.umb = "closed"]
<1>1. L \in Sound(s) /\ L \in Local
    BY CalmSound
<1>2. Disconnect(L, D) = down \/ Disconnect(L, D) = M
    BY Zenon DEF Disconnect
<1> HIDE DEF gone, n
<1>3. Same(L, down)
    BY <1>1, Zenon DEF Same, Local
<1>4. Same(L, M)
    BY <1>1, Zenon DEF Same, CloseSocket, Local
<1> HIDE DEF down, M
<1> QED
    BY <1>1, <1>2, <1>3, <1>4, DisconnectSound, SameCalm

LEMMA StopCalm ==
    ASSUME NEW s \in Subsystem, NEW L \in Calm(s), NEW D
    PROVE  Stop(L, D) \in Calm(s)
<1> DEFINE hit == {p \in D : L.live[p] # "none" /\ L.sock = "open"}
           tries == [p \in Process |-> IF p \in D THEN 0 ELSE L.tries[p]]
           live == [p \in Process |-> IF p \in hit THEN "none" ELSE L.live[p]]
           others == [p \in Process |->
                        IF p \in hit THEN OneMore(L.others[p], Halted(L.live[p]))
                        ELSE L.others[p]]
           M == [L EXCEPT !.tries = tries, !.live = live, !.others = others]
<1>1. L \in Sound(s) /\ L \in Local
    BY CalmSound
<1>2. Stop(L, D) = M \/ Stop(L, D) = CloseSocket(M)
    BY Zenon DEF Stop
<1> HIDE DEF tries, live, others
<1>3. Same(L, M)
    BY <1>1, Zenon DEF Same, Local
<1>4. Same(L, CloseSocket(M))
    BY <1>1, Zenon DEF Same, CloseSocket, Local
<1> HIDE DEF M
<1> QED
    BY <1>1, <1>2, <1>3, <1>4, StopSound, SameCalm

LEMMA StopProcessesCalm ==
    ASSUME NEW s \in Subsystem, NEW L \in Calm(s)
    PROVE  StopProcesses(s, L) \in Calm(s)
BY DisconnectCalm, StopCalm, Zenon DEF StopProcesses

LEMMA LaunchCalm ==
    ASSUME NEW s \in Subsystem, NEW L \in Calm(s), NEW D
    PROVE  Launch(L, D) \in Calm(s)
<1>1. L \in Sound(s) /\ L \in Local
    BY CalmSound
<1>2. Same(L, Launch(L, D))
    BY <1>1, Zenon DEF Same, Launch, Local
<1> QED
    BY <1>1, <1>2, LaunchSound, SameCalm

LEMMA RestartIfPossibleCalm ==
    ASSUME NEW s \in Subsystem, NEW L \in Calm(s), NEW i \in Slot
    PROVE  RestartIfPossible(L, i) \in Calm(s)
<1> DEFINE K == [L EXCEPT !.co[i].at = "nap"]
<1>1. L.restarts + 1 \in Nat /\ L.co[i].cid \in ClientId /\ "Broken" \in OperState
    BY CalmSound, Fields, CoroutineFields DEF OperState
<1>2. EnterState(L, i, "Broken", L.co[i].cid) \in Calm(s)
    BY <1>1, EnterStateCalm
<1>3. [K EXCEPT !.restarts = L.restarts + 1] \in Calm(s)
  <2>1. K \in Calm(s)
      BY CoroutineCalm
  <2> HIDE DEF K
  <2> QED
      BY <1>1, <2>1, FieldCalm
<1>4. [K EXCEPT !.restarts = L.restarts + 1]
        = [L EXCEPT !.restarts = @ + 1, !.co[i].at = "nap"]
    BY CalmSound, Zenon DEF Local
<1> QED
    BY <1>2, <1>3, <1>4, Zenon DEF RestartIfPossible

LEMMA AfterCrashCalm ==
    ASSUME NEW s \in Subsystem, NEW L \in Calm(s), NEW i \in Slot,
           NEW p \in Process, NEW how
    PROVE  AfterCrash(s, i, L, p, how) \in Calm(s)
<1> DEFINE c == L.co[i].cid
           M == SetStopped(L, p)
           A == [M EXCEPT !.alarm = @ \cup {p}]
           T == [A EXCEPT !.tries[p] = @ + 1, !.timers = @ + 1]
           W == [A EXCEPT !.restarts = @ + 1, !.co[i].at = "wait"]
<1>1. M \in Calm(s) /\ c \in ClientId
    BY HelpersCalm, CoroutineFields, CalmSound
<1> HIDE DEF M, c
<1>2. A \in Calm(s)
  <2>1. M.alarm \cup {p} \in SUBSET Process
      BY <1>1, Fields, CalmSound
  <2> QED
      BY <1>1, <2>1, FieldCalm
<1> HIDE DEF A
<1>3. EnterState(A, i, "Broken", c) \in Calm(s) /\ EnterState(A, i, "Degraded", c) \in Calm(s)
    BY <1>1, <1>2, EnterStateCalm DEF OperState
<1>4. T \in Calm(s)
  <2>1. [A.tries EXCEPT ![p] = @ + 1] \in [Process -> Nat] /\ A.timers + 1 \in Nat
      BY <1>2, Fields, CalmSound
  <2>2. A \in Sound(s) /\ A \in Local
      BY <1>2, CalmSound
  <2>3. T \in Sound(s)
      BY <2>1, <2>2, Zenon DEF Local, Sound
  <2>4. Same(A, T)
      BY <2>2, Zenon DEF Same, Local
  <2> HIDE DEF T
  <2> QED
      BY <1>2, <2>3, <2>4, SameCalm
<1>5. W \in Calm(s)
  <2> DEFINE K == [A EXCEPT !.co[i].at = "wait"]
  <2>1. K \in Calm(s)
      BY <1>2, CoroutineCalm
  <2>2. [K EXCEPT !.restarts = A.restarts + 1] = W
      BY <1>2, CalmSound, Zenon DEF Local
  <2>3. A.restarts + 1 \in Nat
      BY <1>2, Fields, CalmSound
  <2> HIDE DEF K, W
  <2> QED
      BY <2>1, <2>2, <2>3, FieldCalm
<1> QED
    BY <1>1, <1>2, <1>3, <1>4, <1>5, Zenon DEF AfterCrash, A, M, c

LEMMA AbortSubsystemCalm ==
    ASSUME NEW s \in Subsystem, NEW L \in Calm(s), NEW i \in Slot, NEW m
    PROVE  AbortSubsystem(s, L, i, m) \in Calm(s)
<1> DEFINE M == [L EXCEPT !.admin = "Offline", !.active = {}, !.running = {}]
<1>1. L \in Sound(s) /\ L \in Local
    BY CalmSound
<1>2. Same(L, M)
    BY <1>1, Zenon DEF Same, Local
<1>3. M \in Sound(s)
  <2>1. {} \in SUBSET Client /\ {} \in SUBSET Process /\ "Offline" \in AdminState
      BY DEF AdminState
  <2> QED
      BY <1>1, <2>1, Zenon DEF Local, Sound
<1> HIDE DEF M
<1>4. M \in Calm(s)
    BY <1>2, <1>3, SameCalm
<1>5. "Offline" \in OperState /\ NoClient \in ClientId
    BY DEF OperState, ClientId
<1>6. EnterState(M, i, "Offline", NoClient) \in Calm(s)
    BY <1>4, <1>5, EnterStateCalm
<1> QED
    BY <1>6, Zenon DEF AbortSubsystem, M

\* After a command the state it returns is one of the two given, and a coroutine
\* that takes it over still aims rightly.
LEMMA CommandCalm ==
    ASSUME NEW s \in Subsystem, NEW L \in Calm(s), NEW P, NEW m \in Message,
           NEW a \in OperState, NEW b \in OperState
    PROVE  LET H == HandleAdminCommand(s, L, P, m, a, b)
           IN  H.sub \in Calm(s) /\ H.next \in {a, b} /\ H.sub.co = L.co
<1> DEFINE M == SetClient(L, m)
<1>1. M \in Calm(s)
    BY HelpersCalm
<1>2. M.co = L.co
    BY CalmSound, Zenon DEF SetClient, Local
<1> HIDE DEF M
<1> QED
    BY <1>1, <1>2, Zenon DEF HandleAdminCommand, M

LEMMA AdoptCalm ==
    ASSUME NEW s \in Subsystem, NEW i \in Slot, NEW m \in Message, NEW stop,
           NEW H, H.sub \in Calm(s), H.next \in OperState,
           H.sub.co[i].state \in Passing => H.next # "Online"
    PROVE  /\ TakeOver(H, i, m) \in Calm(s)
           /\ TakeOver(H, i, m).co[i].next = H.next
           /\ Adopt(H, i, m, stop) \in Calm(s)
           /\ Adopt(H, i, m, stop).co[i].next = H.next
<1> DEFINE L == H.sub
           f == [L.co[i] EXCEPT !.next = H.next, !.cid = m.client]
           K == TakeOver(H, i, m)
           M == Adopt(H, i, m, stop)
<1>1. L \in Sound(s) /\ L \in Local /\ L.co \in [Slot -> Coroutine] /\ L.co[i] \in Coroutine
    BY CalmSound, Fields
<1>2. K \in Sound(s) /\ M \in Sound(s)
    BY <1>1, AdoptSound DEF TakeOver
<1>3. f.at = L.co[i].at /\ f.state = L.co[i].state /\ f.next = H.next
    BY <1>1 DEF Coroutine
<1>4. [L.co EXCEPT ![i].next = H.next, ![i].cid = m.client] = [L.co EXCEPT ![i] = f]
    BY <1>1
<1>5. K.oper = L.oper /\ K.co = [L.co EXCEPT ![i].next = H.next, ![i].cid = m.client]
    BY <1>1, Zenon DEF TakeOver, Local
<1>6. M.oper = L.oper /\ M.co = [L.co EXCEPT ![i].next = H.next, ![i].cid = m.client]
    BY <1>1, Zenon DEF Adopt, Local
<1> HIDE DEF K, M, f
<1>7. ASSUME NEW N \in Sound(s), N.oper = L.oper, N.co = [L.co EXCEPT ![i] = f]
      PROVE  N \in Calm(s) /\ N.co[i].next = H.next
  <2>1. \A j \in Slot : N.co[j] = IF j = i THEN f ELSE L.co[j]
      BY <1>1, <1>7
  <2>2. Aims(N)
      BY <1>3, <2>1 DEF Aims, Calm
  <2> QED
      BY <1>7, <2>1, <2>2, <1>3 DEF Calm
<1>8. K \in Calm(s) /\ K.co[i].next = H.next
    BY <1>2, <1>4, <1>5, <1>7
<1>9. M \in Calm(s) /\ M.co[i].next = H.next
    BY <1>2, <1>4, <1>6, <1>7
<1> QED
    BY <1>8, <1>9 DEF K, M

-----------------------------------------------------------------------------
(* The ways to end a step are good.                                        *)

LEMMA Before ==
    ASSUME IInv, AimsRight, NEW s \in Subsystem
    PROVE  sub[s] \in Calm(s)
BY Unpack DEF AimsRight, Calm

LEMMA PutGood ==
    ASSUME IInv, AimsRight, NEW s \in Subsystem, NEW L, NEW P, Put(s, L, P),
           Aims(L), L.oper = "Online" => sub[s].oper = "Online" \/ Complete(s, L)
    PROVE  GoodStep
<1>1. sub' = [sub EXCEPT ![s] = L] /\ sub \in [Subsystem -> Local]
    BY DEF Put, IInv, TypeOK
<1>2. ASSUME NEW t \in Subsystem
      PROVE  /\ Aims(sub'[t])
             /\ sub[t].oper # "Online" /\ sub'[t].oper = "Online" => Complete(t, sub'[t])
  <2>1. CASE t = s
      BY <2>1, <1>1
  <2>2. CASE t # s
      BY <2>2, <1>1 DEF AimsRight
  <2> QED
      BY <2>1, <2>2
<1> QED
    BY <1>2 DEF GoodStep

LEMMA SetGood ==
    ASSUME IInv, AimsRight, NEW s \in Subsystem, NEW L \in Calm(s), NEW P,
           Put(s, L, P) \/ Set(s, L, P)
    PROVE  GoodStep
BY PutGood DEF Set, Calm

LEMMA GotoGood ==
    ASSUME IInv, AimsRight, NEW s \in Subsystem, NEW i \in Slot, NEW L \in Calm(s), NEW P,
           NEW st \in OperState, NEW c \in ClientId, Goto(s, i, L, P, st, c),
           st = "Online" => Complete(s, L)
    PROVE  GoodStep
<1> DEFINE M == EnterState(L, i, st, c)
<1>1. Aims(M) /\ M.oper = st /\ M.running = L.running
    BY EnterStateCalm
<1>2. Put(s, M, P)
    BY DEF Goto, Set
<1> HIDE DEF M
<1> QED
    BY <1>1, <1>2, PutGood DEF Complete

LEMMA NotifyAndRunGood ==
    ASSUME IInv, AimsRight, NEW s \in Subsystem, NEW i \in Slot, NEW L \in Calm(s),
           NEW st \in OperState, NotifyAndRun(s, i, L, st),
           L.co[i].state \in Passing => st # "Online"
    PROVE  GoodStep
BY RunInCalm, SetGood DEF NotifyAndRun

LEMMA RestartNowGood ==
    ASSUME IInv, AimsRight, NEW s \in Subsystem, NEW i \in Slot, NEW L \in Calm(s), NEW P,
           NEW c \in ClientId, RestartNow(s, i, L, P, c)
    PROVE  GoodStep
BY GotoGood, States DEF RestartNow

LEMMA CrashGood ==
    ASSUME IInv, AimsRight, NEW s \in Subsystem, NEW i \in Slot, NEW L \in Calm(s), NEW P,
           NEW p \in Process, NEW how, Crash(s, i, L, P, p, how)
    PROVE  GoodStep
<1>1. Put(s, L, P) \/ Set(s, L, P) \/ Set(s, AfterCrash(s, i, L, p, how), P)
    BY Zenon DEF Crash
<1> QED
    BY <1>1, AfterCrashCalm, SetGood

\* Only the tail of StartingProcesses takes a subsystem online, when all its
\* processes run; in the states on the way next_state is not Online.
LEMMA TailsGood ==
    ASSUME IInv, AimsRight, NEW s \in Subsystem, NEW i \in Slot, NEW L \in Calm(s), NEW P
    PROVE  /\ L.co[i].next # "Online" /\ StartingChildrenTail(s, i, L, P) => GoodStep
           /\ ConnectingTail(s, i, L, P) => GoodStep
           /\ StartingProcessesTail(s, i, L, P) => GoodStep
           /\ L.co[i].next # "Online" /\ StoppingProcessesTail(s, i, L, P) => GoodStep
           /\ L.co[i].next # "Online" /\ StoppingChildrenTail(s, i, L, P) => GoodStep
           /\ RestartingTail(s, i, L, P) => GoodStep
           /\ RestartingProcessesTail(s, i, L, P) => GoodStep
<1> DEFINE c == L.co[i].cid
           next == L.co[i].next
<1>1. c \in ClientId /\ next \in OperState
    BY CoroutineFields, CalmSound
<1>2. {"Offline", "Connecting", "StartingProcesses"} \subseteq OperState
    BY DEF OperState
<1>3. AllProcessesRunning(s, L) => Complete(s, L)
    BY DEF AllProcessesRunning, Complete
<1> HIDE DEF c, next
<1>4. next # "Online" /\ StartingChildrenTail(s, i, L, P) => GoodStep
    BY <1>1, <1>2, SetGood, GotoGood DEF StartingChildrenTail, c, next
<1>5. ConnectingTail(s, i, L, P) => GoodStep
    BY <1>1, <1>2, SetGood, GotoGood DEF ConnectingTail, c
<1>6. StartingProcessesTail(s, i, L, P) => GoodStep
    BY <1>1, <1>3, SetGood, GotoGood DEF StartingProcessesTail, c, next
<1>7. next # "Online" /\ StoppingProcessesTail(s, i, L, P) => GoodStep
    BY <1>1, SetGood, GotoGood DEF StoppingProcessesTail, c, next
<1>8. next # "Online" /\ StoppingChildrenTail(s, i, L, P) => GoodStep
    BY <1>1, SetGood, GotoGood DEF StoppingChildrenTail, c, next
<1>9. RestartingTail(s, i, L, P) => GoodStep
    BY <1>1, SetGood, RestartNowGood DEF RestartingTail, c
<1>10. RestartingProcessesTail(s, i, L, P) => GoodStep
    BY <1>1, <1>2, SetGood, GotoGood DEF RestartingProcessesTail, c
<1> QED
    BY <1>4, <1>5, <1>6, <1>7, <1>8, <1>9, <1>10 DEF next

-----------------------------------------------------------------------------
(* The prologues.                                                          *)

LEMMA EnterOfflineGood ==
    ASSUME IInv, AimsRight, NEW s \in Subsystem, NEW i \in Slot, EnterOffline(s, i)
    PROVE  GoodStep
<1> DEFINE K == [sub[s] EXCEPT !.restarts = 0]
           L == Disconnect(K, Processes[s])
           M == ResetProcessRestarts(L)
<1>1. K \in Calm(s)
    BY Before, FieldCalm
<1> HIDE DEF K
<1>2. M \in Calm(s)
    BY <1>1, DisconnectCalm, HelpersCalm
<1>3. NotifyAndRun(s, i, M, "Offline")
    BY DEF EnterOffline, K
<1> HIDE DEF M
<1> QED
    BY <1>2, <1>3, States, NotifyAndRunGood

LEMMA EnterStartingChildrenGood ==
    ASSUME IInv, AimsRight, NEW s \in Subsystem, NEW i \in Slot,
           EnterStartingChildren(s, i)
    PROVE  GoodStep
BY Before, Context, States, GotoGood, NotifyAndRunGood DEF EnterStartingChildren

LEMMA EnterConnectingGood ==
    ASSUME IInv, AimsRight, NEW s \in Subsystem, NEW i \in Slot, EnterConnecting(s, i)
    PROVE  GoodStep
<1> DEFINE K == [sub[s] EXCEPT !.oper = "Connecting"]
           L == Connect(s, K)
<1>1. K \in Calm(s)
    BY Before, FieldCalm, States
<1> HIDE DEF K
<1>2. L \in Calm(s) /\ L.co[i].cid \in ClientId
    BY <1>1, HelpersCalm, CoroutineFields, CalmSound
<1> HIDE DEF L
<1>3. Goto(s, i, L, pipe, "StartingProcesses", L.co[i].cid)
      \/ NotifyAndRun(s, i, L, "Connecting")
    BY Zenon DEF EnterConnecting, L, K
<1> QED
    BY <1>2, <1>3, States, GotoGood, NotifyAndRunGood

\* A subsystem without processes goes online here; the others aim at it.
LEMMA EnterStartingProcessesGood ==
    ASSUME IInv, AimsRight, NEW s \in Subsystem, NEW i \in Slot,
           EnterStartingProcesses(s, i)
    PROVE  GoodStep
<1> DEFINE L == [sub[s] EXCEPT !.oper = "StartingProcesses"]
           D == ToLaunch(s)
           o == IF L.admin = "Offline" THEN "Offline" ELSE "Online"
           A == Launch(L, D)
           B == CloseSocket(Launch(L, D))
<1>1. L \in Calm(s)
    BY Before, FieldCalm, States
<1>2. o \in OperState
    BY States
<1>3. \/ (o # "Offline" => Processes[s] = {})
           /\ Goto(s, i, L, NotifyParents(pipe, s, o), o, L.co[i].cid)
      \/ NotifyAndRun(s, i, A, "Online")
      \/ NotifyAndRun(s, i, B, "Online")
      \/ Set(s, RestartIfPossible(CloseSocket(L), i), pipe)
    BY Zenon DEF EnterStartingProcesses
<1>4. L.co = sub[s].co /\ A.co = L.co /\ B.co = L.co
  <2>1. sub[s] \in Local /\ L \in Local
      BY <1>1, Before, CalmSound
  <2>2. L.co = sub[s].co
      BY <2>1, Zenon DEF Local
  <2> HIDE DEF L
  <2> QED
      BY <2>1, <2>2, Zenon DEF Launch, CloseSocket, Local
<1>5. L.co[i].state = "StartingProcesses"
    BY <1>4 DEF EnterStartingProcesses, Entering
<1> HIDE DEF L, D, o
<1>6. L.co[i].cid \in ClientId /\ (Processes[s] = {} => Complete(s, L))
    BY <1>1, CoroutineFields, CalmSound DEF Complete
<1>7. A \in Calm(s) /\ B \in Calm(s)
    BY <1>1, LaunchCalm, HelpersCalm
<1>8. RestartIfPossible(CloseSocket(L), i) \in Calm(s)
    BY <1>1, HelpersCalm, RestartIfPossibleCalm
<1> HIDE DEF A, B
<1>9. CASE (o # "Offline" => Processes[s] = {})
           /\ Goto(s, i, L, NotifyParents(pipe, s, o), o, L.co[i].cid)
    BY <1>9, <1>1, <1>2, <1>6, GotoGood
<1>10. CASE NotifyAndRun(s, i, A, "Online") \/ NotifyAndRun(s, i, B, "Online")
    BY <1>10, <1>4, <1>5, <1>7, States, NotifyAndRunGood DEF Passing
<1>11. CASE Set(s, RestartIfPossible(CloseSocket(L), i), pipe)
    BY <1>11, <1>8, SetGood
<1> QED
    BY <1>3, <1>9, <1>10, <1>11

LEMMA LaunchFailsGood ==
    ASSUME IInv, AimsRight, NEW s \in Subsystem, NEW i \in Slot, LaunchFails(s, i)
    PROVE  GoodStep
<1> DEFINE L == [sub[s] EXCEPT !.oper = "StartingProcesses"]
<1>1. L \in Calm(s)
    BY Before, FieldCalm, States
<1>2. PICK K : Put(s, RestartIfPossible(Launch(L, K), i), pipe)
    BY Zenon DEF LaunchFails
<1> HIDE DEF L
<1> QED
    BY <1>1, <1>2, LaunchCalm, RestartIfPossibleCalm, SetGood

LEMMA EnterStoppingGood ==
    ASSUME IInv, AimsRight, NEW s \in Subsystem, NEW i \in Slot,
           EnterStoppingProcesses(s, i) \/ EnterStoppingChildren(s, i)
    PROVE  GoodStep
<1>1. StopProcesses(s, sub[s]) \in Calm(s)
    BY Before, StopProcessesCalm
<1>2. [sub[s] EXCEPT !.co[i].off = {sub[s].co[i].cid}] \in Calm(s)
  <2>1. {sub[s].co[i].cid} \in SUBSET ClientId
      BY Context
  <2> QED
      BY <2>1, Before, CoroutineCalm
<1>3. CASE EnterStoppingProcesses(s, i)
    BY <1>1, <1>3, Before, Context, States, GotoGood, NotifyAndRunGood
       DEF EnterStoppingProcesses
<1>4. CASE EnterStoppingChildren(s, i)
    BY <1>2, <1>4, Before, Context, States, GotoGood, NotifyAndRunGood
       DEF EnterStoppingChildren
<1> QED
    BY <1>3, <1>4

LEMMA EnterRestartingGood ==
    ASSUME IInv, AimsRight, NEW s \in Subsystem, NEW i \in Slot,
           EnterRestarting(s, i) \/ EnterRestartingProcesses(s, i)
    PROVE  GoodStep
<1>1. /\ RunIn(StopProcesses(s, sub[s]), i, "Restarting") \in Calm(s)
      /\ RunIn(sub[s], i, "RestartingProcesses") \in Calm(s)
    BY Before, States, StopProcessesCalm, RunInCalm
<1>2. CASE EnterRestarting(s, i)
    BY <1>1, <1>2, Before, Context, States, SetGood, RestartNowGood DEF EnterRestarting
<1>3. CASE EnterRestartingProcesses(s, i)
    BY <1>1, <1>3, Before, Context, States, SetGood, GotoGood
       DEF EnterRestartingProcesses
<1> QED
    BY <1>2, <1>3

LEMMA PrologueGood ==
    ASSUME IInv, AimsRight, NEW s \in Subsystem, NEW i \in Slot, Prologue(s, i)
    PROVE  GoodStep
<1>1. CASE EnterOnline(s, i)
    BY <1>1, Before, States, NotifyAndRunGood DEF EnterOnline, Entering, Passing
<1>2. CASE EnterBroken(s, i)
    BY <1>2, Before, Context, NotifyAndRunGood DEF EnterBroken, Entering, Passing
<1> QED
    BY <1>1, <1>2, EnterOfflineGood, EnterStartingChildrenGood, EnterConnectingGood,
       EnterStartingProcessesGood, EnterStoppingGood, EnterRestartingGood DEF Prologue

-----------------------------------------------------------------------------
(* The messages.                                                           *)

\* What a step that reads a message can rely on.
LEMMA Receiving ==
    ASSUME IInv, AimsRight, NEW s \in Subsystem, NEW i \in Slot, NEW st, NEW code,
           Receives(s, i, st, code)
    PROVE  /\ pipe[s] # <<>>
           /\ sub[s].co[i].state = st
           /\ st \in Passing => sub[s].co[i].next # "Online"
BY DEF Receives, Running, AimsRight, Aims

\* A command that a state adopts: the state that follows is one of the two given.
LEMMA AdoptGood ==
    ASSUME IInv, AimsRight, NEW s \in Subsystem, NEW i \in Slot, pipe[s] # <<>>,
           NEW a \in OperState, NEW b \in OperState, NEW stop,
           sub[s].co[i].state \notin Passing \/ "Online" \notin {a, b}
    PROVE  /\ Answer(s, a, b).sub \in Calm(s) /\ Answer(s, a, b).next \in {a, b}
           /\ Adopt(Answer(s, a, b), i, Head(pipe[s]), stop) \in Calm(s)
           /\ Adopt(Answer(s, a, b), i, Head(pipe[s]), stop).co[i].next \in {a, b}
           /\ TakeOver(Answer(s, a, b), i, Head(pipe[s])) \in Calm(s)
           /\ TakeOver(Answer(s, a, b), i, Head(pipe[s])).co[i].next \in {a, b}
<1> DEFINE m == Head(pipe[s])
           H == Answer(s, a, b)
<1>1. m \in Message
    BY Reading
<1>2. H.sub \in Calm(s) /\ H.next \in {a, b} /\ H.sub.co = sub[s].co
    BY <1>1, Before, CommandCalm DEF Answer
<1> HIDE DEF H, m
<1>3. H.next \in OperState /\ (H.sub.co[i].state \in Passing => H.next # "Online")
    BY <1>2
<1>4. /\ Adopt(H, i, m, stop) \in Calm(s)
      /\ Adopt(H, i, m, stop).co[i].next = H.next
      /\ TakeOver(H, i, m) \in Calm(s)
      /\ TakeOver(H, i, m).co[i].next = H.next
    BY <1>1, <1>2, <1>3, AdoptCalm
<1> QED
    BY <1>2, <1>4 DEF H, m

LEMMA GetsAbortGood ==
    ASSUME IInv, AimsRight, NEW s \in Subsystem, NEW i \in Slot,
           GetsAbort(s, i) \/ GetsRestart(s, i) \/ GetsIgnored(s, i)
    PROVE  GoodStep
<1>1. CASE GetsAbort(s, i)
    BY <1>1, Before, AbortSubsystemCalm, SetGood DEF GetsAbort
<1>2. CASE GetsRestart(s, i)
    BY <1>2, Before, Context, States, GotoGood DEF GetsRestart
<1>3. CASE GetsIgnored(s, i)
    BY <1>3, Before, SetGood DEF GetsIgnored
<1> QED
    BY <1>1, <1>2, <1>3

LEMMA OfflineGood ==
    ASSUME IInv, AimsRight, NEW s \in Subsystem, NEW i \in Slot,
           OfflineChangeAdmin(s, i) \/ OfflineReportOper(s, i)
    PROVE  GoodStep
<1> DEFINE m == Head(pipe[s])
           H == HandleAdminCommand(s, sub[s], Take(s), m, "StartingChildren", "Offline")
           M == [H.sub EXCEPT !.interactive = m.from = Nobody /\ m.client \in Interactive]
           N == [M EXCEPT !.admin = "Online"]
           P == SendToChildren(H.pipe, s, "Online", m.client)
<1>1. pipe[s] # <<>>
    BY DEF OfflineChangeAdmin, OfflineReportOper, Receives
<1>2. H.sub \in Calm(s)
    BY <1>1, Reading, Before, States, CommandCalm
<1>3. M \in Calm(s)
  <2>1. (m.from = Nobody /\ m.client \in Interactive) \in BOOLEAN
      OBVIOUS
  <2> HIDE DEF H, m
  <2> QED
      BY <2>1, <1>2, FieldCalm, Zenon
<1>4. N \in Calm(s)
  <2> HIDE DEF M
  <2> QED
      BY <1>3, FieldCalm, States
<1>5. CASE OfflineChangeAdmin(s, i)
  <2>1. \/ Set(s, sub[s], NotifyParents(Take(s), s, sub[s].oper))
        \/ Set(s, M, H.pipe)
        \/ Goto(s, i, N, P, "StartingChildren", NoClient)
      BY <1>5, Zenon DEF OfflineChangeAdmin
  <2> HIDE DEF H, M, N, P
  <2> QED
      BY <2>1, <1>3, <1>4, Before, States, SetGood, GotoGood
<1>6. CASE OfflineReportOper(s, i)
    BY <1>6, Before, Context, States, SetGood, GotoGood DEF OfflineReportOper
<1> QED
    BY <1>5, <1>6

LEMMA StartingChildrenGood ==
    ASSUME IInv, AimsRight, NEW s \in Subsystem, NEW i \in Slot,
           StartingChildrenChangeAdmin(s, i) \/ StartingChildrenReportOper(s, i)
    PROVE  GoodStep
<1>1. /\ pipe[s] # <<>> /\ sub[s].co[i].state = "StartingChildren"
      /\ sub[s].co[i].next # "Online"
    BY Receiving DEF StartingChildrenChangeAdmin, StartingChildrenReportOper, Passing
<1>2. CASE StartingChildrenChangeAdmin(s, i)
  <2> DEFINE m == Head(pipe[s])
             H == Answer(s, "Connecting", "StoppingChildren")
             M == Adopt(H, i, m, "StoppingChildren")
             P == SendToChildren(H.pipe, s, m.state, m.client)
  <2>1. M \in Calm(s) /\ M.co[i].next \in {"Connecting", "StoppingChildren"}
      BY <1>1, States, AdoptGood
  <2>2. StartingChildrenTail(s, i, M, P)
      BY <1>2, Zenon DEF StartingChildrenChangeAdmin, Answer
  <2> HIDE DEF M, P
  <2> QED
      BY <2>1, <2>2, TailsGood
<1>3. CASE StartingChildrenReportOper(s, i)
  <2> DEFINE L == sub[s]
             m == Head(pipe[s])
             K == [L EXCEPT !.co[i].told = @ \cup {m.from}]
  <2>1. m.code = "ReportOper"
      BY <1>3 DEF StartingChildrenReportOper, Receives
  <2>2. L.co[i].told \cup {m.from} \in SUBSET Subsystem
      BY <1>1, <2>1, Reading, MessageFields, Context, SoundLocal, CoroutineFields
  <2>3. K \in Calm(s)
      BY <2>2, Before, CoroutineCalm
  <2>4. K.co[i].next = L.co[i].next
    <3>1. L \in Local /\ L.co \in [Slot -> Coroutine] /\ L.co[i] \in Coroutine
        BY Before, CalmSound, Fields
    <3>2. K.co = [L.co EXCEPT ![i].told = @ \cup {m.from}]
        BY <3>1, Zenon DEF Local
    <3> HIDE DEF K
    <3> QED
        BY <3>1, <3>2 DEF Coroutine
  <2>5. \/ Goto(s, i, L, Take(s), "Broken", L.co[i].cid)
        \/ StartingChildrenTail(s, i, K, NotifyParents(Take(s), s, L.oper))
        \/ StartingChildrenTail(s, i, L, NotifyParents(Take(s), s, L.oper))
      BY <1>3, Zenon DEF StartingChildrenReportOper
  <2> HIDE DEF K
  <2> QED
      BY <1>1, <2>3, <2>4, <2>5, Before, Context, States, GotoGood, TailsGood
<1> QED
    BY <1>2, <1>3

LEMMA ConnectingGood ==
    ASSUME IInv, AimsRight, NEW s \in Subsystem, NEW i \in Slot,
           ConnectingChangeAdmin(s, i) \/ ConnectingReportOper(s, i)
    PROVE  GoodStep
<1>1. CASE ConnectingChangeAdmin(s, i)
  <2> DEFINE m == Head(pipe[s])
             H == HandleAdminCommand(s, sub[s], Take(s), m, "StoppingProcesses",
                                     "StoppingProcesses")
             K == [H.sub EXCEPT !.admin = "Offline"]
  <2>1. pipe[s] # <<>>
      BY <1>1 DEF ConnectingChangeAdmin, Receives
  <2>2. H.sub \in Calm(s) /\ m.client \in ClientId
      BY <2>1, Reading, Before, States, CommandCalm
  <2>3. \/ Goto(s, i, K, H.pipe, "StoppingProcesses", m.client)
        \/ ConnectingTail(s, i, sub[s], Take(s))
      BY <1>1, Zenon DEF ConnectingChangeAdmin
  <2> HIDE DEF H
  <2>4. K \in Calm(s)
      BY <2>2, FieldCalm, States
  <2> HIDE DEF K
  <2> QED
      BY <2>2, <2>3, <2>4, Before, States, GotoGood, TailsGood
<1>2. CASE ConnectingReportOper(s, i)
    BY <1>2, Before, TailsGood DEF ConnectingReportOper
<1> QED
    BY <1>1, <1>2

LEMMA StartingProcessesGood ==
    ASSUME IInv, AimsRight, NEW s \in Subsystem, NEW i \in Slot,
           \/ StartingProcessesChangeAdmin(s, i)
           \/ StartingProcessesReportOper(s, i)
           \/ StartingProcessesRestartProcesses(s, i)
    PROVE  GoodStep
<1>1. CASE StartingProcessesChangeAdmin(s, i)
  <2> DEFINE m == Head(pipe[s])
             H == Answer(s, "Online", "StoppingProcesses")
             M == Adopt(H, i, m, "StoppingProcesses")
             P == SendToChildren(H.pipe, s, m.state, m.client)
  <2>1. pipe[s] # <<>> /\ sub[s].co[i].state \notin Passing
      BY <1>1, Receiving DEF StartingProcessesChangeAdmin, Passing
  <2>2. "Online" \in OperState /\ "StoppingProcesses" \in OperState
      BY DEF OperState
  <2>3. M \in Calm(s)
      BY <2>1, <2>2, AdoptGood, Zenon
  <2>4. StartingProcessesTail(s, i, M, P)
      BY <1>1, Zenon DEF StartingProcessesChangeAdmin, Answer
  <2> HIDE DEF M, P
  <2> QED
      BY <2>3, <2>4, TailsGood
<1>2. CASE StartingProcessesReportOper(s, i)
    BY <1>2, Before, TailsGood DEF StartingProcessesReportOper
<1>3. CASE StartingProcessesRestartProcesses(s, i)
  <2>1. pipe[s] # <<>>
      BY <1>3 DEF StartingProcessesRestartProcesses, Receives
  <2> QED
      BY <1>3, <2>1, Before, Reading, States, GotoGood
         DEF StartingProcessesRestartProcesses
<1> QED
    BY <1>1, <1>2, <1>3

LEMMA OnlineGood ==
    ASSUME IInv, AimsRight, NEW s \in Subsystem, NEW i \in Slot,
           \/ OnlineChangeAdmin(s, i) \/ OnlineReportOper(s, i)
           \/ OnlineRestartProcesses(s, i) \/ OnlineRestartCrashed(s, i)
    PROVE  GoodStep
<1>1. /\ pipe[s] # <<>> /\ sub[s].co[i].state = "Online"
      /\ Head(pipe[s]).client \in ClientId
  <2>1. pipe[s] # <<>> /\ sub[s].co[i].state = "Online"
      BY Receiving DEF OnlineChangeAdmin, OnlineReportOper, OnlineRestartProcesses,
             OnlineRestartCrashed
  <2> QED
      BY <2>1, Reading
<1>2. CASE OnlineChangeAdmin(s, i)
  <2> DEFINE m == Head(pipe[s])
             H == Answer(s, "Online", "StoppingProcesses")
             M == Adopt(H, i, m, "StoppingProcesses")
  <2>1. /\ sub[s].co[i].state \notin Passing
        /\ "Online" \in OperState /\ "StoppingProcesses" \in OperState
      BY <1>1 DEF Passing, OperState
  <2>2. M \in Calm(s)
      BY <1>1, <2>1, AdoptGood, Zenon
  <2>3. \/ Set(s, sub[s], NotifyParents(Take(s), s, sub[s].oper))
        \/ Set(s, M, H.pipe)
        \/ Goto(s, i, M, H.pipe, "StoppingProcesses", m.client)
      BY <1>2, Zenon DEF OnlineChangeAdmin, Answer
  <2> HIDE DEF H, M
  <2> QED
      BY <1>1, <2>2, <2>3, Before, States, SetGood, GotoGood
<1>3. CASE OnlineReportOper(s, i)
    BY <1>3, Before, Context, States, SetGood, GotoGood DEF OnlineReportOper
<1>4. CASE OnlineRestartProcesses(s, i)
  <2> DEFINE m == Head(pipe[s])
             A == StopProcesses(s, sub[s])
             B == Stop(sub[s], m.procs \cap sub[s].running)
             X == [A EXCEPT !.todo = Processes[s]]
             Y == [B EXCEPT !.todo = m.procs]
  <2>1. X \in Calm(s)
    <3>1. A \in Calm(s) /\ Processes[s] \in SUBSET Process
        BY Before, StopProcessesCalm, Finite
    <3> HIDE DEF A
    <3> QED
        BY <3>1, FieldCalm
  <2>2. Y \in Calm(s)
    <3>1. B \in Calm(s) /\ m.procs \in SUBSET Process
        BY <1>1, Before, StopCalm, Reading, MessageFields
    <3> HIDE DEF B, m
    <3> QED
        BY <3>1, FieldCalm
  <2>3. \/ Goto(s, i, X, Take(s), "RestartingProcesses", m.client)
        \/ Goto(s, i, Y, Take(s), "RestartingProcesses", m.client)
      BY <1>4, Zenon DEF OnlineRestartProcesses
  <2> HIDE DEF X, Y
  <2> QED
      BY <1>1, <2>1, <2>2, <2>3, States, GotoGood
<1>5. CASE OnlineRestartCrashed(s, i)
    BY <1>1, <1>5, Before, States, GotoGood DEF OnlineRestartCrashed
<1> QED
    BY <1>2, <1>3, <1>4, <1>5

LEMMA StoppingProcessesGood ==
    ASSUME IInv, AimsRight, NEW s \in Subsystem, NEW i \in Slot,
           StoppingProcessesChangeAdmin(s, i) \/ StoppingProcessesReportOper(s, i)
    PROVE  GoodStep
<1>1. pipe[s] # <<>> /\ sub[s].co[i].next # "Online"
    BY Receiving DEF StoppingProcessesChangeAdmin, StoppingProcessesReportOper, Passing
<1>2. CASE StoppingProcessesChangeAdmin(s, i)
  <2> DEFINE m == Head(pipe[s])
             H == Answer(s, "Connecting", "StoppingChildren")
             M == TakeOver(H, i, m)
  <2>1. M \in Calm(s) /\ M.co[i].next \in {"Connecting", "StoppingChildren"}
      BY <1>1, States, AdoptGood
  <2>2. StoppingProcessesTail(s, i, M, H.pipe)
      BY <1>2, Zenon DEF StoppingProcessesChangeAdmin, Answer, TakeOver
  <2> HIDE DEF H, M
  <2> QED
      BY <2>1, <2>2, TailsGood
<1>3. CASE StoppingProcessesReportOper(s, i)
    BY <1>1, <1>3, Before, TailsGood DEF StoppingProcessesReportOper
<1> QED
    BY <1>2, <1>3

LEMMA StoppingChildrenGood ==
    ASSUME IInv, AimsRight, NEW s \in Subsystem, NEW i \in Slot,
           StoppingChildrenChangeAdmin(s, i) \/ StoppingChildrenReportOper(s, i)
    PROVE  GoodStep
<1> DEFINE m == Head(pipe[s])
<1>1. /\ pipe[s] # <<>> /\ sub[s].co[i].next # "Online"
      /\ m \in Message /\ m.client \in ClientId
  <2>1. pipe[s] # <<>> /\ sub[s].co[i].next # "Online"
      BY Receiving DEF StoppingChildrenChangeAdmin, StoppingChildrenReportOper, Passing
  <2> QED
      BY <2>1, Reading
<1>2. CASE StoppingChildrenChangeAdmin(s, i)
  <2> DEFINE H == Answer(s, "StartingChildren", "Offline")
             K == TakeOver(H, i, m)
             off == IF m.state = "Offline" THEN H.sub.co[i].off \cup {m.client}
                    ELSE H.sub.co[i].off \ {m.client}
             M == [H.sub EXCEPT !.co[i].next = H.next, !.co[i].cid = m.client,
                                !.co[i].off = off]
             N == [K EXCEPT !.co[i].off = off]
  <2>1. /\ H.sub \in Calm(s)
        /\ K \in Calm(s) /\ K.co[i].next \in {"StartingChildren", "Offline"}
      BY <1>1, States, AdoptGood
  <2>2. StoppingChildrenTail(s, i, M, H.pipe)
      BY <1>2, Zenon DEF StoppingChildrenChangeAdmin, Answer
  <2>3. off \in SUBSET ClientId
      BY <1>1, <2>1, CalmSound, CoroutineFields
  <2> HIDE DEF H, off, m
  <2>4. M = N
      BY <2>1, CalmSound, Zenon DEF TakeOver, Local
  <2> HIDE DEF K
  <2>5. N \in Calm(s)
      BY <2>1, <2>3, CoroutineCalm
  <2>6. N.co[i].next = K.co[i].next
    <3>1. K \in Local /\ K.co \in [Slot -> Coroutine] /\ K.co[i] \in Coroutine
        BY <2>1, CalmSound, Fields
    <3>2. N.co = [K.co EXCEPT ![i].off = off]
        BY <3>1, Zenon DEF Local
    <3> HIDE DEF N
    <3> QED
        BY <3>1, <3>2 DEF Coroutine
  <2> HIDE DEF M, N
  <2> QED
      BY <2>1, <2>2, <2>4, <2>5, <2>6, TailsGood
<1>3. CASE StoppingChildrenReportOper(s, i)
  <2> DEFINE L == sub[s]
             K == [L EXCEPT !.co[i].told = @ \cup {m.from}]
  <2>1. m.code = "ReportOper"
      BY <1>3 DEF StoppingChildrenReportOper, Receives
  <2>2. L.co[i].told \cup {m.from} \in SUBSET Subsystem
      BY <1>1, <2>1, MessageFields, Context, SoundLocal, CoroutineFields
  <2>3. K \in Calm(s)
      BY <2>2, Before, CoroutineCalm
  <2>4. \/ StoppingChildrenTail(s, i, K, NotifyParents(Take(s), s, L.oper))
        \/ StoppingChildrenTail(s, i, L, NotifyParents(Take(s), s, L.oper))
      BY <1>3, Zenon DEF StoppingChildrenReportOper
  <2> HIDE DEF m
  <2>5. K.co[i].next = L.co[i].next
    <3>1. L \in Local /\ L.co \in [Slot -> Coroutine] /\ L.co[i] \in Coroutine
        BY Before, CalmSound, Fields
    <3>2. K.co = [L.co EXCEPT ![i].told = @ \cup {m.from}]
        BY <3>1, Zenon DEF Local
    <3> HIDE DEF K
    <3> QED
        BY <3>1, <3>2 DEF Coroutine
  <2> HIDE DEF K
  <2> QED
      BY <1>1, <2>3, <2>4, <2>5, Before, TailsGood
<1> QED
    BY <1>2, <1>3

LEMMA RestartingGood ==
    ASSUME IInv, AimsRight, NEW s \in Subsystem, NEW i \in Slot,
           \/ RestartingChangeAdmin(s, i) \/ RestartingReportOper(s, i)
           \/ RestartingProcessesChangeAdmin(s, i) \/ RestartingProcessesOther(s, i)
    PROVE  GoodStep
<1>1. CASE RestartingChangeAdmin(s, i)
    BY <1>1, Before, Context, RestartNowGood, TailsGood DEF RestartingChangeAdmin
<1>2. CASE RestartingReportOper(s, i)
    BY <1>2, Before, TailsGood DEF RestartingReportOper
<1>3. CASE RestartingProcessesChangeAdmin(s, i)
    BY <1>3, Before, Context, States, GotoGood, TailsGood
       DEF RestartingProcessesChangeAdmin
<1>4. CASE RestartingProcessesOther(s, i)
    BY <1>4, Before, TailsGood DEF RestartingProcessesOther
<1> QED
    BY <1>1, <1>2, <1>3, <1>4

LEMMA BrokenGood ==
    ASSUME IInv, AimsRight, NEW s \in Subsystem, NEW i \in Slot,
           BrokenCommand(s, i) \/ BrokenRestartProcesses(s, i)
    PROVE  GoodStep
<1> DEFINE c == sub[s].co[i].cid
           K == [sub[s] EXCEPT !.restarts = 0]
           L == ResetProcessRestarts(K)
           P == SendToChildren(Take(s), s, Head(pipe[s]).state, Head(pipe[s]).client)
           A == [L EXCEPT !.active = @ \cup Bits(c)]
           X == [L EXCEPT !.active = @ \ Bits(c)]
           B == [L EXCEPT !.active = @ \ Bits(c), !.admin = "Offline"]
<1>1. K \in Calm(s) /\ c \in ClientId
    BY Before, Context, FieldCalm
<1> HIDE DEF K, c
<1>2. L \in Calm(s)
    BY <1>1, HelpersCalm
<1> HIDE DEF L
<1>3. L.active \cup Bits(c) \in SUBSET Client /\ L.active \ Bits(c) \in SUBSET Client
    BY <1>1, <1>2, BitsType, Fields, CalmSound
<1>4. A \in Calm(s) /\ X \in Calm(s)
    BY <1>2, <1>3, FieldCalm
<1>5. B \in Calm(s)
  <2>1. B = [X EXCEPT !.admin = "Offline"]
      BY <1>2, CalmSound, Zenon DEF Local
  <2> HIDE DEF X, B
  <2> QED
      BY <1>4, <2>1, FieldCalm, States
<1>6. CASE BrokenCommand(s, i)
  <2>1. \/ Goto(s, i, A, P, "StartingChildren", c)
        \/ Goto(s, i, B, P, "StoppingChildren", c)
      BY <1>6, Zenon DEF BrokenCommand, L, K, c
  <2> HIDE DEF A, B
  <2> QED
      BY <2>1, <1>1, <1>4, <1>5, States, GotoGood
<1>7. CASE BrokenRestartProcesses(s, i)
  <2>1. Goto(s, i, A, Take(s), "Connecting", c)
      BY <1>7, Zenon DEF BrokenRestartProcesses, L, K, c
  <2> HIDE DEF A
  <2> QED
      BY <2>1, <1>1, <1>4, States, GotoGood
<1> QED
    BY <1>6, <1>7

LEMMA WaitForRestartGood ==
    ASSUME IInv, AimsRight, NEW s \in Subsystem, NEW i \in Slot,
           WaitForRestartMessage(s, i)
    PROVE  GoodStep
<1> DEFINE m == Head(pipe[s])
<1>1. \/ Goto(s, i, sub[s], Take(s), "Restarting", sub[s].co[i].cid)
      \/ \E j \in Slot : Goto(s, i, AbortSubsystem(s, sub[s], j, m), Take(s),
                              "Restarting", sub[s].co[i].cid)
      \/ Set(s, sub[s], Take(s))
    BY Zenon DEF WaitForRestartMessage
<1>2. \A j \in Slot : AbortSubsystem(s, sub[s], j, m) \in Calm(s)
    BY Before, AbortSubsystemCalm
<1> QED
    BY <1>1, <1>2, Before, Context, States, GotoGood, SetGood

LEMMA GetsMessageGood ==
    ASSUME IInv, AimsRight, NEW s \in Subsystem, NEW i \in Slot, GetsMessage(s, i)
    PROVE  GoodStep
BY GetsAbortGood, OfflineGood, StartingChildrenGood, ConnectingGood,
   StartingProcessesGood, OnlineGood, StoppingProcessesGood, StoppingChildrenGood,
   RestartingGood, BrokenGood, WaitForRestartGood DEF GetsMessage

-----------------------------------------------------------------------------
(* The events of StageZero.                                                *)

\* What a step that reads an event can rely on.
LEMMA EventsCalm ==
    ASSUME IInv, AimsRight, NEW s \in Subsystem, sub[s].events # <<>>
    PROVE  /\ ReadEvent(sub[s]) \in Calm(s) /\ NoteStop(sub[s]) \in Calm(s)
           /\ ReadEvent(sub[s]).co = sub[s].co /\ NoteStop(sub[s]).co = sub[s].co
           /\ Head(sub[s].events) \in StageZeroEvent
<1>1. sub[s] \in Local
    BY Before, CalmSound
<1>2. ReadEvent(sub[s]).co = sub[s].co
    BY <1>1, Zenon DEF ReadEvent, CloseSocket, Local
<1>3. NoteStop(sub[s]).co = sub[s].co
  <2>1. ReadEvent(sub[s]) \in Local
      BY Before, ReadEventCalm, CalmSound
  <2> QED
      BY <1>2, <2>1, Zenon DEF NoteStop, SetStopped, Local
<1> QED
    BY <1>2, <1>3, Before, ReadEventCalm, Events

LEMMA QuietEventsGood ==
    ASSUME IInv, AimsRight, NEW s \in Subsystem, NEW i \in Slot,
           \/ IgnoreEvent(s, i) \/ StartingChildrenEvent(s, i) \/ ConnectingEvent(s, i)
           \/ StoppingChildrenEvent(s, i) \/ RestartingEvent(s, i)
           \/ WaitForRestartEvent(s, i)
    PROVE  GoodStep
<1>1. sub[s].events # <<>>
    BY DEF IgnoreEvent, StartingChildrenEvent, ConnectingEvent, StoppingChildrenEvent,
           RestartingEvent, WaitForRestartEvent, Reads, HasEvent
<1>2. StartingChildrenEvent(s, i) \/ StoppingChildrenEvent(s, i)
        => sub[s].co[i].next # "Online"
    BY DEF StartingChildrenEvent, StoppingChildrenEvent, Reads, Running, Passing,
           AimsRight, Aims
<1>3. CASE IgnoreEvent(s, i)
    BY <1>1, <1>3, EventsCalm, SetGood DEF IgnoreEvent
<1>4. CASE StartingChildrenEvent(s, i)
    BY <1>1, <1>2, <1>4, EventsCalm, SetGood, TailsGood DEF StartingChildrenEvent
<1>5. CASE ConnectingEvent(s, i)
    BY <1>1, <1>5, EventsCalm, SetGood, TailsGood DEF ConnectingEvent
<1>6. CASE StoppingChildrenEvent(s, i)
    BY <1>1, <1>2, <1>6, EventsCalm, TailsGood DEF StoppingChildrenEvent
<1>7. CASE RestartingEvent(s, i)
    BY <1>1, <1>7, EventsCalm, TailsGood DEF RestartingEvent
<1>8. CASE WaitForRestartEvent(s, i)
    BY <1>1, <1>8, EventsCalm, SetGood DEF WaitForRestartEvent
<1> QED
    BY <1>3, <1>4, <1>5, <1>6, <1>7, <1>8

LEMMA StartingProcessesEventGood ==
    ASSUME IInv, AimsRight, NEW s \in Subsystem, NEW i \in Slot,
           StartingProcessesEvent(s, i)
    PROVE  GoodStep
<1> DEFINE L == ReadEvent(sub[s])
           e == Head(sub[s].events)
           K == SetStopped(L, e.proc)
           M == [K EXCEPT !.exit[e.proc] = e.how]
<1>1. sub[s].events # <<>>
    BY DEF StartingProcessesEvent, Reads, HasEvent
<1>2. L \in Calm(s) /\ e \in StageZeroEvent
    BY <1>1, EventsCalm
<1>3. \/ e.kind = "start" /\ StartingProcessesTail(s, i, SetRunning(L, e.proc), pipe)
      \/ e.kind = "stop" /\ e.how # "signal" /\ StartingProcessesTail(s, i, M, pipe)
      \/ e.kind = "stop" /\ Crash(s, i, L, pipe, e.proc, e.how)
      \/ StartingProcessesTail(s, i, L, pipe)
    BY DEF StartingProcessesEvent
<1> HIDE DEF L, e
<1>4. CASE e.kind = "start" /\ StartingProcessesTail(s, i, SetRunning(L, e.proc), pipe)
    BY <1>4, <1>2, EventFields, HelpersCalm, TailsGood
<1>5. CASE /\ e.kind = "stop" /\ e.how # "signal"
           /\ StartingProcessesTail(s, i, M, pipe)
  <2>1. e.proc \in Process /\ e.how \in {"ok", "fail"}
      BY <1>5, <1>2, EventFields
  <2>2. K \in Calm(s)
      BY <2>1, <1>2, HelpersCalm
  <2> HIDE DEF K
  <2>3. [K.exit EXCEPT ![e.proc] = e.how]
          \in [Process -> {"unset", "launched", "ok", "fail"}]
      BY <2>1, <2>2, Fields, CalmSound
  <2>4. M \in Calm(s)
      BY <2>2, <2>3, FieldCalm
  <2> HIDE DEF M
  <2> QED
      BY <2>4, <1>5, TailsGood
<1>6. CASE e.kind = "stop" /\ Crash(s, i, L, pipe, e.proc, e.how)
    BY <1>6, <1>2, EventFields, CrashGood
<1>7. CASE StartingProcessesTail(s, i, L, pipe)
    BY <1>7, <1>2, TailsGood
<1> QED
    BY <1>3, <1>4, <1>5, <1>6, <1>7

LEMMA OnlineEventGood ==
    ASSUME IInv, AimsRight, NEW s \in Subsystem, NEW i \in Slot, OnlineEvent(s, i)
    PROVE  GoodStep
<1> DEFINE L == ReadEvent(sub[s])
           e == Head(sub[s].events)
           K == SetStopped(L, e.proc)
           M == [K EXCEPT !.admin = "Offline"]
           D == Disconnect(L, Processes[s])
<1>1. sub[s].events # <<>>
    BY DEF OnlineEvent, Reads, HasEvent
<1>2. L \in Calm(s) /\ e \in StageZeroEvent
    BY <1>1, EventsCalm
<1>3. \/ Goto(s, i, D, pipe, "Restarting", NoClient)
      \/ e.kind = "stop" /\ Goto(s, i, M, pipe, "Offline", NoClient)
      \/ e.kind = "stop" /\ Crash(s, i, L, pipe, e.proc, e.how)
      \/ Set(s, L, pipe)
    BY DEF OnlineEvent
<1> HIDE DEF L, e
<1>4. CASE Goto(s, i, D, pipe, "Restarting", NoClient)
    BY <1>4, <1>2, States, DisconnectCalm, GotoGood
<1>5. CASE e.kind = "stop" /\ Goto(s, i, M, pipe, "Offline", NoClient)
  <2>1. K \in Calm(s)
      BY <1>5, <1>2, EventFields, HelpersCalm
  <2> HIDE DEF K
  <2>2. M \in Calm(s)
      BY <2>1, States, FieldCalm
  <2> HIDE DEF M
  <2> QED
      BY <2>2, <1>5, States, GotoGood
<1>6. CASE e.kind = "stop" /\ Crash(s, i, L, pipe, e.proc, e.how)
    BY <1>6, <1>2, EventFields, CrashGood
<1>7. CASE Set(s, L, pipe)
    BY <1>7, <1>2, SetGood
<1> QED
    BY <1>3, <1>4, <1>5, <1>6, <1>7

LEMMA StoppingProcessesEventGood ==
    ASSUME IInv, AimsRight, NEW s \in Subsystem, NEW i \in Slot,
           StoppingProcessesEvent(s, i)
    PROVE  GoodStep
<1> DEFINE A == Disconnect(ReadEvent(sub[s]), Processes[s])
           B == NoteStop(sub[s])
<1>1. sub[s].events # <<>> /\ sub[s].co[i].next # "Online"
    BY DEF StoppingProcessesEvent, Reads, HasEvent, Running, Passing, AimsRight, Aims
<1>2. A \in Calm(s) /\ B \in Calm(s) /\ B.co = sub[s].co
    BY <1>1, EventsCalm, DisconnectCalm
<1>3. A.co = sub[s].co
  <2> DEFINE L == ReadEvent(sub[s])
  <2>1. L \in Local /\ L.co = sub[s].co
      BY <1>1, EventsCalm, CalmSound
  <2> HIDE DEF L
  <2>2. Disconnect(L, Processes[s]).co = L.co
      BY <2>1, Zenon DEF Disconnect, CloseSocket, Local
  <2> QED
      BY <2>1, <2>2 DEF L
<1>4. StoppingProcessesTail(s, i, A, pipe) \/ StoppingProcessesTail(s, i, B, pipe)
    BY Zenon DEF StoppingProcessesEvent
<1> HIDE DEF A, B
<1> QED
    BY <1>1, <1>2, <1>3, <1>4, TailsGood

LEMMA RestartingProcessesEventGood ==
    ASSUME IInv, AimsRight, NEW s \in Subsystem, NEW i \in Slot,
           RestartingProcessesEvent(s, i)
    PROVE  GoodStep
<1> DEFINE L == ReadEvent(sub[s])
           e == Head(sub[s].events)
           R == SetRunning(L, e.proc)
           A == [R EXCEPT !.co[i].started = @ \cup {e.proc}]
           B == [L EXCEPT !.co[i].started = @ \ {e.proc}]
<1>1. sub[s].events # <<>>
    BY DEF RestartingProcessesEvent, Reads, HasEvent
<1>2. L \in Calm(s) /\ NoteStop(sub[s]) \in Calm(s) /\ e \in StageZeroEvent
    BY <1>1, EventsCalm
<1>3. \/ e.kind = "start" /\ RestartingProcessesTail(s, i, A, pipe)
      \/ e.kind = "stop" /\ Crash(s, i, B, pipe, e.proc, "signal")
      \/ RestartingProcessesTail(s, i, NoteStop(sub[s]), pipe)
    BY DEF RestartingProcessesEvent
<1> HIDE DEF L, e
<1>4. CASE e.kind = "start" /\ RestartingProcessesTail(s, i, A, pipe)
  <2>1. e.proc \in Process /\ R \in Calm(s)
      BY <1>4, <1>2, EventFields, HelpersCalm
  <2> HIDE DEF R
  <2>2. R.co[i].started \cup {e.proc} \in SUBSET Process
      BY <2>1, CalmSound, CoroutineFields
  <2>3. A \in Calm(s)
      BY <2>1, <2>2, CoroutineCalm
  <2> HIDE DEF A
  <2> QED
      BY <2>3, <1>4, TailsGood
<1>5. CASE e.kind = "stop" /\ Crash(s, i, B, pipe, e.proc, "signal")
  <2>1. L.co[i].started \ {e.proc} \in SUBSET Process
      BY <1>2, CalmSound, CoroutineFields
  <2>2. B \in Calm(s)
      BY <1>2, <2>1, CoroutineCalm
  <2> HIDE DEF B
  <2> QED
      BY <2>2, <1>5, <1>2, EventFields, CrashGood
<1>6. CASE RestartingProcessesTail(s, i, NoteStop(sub[s]), pipe)
    BY <1>6, <1>2, TailsGood
<1> QED
    BY <1>3, <1>4, <1>5, <1>6

LEMMA StateStepGood ==
    ASSUME IInv, AimsRight, NEW s \in Subsystem, NEW i \in Slot, StateStep(s, i)
    PROVE  GoodStep
<1>1. CASE GetsEvent(s, i)
    BY <1>1, QuietEventsGood, StartingProcessesEventGood, OnlineEventGood,
       StoppingProcessesEventGood, RestartingProcessesEventGood DEF GetsEvent
<1>2. CASE DelayOver(s, i)
    BY <1>2, Before, Context, States, GotoGood DEF DelayOver
<1> QED
    BY <1>1, <1>2, PrologueGood, GetsMessageGood DEF StateStep

-----------------------------------------------------------------------------
(* The other steps leave the operational states and the coroutines alone.  *)

LEMMA SameGood ==
    ASSUME AimsRight, \A s \in Subsystem : Same(sub[s], sub'[s])
    PROVE  GoodStep
BY DEF AimsRight, GoodStep, Same, Aims

LEMMA PutSameGood ==
    ASSUME IInv, AimsRight, NEW s \in Subsystem, NEW L, NEW P, Same(sub[s], L),
           Put(s, L, P) \/ Set(s, L, P)
    PROVE  GoodStep
<1>1. sub' = [sub EXCEPT ![s] = L] /\ sub \in [Subsystem -> Local]
    BY DEF Put, Set, IInv, TypeOK
<1>2. \A t \in Subsystem : Same(sub[t], sub'[t])
    BY <1>1 DEF Same
<1> QED
    BY <1>2, SameGood

LEMMA ConnectorGood ==
    ASSUME IInv, AimsRight, NEW s \in Subsystem,
           ConnectorConnects(s) \/ ConnectorQuits(s) \/ CrashTimer(s) \/ Drop(s)
    PROVE  GoodStep
<1> DEFINE A == [CloseSocket(sub[s]) EXCEPT
                   !.conn = @ - 1, !.umb = "connected", !.sock = "open",
                   !.events = <<[kind |-> "connect"]>>]
           B == [sub[s] EXCEPT !.conn = @ - 1]
           C == [sub[s] EXCEPT !.timers = @ - 1]
           D == [CloseSocket(sub[s]) EXCEPT
                   !.sock = "eof",
                   !.events = Append(sub[s].events, [kind |-> "disconnect"])]
<1>1. sub[s] \in Local
    BY Before, CalmSound
<1>2. Same(sub[s], A) /\ Same(sub[s], D)
    BY <1>1, Zenon DEF Same, CloseSocket, Local
<1>3. Same(sub[s], B) /\ Same(sub[s], C)
    BY <1>1, Zenon DEF Same, Local
<1>4. \/ Set(s, A, pipe)
      \/ Set(s, B, pipe)
      \/ \E P : Set(s, C, P)
      \/ Put(s, D, pipe)
    BY Zenon DEF ConnectorConnects, ConnectorQuits, CrashTimer, Drop
<1> HIDE DEF A, B, C, D
<1> QED
    BY <1>2, <1>3, <1>4, PutSameGood

\* An event of an instance of a process.
LEMMA TellGood ==
    ASSUME IInv, AimsRight, NEW s \in Subsystem, NEW p, NEW e,
           \/ \E l : \/ Put(s, Tell([sub[s] EXCEPT !.live[p] = l], e), pipe)
                     \/ Set(s, Tell([sub[s] EXCEPT !.live[p] = l], e), pipe)
           \/ \E f, g : \/ Put(s, Tell(Move(sub[s], p, f, g), e), pipe)
                        \/ Set(s, Tell(Move(sub[s], p, f, g), e), pipe)
    PROVE  GoodStep
<1>1. sub[s] \in Local
    BY Before, CalmSound
<1>2. ASSUME NEW l PROVE Same(sub[s], Tell([sub[s] EXCEPT !.live[p] = l], e))
    BY <1>1, Zenon DEF Same, Tell, Local
<1>3. ASSUME NEW f, NEW g PROVE Same(sub[s], Tell(Move(sub[s], p, f, g), e))
  <2> DEFINE n == [x \in Phase |-> IF x = f THEN sub[s].others[p][x] - 1
                                   ELSE IF x = g THEN sub[s].others[p][x] + 1
                                   ELSE sub[s].others[p][x]]
             M == [sub[s] EXCEPT !.others[p] = n]
  <2>1. Move(sub[s], p, f, g) = M
      BY Zenon DEF Move
  <2> HIDE DEF n
  <2>2. Same(sub[s], Tell(M, e))
      BY <1>1, Zenon DEF Same, Tell, Local
  <2> HIDE DEF M
  <2> QED
      BY <2>1, <2>2
<1> QED
    BY <1>2, <1>3, PutSameGood

LEMMA StageZeroGood ==
    ASSUME IInv, AimsRight, NEW s \in Subsystem, NEW p \in Process,
           Started(s, p) \/ Dies(s, p) \/ OneShotEnds(s, p) \/ Crashes(s, p)
    PROVE  GoodStep
<1>1. ASSUME NEW F, NEW how, Ends(s, p, F, how) PROVE GoodStep
    BY <1>1, TellGood, Zenon DEF Ends
<1>2. CASE Started(s, p)
    BY <1>2, TellGood, Zenon DEF Started
<1>3. CASE Dies(s, p)
    BY <1>3, TellGood, Zenon DEF Dies
<1>4. CASE OneShotEnds(s, p) \/ Crashes(s, p)
    BY <1>1, <1>4, Zenon DEF OneShotEnds, Crashes
<1> QED
    BY <1>2, <1>3, <1>4

LEMMA AbortGood ==
    ASSUME IInv, AimsRight, NEW e \in BOOLEAN, ClientAbort(e) \/ AbortKills(e)
    PROVE  GoodStep
<1>1. CASE ClientAbort(e)
  <2>1. sub' = sub
      BY <1>1 DEF ClientAbort, AbortAll
  <2> QED
      BY <2>1, SameGood DEF Same
<1>2. CASE AbortKills(e)
  <2>1. \A s \in Subsystem : sub[s] \in Local
      BY Before, CalmSound
  <2>2. ASSUME NEW s \in Subsystem PROVE Same(sub[s], KillAll(sub[s]))
    <3>1. \E live, others :
            KillAll(sub[s]) = [sub[s] EXCEPT !.live = live, !.others = others]
        BY Zenon DEF KillAll
    <3>2. PICK live, others :
            KillAll(sub[s]) = [sub[s] EXCEPT !.live = live, !.others = others]
        BY <3>1
    <3>3. Same(sub[s], [sub[s] EXCEPT !.live = live, !.others = others])
        BY <2>1, ZenonT(40) DEF Same, Local
    <3> QED
        BY <3>2, <3>3
  <2>3. \A s \in Subsystem : sub'[s] = KillAll(sub[s]) \/ sub'[s] = sub[s]
      BY <1>2 DEF AbortKills
  <2>4. \A s \in Subsystem : Same(sub[s], sub'[s])
      BY <2>2, <2>3 DEF Same
  <2> QED
      BY <2>4, SameGood
<1> QED
    BY <1>1, <1>2

-----------------------------------------------------------------------------
(* The theorem.                                                            *)

LEMMA InitAims == Init => AimsRight
<1> SUFFICES ASSUME Init, NEW s \in Subsystem, NEW i \in Slot
             PROVE  sub[s].co[i].at # "run"
    BY DEF AimsRight, Aims
<1>1. sub[s].co = [[j \in Slot |-> Dead] EXCEPT ![1].at = "enter"]
    BY DEF Init, Idle
<1> QED
    BY <1>1, SlotAssumption DEF Dead, NewCoroutine

LEMMA NextGood ==
    ASSUME IInv, AimsRight, [Next]_vars
    PROVE  GoodStep
<1>1. CASE UNCHANGED vars
    BY <1>1, SameGood DEF vars, Same
<1>2. CASE Next
  <2>1. ASSUME NEW s \in Subsystem, NEW i \in Slot,
               StateStep(s, i) \/ LaunchFails(s, i)
        PROVE  GoodStep
      BY <2>1, StateStepGood, LaunchFailsGood
  <2>2. ASSUME NEW s \in Subsystem,
               ConnectorConnects(s) \/ ConnectorQuits(s) \/ CrashTimer(s) \/ Drop(s)
        PROVE  GoodStep
      BY <2>2, ConnectorGood
  <2>3. ASSUME NEW s \in Subsystem, NEW p \in Processes[s],
               Started(s, p) \/ Dies(s, p) \/ OneShotEnds(s, p) \/ Crashes(s, p)
        PROVE  GoodStep
    <3>1. p \in Process
        BY Finite
    <3> QED
        BY <2>3, <3>1, StageZeroGood
  <2>4. ASSUME NEW s \in Subsystem, NEW c \in Client, ClientCommand(c, s)
        PROVE  GoodStep
      BY <2>4, SameGood DEF ClientCommand, Same
  <2>5. ASSUME NEW e \in BOOLEAN, ClientAbort(e) \/ AbortKills(e)
        PROVE  GoodStep
      BY <2>5, AbortGood
  <2>6. CASE CriticalAbort
      BY <2>6, SameGood DEF CriticalAbort, AbortAll, Same
  <2> QED
      BY <1>2, <2>1, <2>2, <2>3, <2>4, <2>5, <2>6 DEF Next, StageZeroStep
<1> QED
    BY <1>1, <1>2

\* In every graph of subsystems with any processes, through any sequence of
\* commands, crashes, lost connections and aborts, a subsystem goes online only
\* in a step after which each of its processes is one that StageZero has reported
\* to run, oneshots excepted (Subsystem::StartingProcesses).
THEOREM GoesOnlineRunning == Spec => OnlineMeansRunning
<1> DEFINE Onlining == \A s \in Subsystem :
                          sub[s].oper # "Online" /\ sub'[s].oper = "Online" =>
                              Processes[s] \ OneShot \subseteq sub'[s].running
<1>1. AimsRight /\ IInv /\ [Next]_vars => AimsRight'
    BY NextGood DEF GoodStep, AimsRight
<1>2. AimsRight /\ IInv /\ [Next]_vars => [Onlining]_vars
    BY NextGood DEF GoodStep, Complete
<1> QED
    BY <1>1, <1>2, InitAims, Invariance, PTL DEF Spec, OnlineMeansRunning

=============================================================================
