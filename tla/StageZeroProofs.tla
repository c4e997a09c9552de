-------------------------- MODULE StageZeroProofs --------------------------
(***************************************************************************)
(* Proofs about StageZero: the types, that no living process is lost, that *)
(* the maps agree, that a stop that is told is one, and the refinement of  *)
(* ProcessLife.                                                            *)
(***************************************************************************)
EXTENDS StageZero, SequenceTheorems, TLAPS

----------------------------------------------------------------------------
(* One process.                                                            *)

Object == [os: {"none", "alive"} \cup Dead, running: BOOLEAN,
           stopping: BOOLEAN, wrote: BOOLEAN,
           waiter: {"none", "begin", "read", "wait", "done"},
           stopper: {"none", "begin", "telemetry", "int", "term", "done"},
           owner: Client \cup {None}, death: {"none", "status", "eof"},
           told: {<<>>, <<"start">>, <<"stop">>, <<"start", "stop">>, <<"stop", "start">>}]

\* All the stages of a stop.
Course(p) == <<"begin">> \o Stages(p) \o <<"kill">>

StopTold(r) == r.told \in {<<"stop">>, <<"start", "stop">>, <<"stop", "start">>}

\* What the object of a process looks like at any time.
Good(p) ==
    {r \in Object :
        /\ r.os = "none" => r.owner = None
        /\ r.owner = None => /\ r.waiter = "none" /\ r.stopper = "none" /\ r.told = <<>>
                             /\ r.os # "alive" /\ r.death = "none"
        /\ ~r.running \/ r.death = "status" => r.os \in Dead
        /\ r.stopper \notin {"none", "done"} => \E i \in DOMAIN Course(p) : Course(p)[i] = r.stopper
        /\ r.waiter # "done" => ~StopTold(r)
        /\ p \notin Zygote /\ r.waiter \notin {"done", "wait"} => r.told = <<>>
        /\ p \notin Zygote => r.told # <<"stop", "start">>
        /\ StopTold(r) /\ r.os = "alive" => r.death = "eof" /\ r.stopping}

\* How a step changes an object but at its launch.
Ages(p, q, r) ==
    /\ r.owner = q.owner
    /\ q.os \in Dead => r.os \in Dead
    /\ q.os = "reaped" => r.os = "reaped"
    /\ q.waiter = "none" => r.waiter = "none"
    /\ p \in Zygote => r.told \in {q.told, Append(q.told, "stop")}

LEMMA Pair ==
  ASSUME NEW x, NEW y PROVE Append(<<x>>, y) = <<x, y>>
  <1> DEFINE s == Append(<<x>>, y)
             t == <<x, y>>
  <1>1. /\ <<x>> \in Seq({x, y}) /\ Len(<<x>>) = 1 /\ <<x>>[1] = x
        /\ t \in Seq({x, y}) /\ Len(t) = 2 /\ t[1] = x /\ t[2] = y
    OBVIOUS
  <1>2. s \in Seq({x, y}) /\ Len(s) = 2 /\ s[1] = x /\ s[2] = y
    BY <1>1
  <1> HIDE DEF s, t
  <1>3. \A i \in 1..Len(s) : s[i] = t[i]
    BY <1>1, <1>2
  <1> QED  BY <1>1, <1>2, <1>3, SeqEqual DEF s, t

LEMMA Tellings ==
  /\ Append(<<>>, "start") = <<"start">> /\ Append(<<>>, "stop") = <<"stop">>
  /\ Append(<<"start">>, "stop") = <<"start", "stop">>
  /\ Append(<<"stop">>, "start") = <<"stop", "start">>
  BY Pair

LEMMA StaysSame == ASSUME NEW p, NEW r PROVE Ages(p, r, r)
  BY DEF Ages

LEMMA NewGood ==
  ASSUME NEW p \in Process PROVE NewProcess \in Good(p)
  BY DEF NewProcess, Good, Object, StopTold

LEMMA LaunchedGood ==
  ASSUME NEW p \in Process, NEW c \in Client
  PROVE  Launched(c) \in Good(p) /\ [Launched(c) EXCEPT !.waiter = "none"] \in Good(p)
  BY KindsAssumption DEF Launched, NewProcess, Good, Object, StopTold, Dead

LEMMA KilledGood ==
  ASSUME NEW p \in Process, NEW r \in Good(p)
  PROVE  /\ Killed(r) \in Good(p) /\ Ages(p, r, Killed(r)) /\ Killed(r).os # "alive"
         /\ \A f \in {"running", "stopping", "waiter", "stopper", "owner", "told", "death"} :
               Killed(r)[f] = r[f]
         /\ r.os = "none" => Killed(r).os = "none"
  BY DEF Killed, Good, Object, Dead, Ages, StopTold

LEMMA CourseBegins ==
  ASSUME NEW p PROVE /\ Course(p) \in Seq({"begin", "telemetry", "int", "term", "kill"})
                     /\ 1 \in DOMAIN Course(p) /\ Course(p)[1] = "begin"
                     /\ Len(Course(p)) \in DOMAIN Course(p) /\ Course(p)[Len(Course(p))] = "kill"
  <1>1. Stages(p) \in Seq({"begin", "telemetry", "int", "term", "kill"})
    <2> DEFINE S == {"begin", "telemetry", "int", "term", "kill"}
               a == IF p \in Telemetry THEN <<"telemetry">> ELSE <<>>
               b == IF p \in IntTimeout THEN <<"int">> ELSE <<>>
               d == IF p \in TermTimeout THEN <<"term">> ELSE <<>>
    <2>1. a \in Seq(S) /\ b \in Seq(S) /\ d \in Seq(S)
      <3>1. <<"telemetry">> \in Seq(S) /\ <<"int">> \in Seq(S) /\ <<"term">> \in Seq(S)
        OBVIOUS
      <3>2. <<>> \in Seq(S)
        OBVIOUS
      <3> HIDE DEF S
      <3> QED  BY <3>1, <3>2
    <2>2. Stages(p) = (a \o b) \o d
      BY DEF Stages
    <2> HIDE DEF a, b, d
    <2> QED  BY <2>1, <2>2
  <1> DEFINE mid == Stages(p)
  <1> HIDE DEF mid
  <1> QED  BY <1>1 DEF Course, mid

LEMMA StageAfterIn ==
  ASSUME NEW p, NEW s \in {"begin", "telemetry", "int", "term"},
         \E i \in DOMAIN Course(p) : Course(p)[i] = s
  PROVE  /\ StageAfter(p, s) \in {"begin", "telemetry", "int", "term", "kill"}
         /\ \E i \in DOMAIN Course(p) : Course(p)[i] = StageAfter(p, s)
  <1> DEFINE all == Course(p)
             i == CHOOSE j \in 1..Len(all) : all[j] = s
  <1>1. i \in 1..Len(all) /\ all[i] = s
    BY CourseBegins
  <1>2. 1 + i \in DOMAIN all
    BY <1>1, CourseBegins
  <1>3. StageAfter(p, s) = all[1 + i]
    BY DEF StageAfter, Course
  <1>4. all[1 + i] \in {"begin", "telemetry", "int", "term", "kill"}
    BY <1>2, CourseBegins
  <1> QED  BY <1>2, <1>3, <1>4

LEMMA StoppingGood ==
  ASSUME NEW p \in Process, NEW r \in Good(p), r.owner # None
  PROVE  /\ Stopping(r) \in Good(p) /\ Ages(p, r, Stopping(r))
         /\ Stopping(r).stopping /\ Stopping(r).os = r.os /\ Stopping(r).death = r.death
         /\ Stopping(r).told = r.told /\ Stopping(r).waiter = r.waiter
         /\ ~r.stopping => Stopping(r).stopper = "begin"
         /\ r.stopping => Stopping(r) = r
  <1>1. CASE r.stopping
    BY <1>1 DEF Stopping, Ages
  <1>2. CASE ~r.stopping
    <2> DEFINE q == [r EXCEPT !.stopping = TRUE, !.stopper = "begin"]
    <2>1. Stopping(r) = q
      BY <1>2 DEF Stopping
    <2>2. q \in Object /\ q.stopper = "begin" /\ q.stopping
      BY DEF Good, Object
    <2>3. \A f \in {"os", "running", "wrote", "waiter", "owner", "death", "told"} : q[f] = r[f]
      BY DEF Good, Object
    <2>4. \E i \in DOMAIN Course(p) : Course(p)[i] = "begin"
      BY CourseBegins
    <2> HIDE DEF q
    <2> QED  BY <1>2, <2>1, <2>2, <2>3, <2>4 DEF Good, Ages, StopTold
  <1> QED  BY <1>1, <1>2

LEMMA EnterGood ==
  ASSUME NEW p \in Process, NEW r \in Good(p), r.owner # None,
         NEW s \in {"begin", "telemetry", "int", "term", "kill"},
         \E i \in DOMAIN Course(p) : Course(p)[i] = s
  PROVE  /\ Enter(r, s) \in Good(p) /\ Ages(p, r, Enter(r, s))
         /\ Enter(r, s).os # r.os => Enter(r, s).os \in Dead
         /\ Enter(r, s).stopper \notin {"begin", "telemetry", "int", "term"} => Enter(r, s).os # "alive"
         /\ \A f \in {"waiter", "owner", "told", "death"} : Enter(r, s)[f] = r[f]
  BY DEF Enter, Killed, Good, Object, Dead, Ages, StopTold

LEMMA WatchGood ==
  ASSUME NEW p \in Process, NEW r \in Good(p), r.owner # None, NEW tell \in BOOLEAN,
         r.waiter \in {"begin", "read"}, tell => p \notin Zygote
  PROVE  /\ Watch(r, p, tell) \in Good(p) /\ Ages(p, r, Watch(r, p, tell))
         /\ \A f \in {"os", "stopper", "stopping", "owner", "death"} : Watch(r, p, tell)[f] = r[f]
  <1>1. r \in Object /\ ~StopTold(r) /\ (p \notin Zygote => r.told = <<>>)
    BY DEF Good
  <1>2. CASE tell /\ ~CanTell(p)
    BY <1>1, <1>2 DEF Watch, Good, Object, Ages, StopTold
  <1>3. CASE tell /\ CanTell(p)
    <2> DEFINE q == [r EXCEPT !.told = <<"start">>, !.waiter = "wait"]
    <2>1. r.told = <<>> /\ [r EXCEPT !.told = Append(@, "start")] = [r EXCEPT !.told = <<"start">>]
      BY <1>1, <1>3, Tellings
    <2>2. Told(r, p, "start") = [r EXCEPT !.told = <<"start">>]
      BY <2>1, <1>3 DEF Told
    <2>3. Watch(r, p, tell) = q
      BY <2>2, <1>3 DEF Watch
    <2>4. q \in Object /\ q.told = <<"start">> /\ q.waiter = "wait"
      BY <1>1 DEF Object
    <2>5. \A f \in {"os", "running", "wrote", "stopping", "stopper", "owner", "death"} : q[f] = r[f]
      BY <1>1 DEF Object
    <2> HIDE DEF q
    <2>6. ~StopTold(q) /\ q.told # <<"stop", "start">> /\ p \notin Zygote
      BY <1>3, <2>4 DEF StopTold
    <2>7. q \in Good(p)
      BY <2>4, <2>5, <2>6 DEF Good
    <2>8. Ages(p, r, q)
      BY <1>1, <2>4, <2>5, <2>6 DEF Ages
    <2> QED  BY <2>3, <2>5, <2>7, <2>8
  <1>4. CASE ~tell
    <2> DEFINE q == [r EXCEPT !.waiter = "wait"]
    <2>1. Watch(r, p, tell) = q
      BY <1>4 DEF Watch
    <2>2. q \in Object /\ q.waiter = "wait"
      BY <1>1 DEF Object
    <2>3. \A f \in {"os", "running", "wrote", "stopping", "stopper", "owner", "death", "told"} : q[f] = r[f]
      BY <1>1 DEF Object
    <2> HIDE DEF q
    <2> QED  BY <1>1, <1>4, <2>1, <2>2, <2>3 DEF Good, Ages, StopTold
  <1> QED  BY <1>2, <1>3, <1>4

\* A stop is told at most once, and last unless it is a zygote's.
LEMMA StopTells ==
  ASSUME NEW p \in Process, NEW r \in Object, ~StopTold(r), p \notin Zygote => r.told # <<"stop", "start">>
  PROVE  /\ Told(r, p, "stop") \in Object
         /\ Told(r, p, "stop").told \in {r.told, Append(r.told, "stop")}
         /\ p \notin Zygote => Told(r, p, "stop").told # <<"stop", "start">>
         /\ \A f \in DOMAIN r \ {"told"} : Told(r, p, "stop")[f] = r[f]
  <1>1. r.told \in {<<>>, <<"start">>}
    BY DEF Object, StopTold
  <1>2. Append(r.told, "stop") \in {<<"stop">>, <<"start", "stop">>}
    BY <1>1, Tellings
  <1> DEFINE q == [r EXCEPT !.told = Append(@, "stop")]
  <1>3. q \in Object /\ q.told = Append(r.told, "stop") /\ \A f \in DOMAIN r \ {"told"} : q[f] = r[f]
    BY <1>2 DEF Object
  <1>4. Told(r, p, "stop") \in {r, q}
    BY DEF Told
  <1>5. \A x \in {"start", "stop"} : <<"stop", "start">> # <<x>> /\ <<"stop", "start">> # <<"start", "stop">>
    OBVIOUS
  <1> QED  BY <1>1, <1>2, <1>3, <1>4, <1>5

LEMMA SeesExitGood ==
  ASSUME NEW p \in Process, NEW r \in Good(p), r.owner # None, r.waiter = "wait", r.os = "zombie",
         NEW q, q = Told([r EXCEPT !.running = FALSE, !.os = "reaped", !.waiter = "done"], p, "stop")
  PROVE  /\ q \in Good(p) /\ Ages(p, r, q) /\ q.os = "reaped"
         /\ \A f \in {"owner", "death", "stopper", "stopping"} : q[f] = r[f]
  <1> DEFINE h == [r EXCEPT !.running = FALSE, !.os = "reaped", !.waiter = "done"]
  <1>1. h \in Object /\ ~h.running /\ h.os = "reaped" /\ h.waiter = "done"
    BY DEF Good, Object, Dead
  <1>2. \A f \in {"wrote", "stopping", "stopper", "owner", "death", "told"} : h[f] = r[f]
    BY DEF Good, Object
  <1>3. ~StopTold(h) /\ (p \notin Zygote => h.told # <<"stop", "start">>) /\ DOMAIN h = DOMAIN r
    BY <1>2 DEF Good, StopTold
  <1>4. DOMAIN h = {"os", "running", "stopping", "wrote", "waiter", "stopper", "owner", "death", "told"}
    BY <1>1 DEF Object
  <1> HIDE DEF h
  <1>5. q = Told(h, p, "stop")
    BY DEF h
  <1> QED  BY <1>1, <1>2, <1>3, <1>4, <1>5, StopTells DEF Good, Ages, StopTold, Dead

LEMMA HearsDeathGood ==
  ASSUME NEW p \in Process \ Zygote, NEW r \in Good(p), r.owner # None, r.waiter = "wait",
         NEW q, q = Told([r EXCEPT !.waiter = "done"], p, "stop")
  PROVE  /\ r.death = "status" => q \in Good(p)
         /\ r.death = "eof" => Stopping(q) \in Good(p) /\ (~r.stopping => Stopping(q).stopper = "begin")
                               /\ Ages(p, r, Stopping(q)) /\ Stopping(q).owner = r.owner
                               /\ Stopping(q).os = r.os /\ Stopping(q).death = r.death
                               /\ (r.stopping => Stopping(q) = q)
                               /\ Stopping(q).told = q.told
         /\ Ages(p, r, q) /\ q.told \in {r.told, Append(r.told, "stop")}
         /\ \A f \in {"os", "owner", "death", "stopper", "stopping"} : q[f] = r[f]
  <1> DEFINE h == [r EXCEPT !.waiter = "done"]
  <1>1. h \in Object /\ h.waiter = "done"
    BY DEF Good, Object
  <1>2. \A f \in {"os", "running", "wrote", "stopping", "stopper", "owner", "death", "told"} : h[f] = r[f]
    BY DEF Good, Object
  <1>3. ~StopTold(h) /\ h.told # <<"stop", "start">>
    BY <1>2 DEF Good, StopTold
  <1>4. DOMAIN h = {"os", "running", "stopping", "wrote", "waiter", "stopper", "owner", "death", "told"}
    BY <1>1 DEF Object
  <1> HIDE DEF h
  <1>5. q = Told(h, p, "stop")
    BY DEF h
  <1>6. /\ q \in Object /\ q.waiter = "done" /\ q.told \in {r.told, Append(r.told, "stop")}
        /\ q.told # <<"stop", "start">>
        /\ \A f \in {"os", "running", "wrote", "stopping", "stopper", "owner", "death"} : q[f] = r[f]
    BY <1>1, <1>2, <1>3, <1>4, <1>5, StopTells
  <1>7. Ages(p, r, q)
    BY <1>6 DEF Ages
  <1>8. ASSUME r.death = "status" PROVE q \in Good(p)
    BY <1>6, <1>8 DEF Good, StopTold, Dead
  <1>9. ASSUME r.death = "eof"
        PROVE  /\ Stopping(q) \in Good(p) /\ (~r.stopping => Stopping(q).stopper = "begin")
               /\ Ages(p, r, Stopping(q)) /\ Stopping(q).owner = r.owner
               /\ Stopping(q).os = r.os /\ Stopping(q).death = r.death
               /\ (r.stopping => Stopping(q) = q)
               /\ Stopping(q).told = q.told
    <2>1. CASE r.stopping
      BY <1>6, <1>7, <1>9, <2>1 DEF Good, Stopping, StopTold
    <2>2. CASE ~r.stopping
      <3> DEFINE k == [q EXCEPT !.stopping = TRUE, !.stopper = "begin"]
      <3>1. Stopping(q) = k
        BY <1>6, <2>2 DEF Stopping
      <3>2. k \in Object /\ k.stopping /\ k.stopper = "begin"
        BY <1>6 DEF Object
      <3>3. \A f \in {"os", "running", "wrote", "waiter", "owner", "death", "told"} : k[f] = q[f]
        BY <1>6 DEF Object
      <3>4. \E i \in DOMAIN Course(p) : Course(p)[i] = "begin"
        BY CourseBegins
      <3> HIDE DEF k
      <3> QED  BY <1>6, <1>7, <1>9, <2>2, <3>1, <3>2, <3>3, <3>4 DEF Good, Ages, StopTold
    <2> QED  BY <2>1, <2>2
  <1> QED  BY <1>6, <1>7, <1>8, <1>9

----------------------------------------------------------------------------
(* The state.                                                              *)

\* The processes that a handler has launched.
Born == {p \in Process : proc[p].owner # None}

Objects == proc = [p \in Process |-> proc[p]] /\ \A p \in Process : proc[p] \in Good(p)

Maps ==
    /\ procs \subseteq Born /\ virtuals \subseteq Born \cap Virtual
    /\ mine \in [Client -> SUBSET Born]
    /\ zygotes \in [Names -> Zygote \cup {None}]
    /\ \A n \in Names : zygotes[n] # None => ZygoteName[zygotes[n]] = n

ZygoteObject == [acceptor: {"none", "accept", "read", "deaf", "done"},
                 children: SUBSET Virtual, notices: SUBSET Virtual]

Zygotes ==
    /\ zyg \in [Zygote -> ZygoteObject]
    /\ \A z \in Zygote :
        /\ zyg[z].children \subseteq Born
        /\ \A v \in zyg[z].notices : proc[v].os = "reaped"
        /\ zyg[z].acceptor # "none" => z \in Born
        /\ zyg[z].acceptor \in {"none", "accept"} => proc[z].told \in {<<>>, <<"stop">>}

Handler == [handler: {"none", "idle", "launch", "abort", "emergency", "ended"},
            channel: BOOLEAN, here: BOOLEAN,
            launching: Virtual \cup {None}, victims: SUBSET Process]

Handlers ==
    /\ client \in [Client -> Handler]
    /\ \A c \in Client :
        /\ client[c].launching # None <=> client[c].handler = "launch"
        /\ client[c].launching # None =>
             proc[client[c].launching].owner = c /\ proc[client[c].launching].waiter = "none"

IInv == Objects /\ Maps /\ Zygotes /\ Handlers /\ up \in {"up", "dying", "down"}

LEMMA IInvTypes == IInv => TypeOK
  <1> SUFFICES ASSUME IInv PROVE TypeOK
    OBVIOUS
  <1>1. proc \in [Process -> Object]
    <2>1. proc = [p \in Process |-> proc[p]] /\ \A p \in Process : proc[p] \in Object
      BY DEF IInv, Objects, Good
    <2> QED  BY <2>1
  <1>2. /\ procs \subseteq Process /\ virtuals \subseteq Virtual
        /\ mine \in [Client -> SUBSET Process]
        /\ zygotes \in [Names -> Zygote \cup {None}]
    BY DEF IInv, Maps, Born
  <1>3. zyg \in [Zygote -> ZygoteObject] /\ client \in [Client -> Handler]
    BY DEF IInv, Zygotes, Handlers
  <1>4. up \in {"up", "dying", "down"}
    BY DEF IInv
  <1> QED  BY <1>1, <1>2, <1>3, <1>4 DEF TypeOK, Object, ZygoteObject, Handler

LEMMA InitIInv == Init => IInv
  <1> SUFFICES ASSUME Init PROVE IInv
    OBVIOUS
  <1>1. \A p \in Process : proc[p] = NewProcess
    BY DEF Init
  <1>2. Objects
    BY <1>1, NewGood DEF Init, Objects
  <1>3. Maps
    BY <1>1 DEF Init, Maps, Born
  <1>4. Zygotes
    BY <1>1, KindsAssumption DEF Init, Zygotes, ZygoteObject, NewProcess
  <1>5. Handlers
    BY <1>1 DEF Init, Handlers, Handler
  <1> QED  BY <1>2, <1>3, <1>4, <1>5 DEF Init, IInv

----------------------------------------------------------------------------
(* Steps that launch nothing.                                              *)

Aged ==
    /\ proc' = [p \in Process |-> proc'[p]]
    /\ \A p \in Process : proc'[p] \in Good(p) /\ Ages(p, proc[p], proc'[p])

Shrunk ==
    /\ procs' \subseteq procs /\ virtuals' \subseteq virtuals
    /\ mine' \in [Client -> SUBSET Process] /\ \A c \in Client : mine'[c] \subseteq mine[c]
    /\ zygotes' \in [Names -> Zygote \cup {None}]
    /\ \A n \in Names : zygotes'[n] \in {zygotes[n], None}

LEMMA BornStays == ASSUME Aged PROVE Born' = Born
  BY DEF Aged, Ages, Born

LEMMA NotDisturbed == ASSUME UNCHANGED proc, Objects PROVE Aged
  BY StaysSame DEF Aged, Objects

\* One process changes.
LEMMA OneAges ==
  ASSUME Objects, NEW p \in Process, NEW r \in Good(p), Ages(p, proc[p], r),
         proc' = [proc EXCEPT ![p] = r]
  PROVE  Aged
  BY StaysSame DEF Aged, Objects

LEMMA ObjectsAge == ASSUME Aged PROVE Objects'
  BY DEF Aged, Objects

LEMMA MapsAge == ASSUME Maps, Aged, Shrunk PROVE Maps'
  <1>1. Born' = Born
    BY BornStays
  <1>2. mine' \in [Client -> SUBSET Born]
    BY DEF Maps, Shrunk
  <1>3. \A n \in Names : zygotes'[n] # None => ZygoteName[zygotes'[n]] = n
    BY DEF Maps, Shrunk
  <1> QED  BY <1>1, <1>2, <1>3 DEF Maps, Shrunk, Names

\* A zygote object loses children, or its acceptor moves on.
LEMMA ZygotesChange ==
  ASSUME Zygotes, Objects, Aged, zyg' \in [Zygote -> ZygoteObject],
         \A z \in Zygote :
            /\ zyg'[z].children \subseteq zyg[z].children
            /\ \A v \in zyg'[z].notices : v \in zyg[z].notices \/ proc'[v].os = "reaped"
            /\ zyg'[z].acceptor = "none" <=> zyg[z].acceptor = "none"
            /\ zyg'[z].acceptor = "accept" => zyg[z].acceptor = "accept"
  PROVE  Zygotes'
  <1>1. Born' = Born
    BY BornStays
  <1> SUFFICES ASSUME NEW z \in Zygote
               PROVE  /\ \A v \in zyg'[z].notices : proc'[v].os = "reaped"
                      /\ zyg'[z].acceptor \in {"none", "accept"} => proc'[z].told \in {<<>>, <<"stop">>}
    BY <1>1 DEF Zygotes
  <1>2. \A v \in zyg'[z].notices : proc'[v].os = "reaped"
    BY KindsAssumption DEF Zygotes, ZygoteObject, Aged, Ages
  <1>3. z \in Process /\ proc'[z].told \in {proc[z].told, Append(proc[z].told, "stop")}
        /\ proc'[z] \in Object
    BY KindsAssumption DEF Aged, Ages, Good
  <1>4. ASSUME zyg'[z].acceptor \in {"none", "accept"} PROVE proc'[z].told \in {<<>>, <<"stop">>}
    <2>1. proc[z].told \in {<<>>, <<"stop">>}
      BY <1>4 DEF Zygotes
    <2>2. CASE proc[z].told = <<>>
      BY <1>3, <2>2, Tellings
    <2>3. CASE proc[z].told = <<"stop">>
      <3>1. Append(<<"stop">>, "stop") = <<"stop", "stop">>
        BY Pair
      <3>2. <<"stop", "stop">> \notin {<<>>, <<"start">>, <<"stop">>, <<"start", "stop">>, <<"stop", "start">>}
        OBVIOUS
      <3> QED  BY <1>3, <2>3, <3>1, <3>2 DEF Object
    <2> QED  BY <2>1, <2>2, <2>3
  <1> QED  BY <1>2, <1>4

LEMMA ZygotesAge == ASSUME Zygotes, Aged, Objects, UNCHANGED zyg PROVE Zygotes'
  BY ZygotesChange DEF Zygotes

LEMMA HandlersAge ==
  ASSUME Handlers, Aged, client' \in [Client -> Handler],
         \A c \in Client : /\ client'[c].launching = client[c].launching
                           /\ client'[c].handler = "launch" <=> client[c].handler = "launch"
  PROVE  Handlers'
  <1> SUFFICES ASSUME NEW c \in Client, client[c].launching # None
               PROVE  /\ proc'[client[c].launching].owner = c
                      /\ proc'[client[c].launching].waiter = "none"
    BY DEF Handlers
  <1>1. client[c].launching \in Process
    BY KindsAssumption DEF Handlers, Handler
  <1> QED  BY <1>1 DEF Handlers, Aged, Ages

LEMMA Quiet ==
  ASSUME IInv, Aged, Shrunk, UNCHANGED <<zyg, client, up>> PROVE IInv'
  <1>1. Handlers'
    BY HandlersAge DEF IInv, Handlers
  <1> QED  BY <1>1, ObjectsAge, MapsAge, ZygotesAge DEF IInv

LEMMA SameMaps ==
  ASSUME Maps, UNCHANGED <<procs, mine, zygotes, virtuals>> PROVE Shrunk
  BY DEF Maps, Shrunk, Born

LEMMA RemoveShrinks ==
  ASSUME Maps, NEW S \in SUBSET Process, RemoveProcess(S) PROVE Shrunk
  BY DEF Maps, Shrunk, RemoveProcess, NamesLess, Removed, Born

LEMMA TryRemoveShrinks ==
  ASSUME Maps, NEW p \in Process, TryRemoveProcess(p) PROVE Shrunk
  BY DEF Maps, Shrunk, TryRemoveProcess, NamesLess, Born

LEMMA KillNowAges ==
  ASSUME IInv, NEW S \in SUBSET Process, KillNow(S)
  PROVE  Aged /\ Shrunk /\ \A p \in Process : proc'[p] = IF p \in S THEN Killed(proc[p]) ELSE proc[p]
  <1>1. Aged
    <2>1. \A p \in Process : proc[p] \in Good(p)
      BY DEF IInv, Objects
    <2> SUFFICES ASSUME NEW p \in Process PROVE proc'[p] \in Good(p) /\ Ages(p, proc[p], proc'[p])
      BY DEF Aged, KillNow
    <2>2. CASE p \in S
      BY <2>1, <2>2, KilledGood DEF KillNow
    <2>3. CASE p \notin S
      BY <2>1, <2>3, StaysSame DEF KillNow
    <2> QED  BY <2>2, <2>3
  <1> QED  BY <1>1, RemoveShrinks DEF KillNow, IInv

LEMMA StopAges ==
  ASSUME IInv, NEW p \in Process, NEW r, Stopping(r) \in Good(p), Ages(p, proc[p], Stopping(r)),
         Stop(p, r)
  PROVE  Aged /\ Shrunk
  BY OneAges, SameMaps, RemoveShrinks DEF Stop, IInv

----------------------------------------------------------------------------
(* The actions.                                                            *)

LEMMA StopperRunsKeeps ==
  ASSUME IInv, NEW p \in Process, StopperRuns(p) PROVE IInv'
  <1> DEFINE r == proc[p]
  <1>1. r \in Good(p) /\ r \in Object /\ Objects /\ Maps
    BY DEF IInv, Objects, Good
  <1>2. r.stopper \in {"begin", "telemetry", "int", "term"}
        /\ r.owner # None /\ \E i \in DOMAIN Course(p) : Course(p)[i] = r.stopper
    BY <1>1 DEF StopperRuns, Good
  <1>3. CASE proc' = [proc EXCEPT ![p].stopper = "done"]
    <2> DEFINE q == [r EXCEPT !.stopper = "done"]
    <2>1. q \in Object /\ q.stopper = "done" /\ proc' = [proc EXCEPT ![p] = q]
      BY <1>1, <1>3 DEF Object
    <2>2. \A f \in {"os", "running", "wrote", "waiter", "stopping", "owner", "death", "told"} : q[f] = r[f]
      BY <1>1 DEF Object
    <2> HIDE DEF q
    <2>3. q \in Good(p) /\ Ages(p, r, q)
      BY <1>1, <1>2, <2>1, <2>2 DEF Good, Ages, StopTold
    <2> QED  BY <1>1, <2>1, <2>3, OneAges, Quiet, SameMaps DEF StopperRuns
  <1>4. CASE proc' = [proc EXCEPT ![p] = Enter(r, StageAfter(p, r.stopper))]
    <2>1. Enter(r, StageAfter(p, r.stopper)) \in Good(p)
          /\ Ages(p, r, Enter(r, StageAfter(p, r.stopper)))
      BY <1>1, <1>2, StageAfterIn, EnterGood
    <2> QED  BY <1>1, <1>4, <2>1, OneAges, Quiet, SameMaps DEF StopperRuns
  <1> QED  BY <1>3, <1>4 DEF StopperRuns

LEMMA NotifiesKeeps ==
  ASSUME IInv, NEW p \in Process, Notifies(p) PROVE IInv'
  <1> DEFINE r == proc[p]
             q == [r EXCEPT !.wrote = TRUE]
  <1>1. r \in Good(p) /\ r \in Object /\ Objects /\ Maps
    BY DEF IInv, Objects, Good
  <1>2. q \in Object /\ proc' = [proc EXCEPT ![p] = q]
    BY <1>1 DEF Object, Notifies
  <1>3. \A f \in {"os", "running", "waiter", "stopping", "stopper", "owner", "death", "told"} : q[f] = r[f]
    BY <1>1 DEF Object
  <1> HIDE DEF q
  <1>4. q \in Good(p) /\ Ages(p, r, q)
    BY <1>1, <1>2, <1>3 DEF Good, Ages, StopTold
  <1> QED  BY <1>1, <1>2, <1>4, OneAges, Quiet, SameMaps DEF Notifies

LEMMA ExitsKeeps ==
  ASSUME IInv, NEW p \in Process, Exits(p) PROVE IInv'
  BY KilledGood, OneAges, Quiet, SameMaps DEF Exits, IInv, Objects

\* A dead process that was launched is reaped.
LEMMA ReapedGood ==
  ASSUME NEW p \in Process, NEW r \in Good(p), r.os = "zombie"
  PROVE  [r EXCEPT !.os = "reaped"] \in Good(p) /\ Ages(p, r, [r EXCEPT !.os = "reaped"])
  <1> DEFINE q == [r EXCEPT !.os = "reaped"]
  <1>1. r \in Object /\ q \in Object /\ q.os = "reaped"
    BY DEF Good, Object, Dead
  <1>2. \A f \in {"wrote", "running", "waiter", "stopping", "stopper", "owner", "death", "told"} : q[f] = r[f]
    BY <1>1 DEF Object
  <1> HIDE DEF q
  <1>3. q \in Good(p) /\ Ages(p, r, q)
    BY <1>1, <1>2 DEF Good, Ages, StopTold, Dead
  <1> QED  BY <1>3 DEF q

LEMMA InitReapsKeeps ==
  ASSUME IInv, NEW v \in Virtual, InitReaps(v) PROVE IInv'
  <1>1. proc' = [proc EXCEPT ![v] = [proc[v] EXCEPT !.os = "reaped"]] /\ v \in Process
    BY KindsAssumption DEF InitReaps
  <1> QED  BY <1>1, ReapedGood, OneAges, Quiet, SameMaps DEF InitReaps, IInv, Objects

\* The coroutine that watches a process.
LEMMA WatchKeeps ==
  ASSUME IInv, NEW p \in Process, NEW tell \in BOOLEAN, proc[p].waiter \in {"begin", "read"},
         tell => p \notin Zygote,
         proc' = [proc EXCEPT ![p] = Watch(proc[p], p, tell)],
         UNCHANGED <<procs, mine, zygotes, virtuals, zyg, client, up>>
  PROVE  IInv'
  <1>1. proc[p] \in Good(p) /\ proc[p].owner # None
    BY DEF IInv, Objects, Good
  <1> QED  BY <1>1, WatchGood, OneAges, Quiet, SameMaps DEF IInv

LEMMA WaiterKeeps ==
  ASSUME IInv, NEW p \in Process, Started(p) \/ ReadReturns(p) \/ BeginsWatch(p) PROVE IInv'
  <1>1. CASE Started(p)
    <2> DEFINE tell == SaysStart(p) /\ (p \in Notify => proc[p].wrote)
    <2>1. tell \in BOOLEAN /\ (tell => p \notin Zygote)
      BY DEF SaysStart
    <2> HIDE DEF tell
    <2>2. proc' = [proc EXCEPT ![p] = Watch(proc[p], p, tell)]
      BY <1>1 DEF Started, tell
    <2> QED  BY <1>1, <2>1, <2>2, WatchKeeps DEF Started
  <1>2. CASE ReadReturns(p)
    BY <1>2, WatchKeeps DEF ReadReturns
  <1>3. CASE BeginsWatch(p)
    BY <1>3, WatchKeeps, KindsAssumption DEF BeginsWatch
  <1> QED  BY <1>1, <1>2, <1>3

\* The process that does not start in time, before it is stopped.
LEMMA TimedOutGood ==
  ASSUME NEW p \in Process, NEW r \in Good(p), r.waiter = "begin"
  PROVE  LET q == [r EXCEPT !.waiter = "read"] IN
         /\ q \in Good(p) /\ Ages(p, r, q) /\ q.owner # None
         /\ \A f \in {"os", "stopping", "stopper", "owner", "death", "told"} : q[f] = r[f]
  <1> DEFINE q == [r EXCEPT !.waiter = "read"]
  <1>1. r \in Object /\ q \in Object /\ q.waiter = "read"
    BY DEF Good, Object
  <1>2. \A f \in {"wrote", "running", "os", "stopping", "stopper", "owner", "death", "told"} : q[f] = r[f]
    BY <1>1 DEF Object
  <1> HIDE DEF q
  <1>3. q \in Good(p) /\ Ages(p, r, q) /\ q.owner # None
    BY <1>1, <1>2 DEF Good, Ages, StopTold
  <1> QED  BY <1>2, <1>3 DEF q

LEMMA AgesTwice ==
  ASSUME NEW p, NEW q, NEW r, NEW x, Ages(p, q, r), Ages(p, r, x), r.told = q.told
  PROVE  Ages(p, q, x)
  BY DEF Ages

LEMMA StartupTimesOutKeeps ==
  ASSUME IInv, NEW p \in Process, StartupTimesOut(p) PROVE IInv'
  <1> DEFINE q == [proc[p] EXCEPT !.waiter = "read"]
  <1>1. proc[p] \in Good(p) /\ proc[p].waiter = "begin" /\ Stop(p, q)
    BY DEF IInv, Objects, StartupTimesOut
  <1>2. q \in Good(p) /\ Ages(p, proc[p], q) /\ q.owner # None /\ q.told = proc[p].told
    BY <1>1, TimedOutGood
  <1> HIDE DEF q
  <1>3. Stopping(q) \in Good(p) /\ Ages(p, proc[p], Stopping(q))
    BY <1>2, StoppingGood, AgesTwice
  <1> QED  BY <1>1, <1>3, StopAges, Quiet DEF StartupTimesOut

LEMMA SeesExitChanges ==
  ASSUME IInv, NEW p \in Process, SeesExit(p)
  PROVE  \E q \in Good(p) : /\ Ages(p, proc[p], q) /\ q.os = "reaped"
                            /\ proc' = [proc EXCEPT ![p] = q]
  <1> DEFINE q == Told([proc[p] EXCEPT !.running = FALSE, !.os = "reaped", !.waiter = "done"], p, "stop")
  <1>1. proc[p] \in Good(p) /\ proc[p].waiter = "wait" /\ proc[p].owner # None /\ proc[p].os = "zombie"
    BY DEF IInv, Objects, SeesExit, Good
  <1>2. proc' = [proc EXCEPT ![p] = q]
    BY DEF SeesExit
  <1>3. q \in Good(p) /\ Ages(p, proc[p], q)
    BY <1>1, SeesExitGood
  <1>4. q.os = "reaped"
    <2> DEFINE h == [proc[p] EXCEPT !.running = FALSE, !.os = "reaped", !.waiter = "done"]
    <2>1. h.os = "reaped" /\ "told" \in DOMAIN h /\ "os" \in DOMAIN h
      BY <1>1 DEF Good, Object
    <2> HIDE DEF h
    <2>2. q \in {h, [h EXCEPT !.told = Append(@, "stop")]}
      BY DEF Told, h
    <2> HIDE DEF q
    <2> QED  BY <2>1, <2>2
  <1> HIDE DEF q
  <1> QED  BY <1>2, <1>3, <1>4

LEMMA SeesExitKeeps ==
  ASSUME IInv, NEW p \in Process, SeesExit(p) PROVE IInv'
  BY SeesExitChanges, OneAges, TryRemoveShrinks, Quiet DEF SeesExit, IInv

LEMMA HandleStopKeeps ==
  ASSUME IInv, NEW c \in Client, NEW p \in Process, HandleStopProcess(c, p) PROVE IInv'
  <1>1. proc[p] \in Good(p) /\ proc[p].owner # None
    BY DEF IInv, Objects, HandleStopProcess, Maps, Born
  <1>2. Stopping(proc[p]) \in Good(p) /\ Ages(p, proc[p], Stopping(proc[p]))
    BY <1>1, StoppingGood
  <1> QED  BY <1>2, StopAges, Quiet DEF HandleStopProcess

----------------------------------------------------------------------------
(* The actions that change zygotes.                                        *)

LEMMA ZygoteSteps ==
  ASSUME IInv, Aged, Shrunk, Zygotes', UNCHANGED <<client, up>> PROVE IInv'
  <1>1. Handlers'
    BY HandlersAge DEF IInv, Handlers
  <1> QED  BY <1>1, ObjectsAge, MapsAge DEF IInv

LEMMA MonitorReapsKeeps ==
  ASSUME IInv, NEW z \in Zygote, NEW v \in Virtual, MonitorReaps(z, v) PROVE IInv'
  <1>1. proc' = [proc EXCEPT ![v] = [proc[v] EXCEPT !.os = "reaped"]] /\ v \in Process
    BY KindsAssumption DEF MonitorReaps
  <1>2. Aged /\ Shrunk
    BY <1>1, ReapedGood, OneAges, SameMaps DEF MonitorReaps, IInv, Objects
  <1>3. proc'[v].os = "reaped"
    BY <1>1 DEF IInv, Objects, Good, Object
  <1>4. Zygotes'
    BY <1>2, <1>3, ZygotesChange DEF MonitorReaps, IInv, Zygotes, ZygoteObject
  <1> QED  BY <1>2, <1>4, ZygoteSteps DEF MonitorReaps

\* A process is given news of its death.
LEMMA DoomedGood ==
  ASSUME NEW p \in Process, NEW r \in Good(p), r.owner # None, NEW d \in {"status", "eof"},
         d = "status" => r.os \in Dead, r.death = "none"
  PROVE  LET q == [r EXCEPT !.death = d] IN
         /\ q \in Good(p) /\ Ages(p, r, q)
         /\ \A f \in {"os", "stopping", "stopper", "owner", "waiter", "told"} : q[f] = r[f]
  <1> DEFINE q == [r EXCEPT !.death = d]
  <1>1. r \in Object /\ q \in Object /\ q.death = d
    BY DEF Good, Object
  <1>2. \A f \in {"wrote", "running", "os", "stopping", "stopper", "owner", "waiter", "told"} : q[f] = r[f]
    BY <1>1 DEF Object
  <1> HIDE DEF q
  <1>3. q \in Good(p) /\ Ages(p, r, q)
    BY <1>1, <1>2 DEF Good, Ages, StopTold
  <1> QED  BY <1>2, <1>3 DEF q

LEMMA RelaysKeeps ==
  ASSUME IInv, NEW z \in Zygote, NEW v \in Virtual, Relays(z, v) PROVE IInv'
  <1>1. v \in Process /\ proc[v] \in Good(v) /\ proc[v].os = "reaped" /\ Objects
    BY KindsAssumption DEF Relays, IInv, Zygotes, Objects
  <1>2. Aged
    <2>1. CASE v \in virtuals /\ proc[v].death = "none"
      <3>1. proc[v].owner # None
        BY <2>1 DEF IInv, Maps, Born
      <3>2. proc' = [proc EXCEPT ![v] = [proc[v] EXCEPT !.death = "status"]]
        BY <2>1 DEF Relays
      <3> QED  BY <1>1, <2>1, <3>1, <3>2, DoomedGood, OneAges DEF Dead
    <2>2. CASE ~(v \in virtuals /\ proc[v].death = "none")
      BY <1>1, <2>2, NotDisturbed DEF Relays
    <2> QED  BY <2>1, <2>2
  <1>3. Zygotes'
    BY <1>2, ZygotesChange DEF Relays, IInv, Zygotes, ZygoteObject
  <1> QED  BY <1>2, <1>3, SameMaps, ZygoteSteps DEF Relays, IInv

LEMMA LosesZygoteKeeps ==
  ASSUME IInv, NEW z \in Zygote, LosesZygote(z) PROVE IInv'
  <1>1. Aged
    <2> SUFFICES ASSUME NEW p \in Process PROVE proc'[p] \in Good(p) /\ Ages(p, proc[p], proc'[p])
      BY DEF Aged, LosesZygote
    <2>1. proc[p] \in Good(p)
      BY DEF IInv, Objects
    <2>2. CASE p \in zyg[z].children /\ proc[p].death = "none"
      <3>1. proc[p].owner # None
        BY <2>2 DEF IInv, Zygotes, Born
      <3>2. proc'[p] = [proc[p] EXCEPT !.death = "eof"]
        BY <2>2 DEF LosesZygote
      <3> DEFINE q == [proc[p] EXCEPT !.death = "eof"]
      <3>3. q \in Good(p) /\ Ages(p, proc[p], q)
        BY <2>1, <2>2, <3>1, DoomedGood
      <3> QED  BY <3>2, <3>3
    <2>3. CASE ~(p \in zyg[z].children /\ proc[p].death = "none")
      BY <2>1, <2>3, StaysSame DEF LosesZygote
    <2> QED  BY <2>2, <2>3
  <1>2. Zygotes'
    BY <1>1, ZygotesChange DEF LosesZygote, IInv, Zygotes, ZygoteObject
  <1> QED  BY <1>1, <1>2, SameMaps, ZygoteSteps DEF LosesZygote, IInv

LEMMA HearsDeathKeeps ==
  ASSUME IInv, NEW v \in Virtual, HearsDeath(v) PROVE IInv'
  <1> DEFINE q == Told([proc[v] EXCEPT !.waiter = "done"], v, "stop")
  <1>1. /\ v \in Process \ Zygote /\ proc[v] \in Good(v) /\ proc[v].waiter = "wait"
        /\ proc[v].owner # None
    BY KindsAssumption DEF HearsDeath, IInv, Objects, Good
  <1>2. q = Told([proc[v] EXCEPT !.waiter = "done"], v, "stop")
    OBVIOUS
  <1> HIDE DEF q
  <1>3. Aged /\ Shrunk
    <2>1. CASE proc[v].death = "status" /\ proc' = [proc EXCEPT ![v] = q]
               /\ virtuals' = virtuals \ {v} /\ UNCHANGED <<mine, procs, zygotes>>
      <3>1. q \in Good(v) /\ Ages(v, proc[v], q)
        BY <1>1, <1>2, <2>1, HearsDeathGood
      <3>2. Aged
        BY <1>1, <2>1, <3>1, OneAges DEF IInv
      <3> QED  BY <2>1, <3>2 DEF Shrunk, IInv, Maps, Born
    <2>2. CASE proc[v].death = "eof" /\ Stop(v, q)
      <3>1. Stopping(q) \in Good(v) /\ Ages(v, proc[v], Stopping(q))
        BY <1>1, <1>2, <2>2, HearsDeathGood
      <3> QED  BY <1>1, <2>2, <3>1, StopAges
    <2>3. \/ /\ proc[v].death = "status" /\ virtuals' = virtuals \ {v}
             /\ proc' = [proc EXCEPT ![v] = q] /\ UNCHANGED <<mine, procs, zygotes>>
          \/ proc[v].death = "eof" /\ Stop(v, q)
      BY <1>2 DEF HearsDeath
    <2> QED  BY <2>1, <2>2, <2>3
  <1>4. Zygotes'
    <2>1. zyg' = [z \in Zygote |-> [zyg[z] EXCEPT !.children = @ \ {v}]] /\ zyg \in [Zygote -> ZygoteObject]
      BY DEF HearsDeath, IInv, Zygotes
    <2>2. ASSUME NEW z \in Zygote
          PROVE  /\ zyg'[z] \in ZygoteObject /\ zyg'[z].children \subseteq zyg[z].children
                 /\ zyg'[z].notices = zyg[z].notices /\ zyg'[z].acceptor = zyg[z].acceptor
      BY <2>1 DEF ZygoteObject
    <2>3. zyg' \in [Zygote -> ZygoteObject]
      BY <2>1, <2>2
    <2> QED  BY <1>3, <2>2, <2>3, ZygotesChange DEF IInv
  <1> QED  BY <1>3, <1>4, ZygoteSteps DEF HearsDeath

\* The acceptor tells the start of a zygote.
LEMMA AcceptedGood ==
  ASSUME NEW z \in Zygote, NEW r \in Good(z), r.told \in {<<>>, <<"stop">>}, r.owner # None
  PROVE  LET q == [r EXCEPT !.told = Append(@, "start")] IN
         /\ q \in Good(z)
         /\ \A f \in {"os", "stopping", "stopper", "owner", "waiter", "death"} : q[f] = r[f]
  <1> DEFINE q == [r EXCEPT !.told = Append(@, "start")]
  <1>1. q.told \in {<<"start">>, <<"stop", "start">>} /\ (q.told = <<"stop", "start">> => StopTold(r))
    <2>1. q.told = Append(r.told, "start")
      BY DEF Good, Object
    <2>2. CASE r.told = <<>>
      BY <2>1, <2>2, Tellings
    <2>3. CASE r.told = <<"stop">>
      BY <2>1, <2>3, Tellings DEF StopTold
    <2> QED  BY <2>2, <2>3
  <1>2. r \in Object /\ q \in Object
    BY <1>1 DEF Good, Object
  <1>3. \A f \in {"wrote", "running", "os", "stopping", "stopper", "owner", "waiter", "death"} : q[f] = r[f]
    BY <1>2 DEF Object
  <1> HIDE DEF q
  <1>4. <<"start">> \notin {<<"stop">>, <<"start", "stop">>, <<"stop", "start">>}
    OBVIOUS
  <1>5. StopTold(q) => StopTold(r)
    BY <1>1, <1>4 DEF StopTold
  <1>6. q \in Good(z)
    BY <1>2, <1>3, <1>5 DEF Good
  <1> QED  BY <1>3, <1>6 DEF q

LEMMA AcceptsKeeps ==
  ASSUME IInv, NEW z \in Zygote, Accepts(z) PROVE IInv'
  <1>1. /\ z \in Process /\ proc[z] \in Good(z) /\ proc[z].owner # None
        /\ proc[z].told \in {<<>>, <<"stop">>} /\ z \notin Virtual
    BY KindsAssumption DEF Accepts, IInv, Zygotes, Born, Objects
  <1> DEFINE heard == client[proc[z].owner].channel
             q == [proc[z] EXCEPT !.told = Append(@, "start")]
  <1>2. /\ q \in Good(z)
        /\ \A f \in {"os", "stopping", "stopper", "owner", "waiter", "death"} : q[f] = proc[z][f]
    BY <1>1, AcceptedGood
  <1> HIDE DEF q
  <1>3. proc' \in {proc, [proc EXCEPT ![z] = q]}
    BY DEF Accepts, q
  <1>4. /\ proc' = [p \in Process |-> proc'[p]]
        /\ \A p \in Process : p # z => proc'[p] = proc[p]
        /\ proc'[z] \in Good(z) /\ proc'[z].owner = proc[z].owner
        /\ proc'[z].os = proc[z].os /\ proc'[z].waiter = proc[z].waiter
    BY <1>1, <1>2, <1>3 DEF IInv, Objects
  <1>5. Objects'
    BY <1>4 DEF IInv, Objects
  <1>6. Born' = Born
    BY <1>4 DEF Born
  <1>7. Maps'
    BY <1>6 DEF Accepts, IInv, Maps, Names
  <1>8. Handlers'
    <2> SUFFICES ASSUME NEW c \in Client, client[c].launching # None
                 PROVE  /\ proc'[client[c].launching].owner = c
                        /\ proc'[client[c].launching].waiter = "none"
      BY DEF Accepts, IInv, Handlers
    <2>1. client[c].launching \in Process \ {z}
      BY <1>1, KindsAssumption DEF IInv, Handlers, Handler
    <2> QED  BY <1>4, <2>1 DEF IInv, Handlers
  <1>9. Zygotes'
    <2>1. zyg' \in [Zygote -> ZygoteObject] /\ zyg'[z].acceptor \in {"read", "deaf"}
          /\ \A y \in Zygote : /\ zyg'[y].children = zyg[y].children
                               /\ zyg'[y].notices = zyg[y].notices
                               /\ y # z => zyg'[y] = zyg[y]
      BY DEF Accepts, IInv, Zygotes, ZygoteObject
    <2>2. \A y \in Zygote : \A v \in zyg[y].notices : v \in Process /\ v # z
      BY <1>1, KindsAssumption DEF IInv, Zygotes, ZygoteObject
    <2> QED  BY <1>1, <1>4, <1>6, <2>1, <2>2, KindsAssumption DEF IInv, Zygotes, Born
  <1> QED  BY <1>5, <1>7, <1>8, <1>9 DEF Accepts, IInv

----------------------------------------------------------------------------
(* Clients.                                                                *)

\* A handler changes: its request is, or is no more, a launch or an abort.
Turns(f, c, h, v) == [f EXCEPT ![c].handler = h, ![c].victims = v]

Sets(f, c, h, v) == [f EXCEPT ![c].handler = h, ![c].launching = v]

LEMMA HandlerChanges ==
  ASSUME NEW f \in [Client -> Handler], NEW c \in Client,
         NEW h \in {"none", "idle", "launch", "abort", "emergency", "ended"}, NEW v \in SUBSET Process
  PROVE  LET g == Turns(f, c, h, v) IN
         /\ g \in [Client -> Handler] /\ g[c].handler = h /\ g[c].launching = f[c].launching
         /\ \A d \in Client : d # c => g[d] = f[d]
  <1> DEFINE k == [f[c] EXCEPT !.handler = h]
             l == [k EXCEPT !.victims = v]
  <1>1. k \in Handler /\ k.handler = h /\ k.launching = f[c].launching
    BY DEF Handler
  <1>2. l \in Handler /\ l.handler = h /\ l.launching = f[c].launching
    BY <1>1 DEF Handler
  <1>3. Turns(f, c, h, v) = [f EXCEPT ![c] = l]
    BY DEF Turns
  <1> HIDE DEF k, l
  <1> QED  BY <1>2, <1>3

LEMMA LaunchingChanges ==
  ASSUME NEW f \in [Client -> Handler], NEW c \in Client,
         NEW h \in {"none", "idle", "launch", "abort", "emergency", "ended"}, NEW v \in Virtual \cup {None}
  PROVE  LET g == Sets(f, c, h, v) IN
         /\ g \in [Client -> Handler] /\ g[c].handler = h /\ g[c].launching = v
         /\ \A d \in Client : d # c => g[d] = f[d]
  <1> DEFINE k == [f[c] EXCEPT !.handler = h]
             l == [k EXCEPT !.launching = v]
  <1>1. k \in Handler /\ k.handler = h
    BY DEF Handler
  <1>2. l \in Handler /\ l.handler = h /\ l.launching = v
    BY <1>1 DEF Handler
  <1>3. Sets(f, c, h, v) = [f EXCEPT ![c] = l]
    BY DEF Sets
  <1> HIDE DEF k, l
  <1> QED  BY <1>2, <1>3

\* No client's step but a launch changes what it launches.
LEMMA LaunchingSame ==
  ASSUME IInv, NEW c \in Client,
         \/ Connects(c) \/ OpensChannel(c) \/ Leaves(c) \/ AbortReturns(c) \/ HandlerEnds(c)
         \/ \E emergency \in BOOLEAN : HandleAbort(c, emergency)
  PROVE  /\ client' \in [Client -> Handler]
         /\ \A d \in Client : /\ client'[d].launching = client[d].launching
                              /\ client'[d].handler = "launch" <=> client[d].handler = "launch"
  <1>1. client \in [Client -> Handler]
    BY DEF IInv, Handlers
  <1>2. CASE Connects(c)
    <2> DEFINE k == [client[c] EXCEPT !.handler = "idle"]
               l == [k EXCEPT !.here = TRUE]
    <2>1. k \in Handler /\ k.handler = "idle" /\ k.launching = client[c].launching
      BY <1>1 DEF Handler
    <2>2. l \in Handler /\ l.handler = "idle" /\ l.launching = client[c].launching
      BY <2>1 DEF Handler
    <2>3. client' = [client EXCEPT ![c] = l] /\ client[c].handler # "launch"
      BY <1>2 DEF Connects
    <2> HIDE DEF k, l
    <2> QED  BY <1>1, <2>2, <2>3
  <1>3. CASE OpensChannel(c)
    BY <1>1, <1>3 DEF OpensChannel, Handler
  <1>4. CASE Leaves(c)
    BY <1>1, <1>4 DEF Leaves, Handler
  <1>5. CASE AbortReturns(c)
    <2>1. client[c].handler # "launch" /\ client' = Turns(client, c, "idle", {})
      BY <1>5 DEF AbortReturns, Turns
    <2>2. /\ client' \in [Client -> Handler] /\ client'[c].handler = "idle"
          /\ client'[c].launching = client[c].launching
          /\ \A d \in Client : d # c => client'[d] = client[d]
      BY <1>1, <2>1, HandlerChanges
    <2> QED  BY <2>1, <2>2
  <1>6. CASE HandlerEnds(c)
    BY <1>1, <1>6 DEF HandlerEnds, Handler
  <1>7. ASSUME NEW emergency \in BOOLEAN, HandleAbort(c, emergency)
        PROVE  /\ client' \in [Client -> Handler]
               /\ \A d \in Client : /\ client'[d].launching = client[d].launching
                                    /\ client'[d].handler = "launch" <=> client[d].handler = "launch"
    <2> DEFINE victims == IF emergency THEN procs ELSE procs \ Critical
    <2>1. victims \in SUBSET Process
      BY DEF IInv, Maps, Born
    <2> HIDE DEF victims
    <2>2. /\ client' = [client EXCEPT ![c].handler = IF emergency THEN "emergency" ELSE "abort",
                                      ![c].victims = victims]
          /\ client[c].handler = "idle"
      BY <1>7 DEF HandleAbort, Idle, victims
    <2> DEFINE h == IF emergency THEN "emergency" ELSE "abort"
    <2>3. h \in {"none", "idle", "launch", "abort", "emergency", "ended"} /\ h # "launch"
      OBVIOUS
    <2> HIDE DEF h
    <2>4. client' = Turns(client, c, h, victims)
      BY <2>2 DEF h, Turns
    <2>5. /\ client' \in [Client -> Handler] /\ client'[c].handler = h
          /\ client'[c].launching = client[c].launching
          /\ \A d \in Client : d # c => client'[d] = client[d]
      BY <2>1, <2>3, <2>4, HandlerChanges DEF IInv, Handlers
    <2> QED  BY <2>2, <2>3, <2>5
  <1> QED  BY <1>2, <1>3, <1>4, <1>5, <1>6, <1>7

LEMMA ClientStepsKeep ==
  ASSUME IInv, NEW c \in Client, Connects(c) \/ OpensChannel(c) \/ Leaves(c) \/ AbortReturns(c)
  PROVE  IInv'
  <1>1. Aged /\ Shrunk
    BY NotDisturbed, SameMaps DEF Connects, OpensChannel, Leaves, AbortReturns, IInv
  <1>2. Handlers'
    BY <1>1, LaunchingSame, HandlersAge DEF IInv
  <1> QED  BY <1>1, <1>2, ObjectsAge, MapsAge, ZygotesAge
           DEF IInv, Connects, OpensChannel, Leaves, AbortReturns

LEMMA KillingKeeps ==
  ASSUME IInv, NEW c \in Client,
         HandlerEnds(c) \/ \E emergency \in BOOLEAN : HandleAbort(c, emergency)
  PROVE  IInv'
  <1>1. \E S \in SUBSET Process : KillNow(S)
    BY DEF HandlerEnds, HandleAbort, IInv, Maps, Born
  <1>2. Aged /\ Shrunk
    BY <1>1, KillNowAges
  <1>3. Handlers'
    BY <1>2, LaunchingSame, HandlersAge DEF IInv
  <1> QED  BY <1>2, <1>3, ObjectsAge, MapsAge, ZygotesAge DEF IInv, HandlerEnds, HandleAbort

LEMMA StageZeroEndsKeeps ==
  ASSUME IInv, StageZeroDies \/ StageZeroStops PROVE IInv'
  <1>1. Aged /\ Shrunk
    <2>1. CASE StageZeroDies
      BY <2>1, NotDisturbed, SameMaps DEF StageZeroDies, IInv
    <2>2. CASE StageZeroStops
      BY <2>2, KillNowAges DEF StageZeroStops, IInv, Maps, Born
    <2> QED  BY <2>1, <2>2
  <1>2. Handlers'
    BY <1>1, HandlersAge DEF IInv, Handlers, StageZeroDies, StageZeroStops
  <1> QED  BY <1>1, <1>2, ObjectsAge, MapsAge, ZygotesAge DEF IInv, StageZeroDies, StageZeroStops

----------------------------------------------------------------------------
(* Launches.                                                               *)

LEMMA Unborn ==
  ASSUME IInv, NEW p \in Process, MayLaunch(p)
  PROVE  proc[p] \in Good(p) /\ proc[p].owner = None /\ p \notin Born /\ proc[p].told = <<>>
  BY DEF IInv, Objects, MayLaunch, Good, Born

LEMMA LaunchFailsKeeps ==
  ASSUME IInv, NEW c \in Client, NEW p \in Process, LaunchFails(c, p) PROVE IInv'
  <1> DEFINE q == [NewProcess EXCEPT !.os = "zombie"]
  <1>1. q \in Good(p) /\ q.owner = None /\ q.told = <<>> /\ q.waiter = "none" /\ q.os = "zombie"
    BY DEF NewProcess, Good, Object, StopTold, Dead
  <1>2. /\ proc[p].owner = None /\ proc[p].told = <<>> /\ proc[p].os = "none"
    BY Unborn DEF LaunchFails, MayLaunch
  <1> HIDE DEF q
  <1>3. Ages(p, proc[p], q)
    BY <1>1, <1>2 DEF Ages, Dead
  <1> QED  BY <1>1, <1>3, OneAges, SameMaps, Quiet DEF LaunchFails, q, IInv

LEMMA Birth ==
  ASSUME IInv, NEW p \in Process, MayLaunch(p), NEW r \in Good(p), r.owner # None, r.told = <<>>,
         proc' = [proc EXCEPT ![p] = r]
  PROVE  /\ Objects' /\ Born' = Born \cup {p}
         /\ \A q \in Process : q # p => proc'[q] = proc[q]
         /\ proc'[p] = r
         /\ \A z \in Zygote : /\ \A v \in zyg[z].notices : proc'[v].os = "reaped"
                              /\ zyg[z].acceptor \in {"none", "accept"} => proc'[z].told \in {<<>>, <<"stop">>}
         /\ \A c \in Client : client[c].launching # None =>
              /\ proc'[client[c].launching].owner = c
              /\ proc'[client[c].launching].waiter = "none"
  <1>1. p \notin Born /\ proc[p].os = "none"
    BY Unborn DEF MayLaunch
  <1>2. (\A q \in Process : q # p => proc'[q] = proc[q]) /\ proc'[p] = r
    BY DEF IInv, Objects
  <1>3. Objects' /\ Born' = Born \cup {p}
    BY <1>1, <1>2 DEF IInv, Objects, Born
  <1>4. ASSUME NEW z \in Zygote
        PROVE  /\ \A v \in zyg[z].notices : proc'[v].os = "reaped"
               /\ zyg[z].acceptor \in {"none", "accept"} => proc'[z].told \in {<<>>, <<"stop">>}
    BY <1>1, <1>2, KindsAssumption DEF IInv, Zygotes, ZygoteObject
  <1>5. ASSUME NEW c \in Client, client[c].launching # None
        PROVE  /\ proc'[client[c].launching].owner = c
               /\ proc'[client[c].launching].waiter = "none"
    <2>1. client[c].launching \in Born
      BY <1>5, KindsAssumption DEF IInv, Handlers, Handler, Born
    <2> QED  BY <1>1, <1>2, <1>5, <2>1 DEF IInv, Handlers, Born
  <1> QED  BY <1>2, <1>3, <1>4, <1>5

LEMMA LaunchedIs ==
  ASSUME NEW c \in Client
  PROVE  /\ Launched(c).owner = c /\ c # None /\ Launched(c).told = <<>>
         /\ Launched(c).os = "alive" /\ Launched(c).death = "none" /\ Launched(c).stopper = "none"
  BY KindsAssumption DEF Launched, NewProcess

LEMMA LaunchStaticKeeps ==
  ASSUME IInv, NEW c \in Client, NEW p \in Process, HandleLaunchStaticProcess(c, p) PROVE IInv'
  <1>1. /\ Launched(c) \in Good(p) /\ MayLaunch(p) /\ proc' = [proc EXCEPT ![p] = Launched(c)]
    BY LaunchedGood DEF HandleLaunchStaticProcess
  <1>2. /\ Objects' /\ Born' = Born \cup {p}
        /\ \A z \in Zygote : /\ \A v \in zyg[z].notices : proc'[v].os = "reaped"
                             /\ zyg[z].acceptor \in {"none", "accept"} => proc'[z].told \in {<<>>, <<"stop">>}
        /\ \A d \in Client : client[d].launching # None =>
              /\ proc'[client[d].launching].owner = d
              /\ proc'[client[d].launching].waiter = "none"
    BY <1>1, Birth, LaunchedIs
  <1>3. Maps'
    BY <1>2 DEF IInv, Maps, HandleLaunchStaticProcess, AddProcess, Names
  <1>4. Zygotes'
    BY <1>2 DEF IInv, Zygotes, HandleLaunchStaticProcess
  <1>5. Handlers'
    BY <1>2 DEF IInv, Handlers, HandleLaunchStaticProcess
  <1> QED  BY <1>2, <1>3, <1>4, <1>5 DEF IInv, HandleLaunchStaticProcess

LEMMA LaunchZygoteKeeps ==
  ASSUME IInv, NEW c \in Client, NEW p \in Process, HandleLaunchZygote(c, p) PROVE IInv'
  <1>1. /\ Launched(c) \in Good(p) /\ MayLaunch(p) /\ proc' = [proc EXCEPT ![p] = Launched(c)]
        /\ p \in Zygote /\ ZygoteName[p] \in Names
    BY LaunchedGood DEF HandleLaunchZygote, Names
  <1>a. Launched(c).owner # None /\ Launched(c).told = <<>>
    BY LaunchedIs
  <1>2. /\ Objects' /\ Born' = Born \cup {p} /\ proc'[p] = Launched(c)
        /\ \A z \in Zygote : /\ \A v \in zyg[z].notices : proc'[v].os = "reaped"
                             /\ zyg[z].acceptor \in {"none", "accept"} => proc'[z].told \in {<<>>, <<"stop">>}
        /\ \A d \in Client : client[d].launching # None =>
              /\ proc'[client[d].launching].owner = d
              /\ proc'[client[d].launching].waiter = "none"
    BY <1>1, <1>a, Birth
  <1>3. Maps'
    <2>1. procs' \subseteq Born' /\ virtuals' \subseteq Born' \cap Virtual /\ mine' \in [Client -> SUBSET Born']
      BY <1>2 DEF IInv, Maps, HandleLaunchZygote, AddProcess
    <2>2. zygotes' \in [Names -> Zygote \cup {None}]
      BY <1>1 DEF IInv, Maps, HandleLaunchZygote
    <2>3. \A n \in Names : zygotes'[n] # None => ZygoteName[zygotes'[n]] = n
      BY <1>1 DEF IInv, Maps, HandleLaunchZygote
    <2> QED  BY <2>1, <2>2, <2>3 DEF Maps, Names
  <1>4. Zygotes'
    <2>1. zyg' \in [Zygote -> ZygoteObject]
      BY <1>1 DEF IInv, Zygotes, ZygoteObject, HandleLaunchZygote
    <2>2. \A z \in Zygote : /\ zyg'[z].children = zyg[z].children /\ zyg'[z].notices = zyg[z].notices
                            /\ z # p => zyg'[z].acceptor = zyg[z].acceptor
      BY <1>1 DEF IInv, Zygotes, ZygoteObject, HandleLaunchZygote
    <2> QED  BY <1>1, <1>a, <1>2, <2>1, <2>2 DEF IInv, Zygotes
  <1>5. Handlers'
    BY <1>2 DEF IInv, Handlers, HandleLaunchZygote
  <1> QED  BY <1>2, <1>3, <1>4, <1>5 DEF IInv, HandleLaunchZygote

LEMMA LaunchVirtualKeeps ==
  ASSUME IInv, NEW c \in Client, NEW p \in Process, HandleLaunchVirtualProcess(c, p) PROVE IInv'
  <1> DEFINE z == ZygoteOf(p)
             r == IF p \in Notify THEN [Launched(c) EXCEPT !.waiter = "none"] ELSE Launched(c)
  <1>1. /\ MayLaunch(p) /\ proc' = [proc EXCEPT ![p] = r] /\ p \in Virtual /\ p \notin Zygote
        /\ virtuals' = virtuals \cup {p} /\ zyg' = [zyg EXCEPT ![z].children = @ \cup {p}]
        /\ client[c].handler = "idle"
    BY KindsAssumption DEF HandleLaunchVirtualProcess, Idle
  <1>2. r \in Good(p) /\ r.owner = c /\ c # None /\ r.told = <<>> /\ (p \in Notify => r.waiter = "none")
    BY LaunchedGood, LaunchedIs, KindsAssumption DEF Launched, NewProcess
  <1> HIDE DEF r, z
  <1>3. /\ Objects' /\ Born' = Born \cup {p} /\ proc'[p] = r
        /\ \A y \in Zygote : /\ \A v \in zyg[y].notices : proc'[v].os = "reaped"
                             /\ zyg[y].acceptor \in {"none", "accept"} => proc'[y].told \in {<<>>, <<"stop">>}
        /\ \A d \in Client : client[d].launching # None =>
              /\ proc'[client[d].launching].owner = d
              /\ proc'[client[d].launching].waiter = "none"
    BY <1>1, <1>2, Birth, ZenonT(40)
  <1>4. Maps'
    <2>1. procs' \subseteq Born' /\ virtuals' \subseteq Born' \cap Virtual /\ mine' \in [Client -> SUBSET Born']
      BY <1>1, <1>3 DEF IInv, Maps, HandleLaunchVirtualProcess, AddProcess
    <2> QED  BY <2>1 DEF IInv, Maps, HandleLaunchVirtualProcess, Names
  <1>5. Zygotes'
    <2>1. zyg' \in [Zygote -> ZygoteObject]
      BY <1>1 DEF IInv, Zygotes, ZygoteObject
    <2>2. \A y \in Zygote : /\ zyg'[y].children \subseteq zyg[y].children \cup {p}
                            /\ zyg'[y].notices = zyg[y].notices
                            /\ zyg'[y].acceptor = zyg[y].acceptor
      BY <1>1 DEF IInv, Zygotes, ZygoteObject
    <2> QED  BY <1>3, <2>1, <2>2 DEF IInv, Zygotes
  <1>6. Handlers'
    <2>1. CASE p \in Notify
      <3>1. client' = Sets(client, c, "launch", p)
        BY <2>1 DEF HandleLaunchVirtualProcess, Sets
      <3>2. client' \in [Client -> Handler] /\ client'[c].handler = "launch" /\ client'[c].launching = p
            /\ \A d \in Client : d # c => client'[d] = client[d]
        BY <1>1, <3>1, LaunchingChanges DEF IInv, Handlers
      <3> QED  BY <1>1, <1>2, <1>3, <2>1, <3>2, KindsAssumption DEF IInv, Handlers
    <2>2. CASE p \notin Notify
      BY <1>3, <2>2 DEF IInv, Handlers, HandleLaunchVirtualProcess
    <2> QED  BY <2>1, <2>2
  <1> QED  BY <1>3, <1>4, <1>5, <1>6 DEF IInv, HandleLaunchVirtualProcess

\* The object of a process whose launch has returned in time.
LEMMA ReturnedGood ==
  ASSUME NEW p \in Process, NEW r \in Good(p), r.owner # None, r.waiter = "none"
  PROVE  LET q == [r EXCEPT !.waiter = "begin"] IN
         q \in Good(p) /\ \A f \in {"os", "owner", "death", "told"} : q[f] = r[f]
  <1> DEFINE q == [r EXCEPT !.waiter = "begin"]
  <1>1. r \in Object /\ q \in Object /\ q.waiter = "begin"
    BY DEF Good, Object
  <1>2. \A f \in {"wrote", "running", "os", "stopping", "stopper", "owner", "death", "told"} : q[f] = r[f]
    BY <1>1 DEF Object
  <1> HIDE DEF q
  <1>3. q \in Good(p)
    BY <1>1, <1>2 DEF Good, StopTold
  <1> QED  BY <1>2, <1>3 DEF q

LEMMA LaunchReturnsKeeps ==
  ASSUME IInv, NEW c \in Client, LaunchReturns(c) PROVE IInv'
  <1> DEFINE v == client[c].launching
             q == proc'[v]
  <1>1. /\ v \in Virtual /\ v \in Process /\ v \notin Zygote /\ proc[v] \in Good(v) /\ c # None
        /\ proc[v].owner = c /\ proc[v].waiter = "none" /\ v \in Born
    BY KindsAssumption DEF LaunchReturns, IInv, Handlers, Handler, Objects, Born
  <1>2. /\ proc' = [p \in Process |-> proc'[p]] /\ \A p \in Process : p # v => proc'[p] = proc[p]
        /\ q \in {[proc[v] EXCEPT !.waiter = "begin"], Stopping(proc[v])}
    BY <1>1 DEF LaunchReturns, IInv, Objects
  <1> HIDE DEF v, q
  <1>3. q \in Good(v) /\ \A f \in {"os", "owner", "death", "told"} : q[f] = proc[v][f]
    <2>1. CASE q = [proc[v] EXCEPT !.waiter = "begin"]
      BY <1>1, <2>1, ReturnedGood
    <2>2. CASE q = Stopping(proc[v])
      BY <1>1, <2>2, StoppingGood DEF Ages
    <2> QED  BY <1>2, <2>1, <2>2
  <1>4. /\ procs' = procs \cup {v} /\ mine' = [mine EXCEPT ![c] = @ \cup {v}]
        /\ client' = Sets(client, c, "idle", None)
        /\ UNCHANGED <<zygotes, virtuals, zyg, up>>
    BY DEF LaunchReturns, AddProcess, Sets, v
  <1>5. /\ client' \in [Client -> Handler] /\ client'[c].handler = "idle" /\ client'[c].launching = None
        /\ \A d \in Client : d # c => client'[d] = client[d]
    BY <1>4, LaunchingChanges DEF IInv, Handlers
  <1>6. Objects'
    BY <1>2, <1>3 DEF IInv, Objects, q
  <1>7. Born' = Born
    BY <1>2, <1>3 DEF Born, q
  <1>8. Maps'
    BY <1>1, <1>4, <1>7 DEF IInv, Maps, Names
  <1>9. Zygotes'
    <2>1. \A y \in Zygote : y # v /\ y \in Process /\ \A u \in zyg[y].notices : u \in Process
      BY <1>1, KindsAssumption DEF IInv, Zygotes, ZygoteObject
    <2>2. \A p \in Process : proc'[p].os = proc[p].os
      BY <1>2, <1>3 DEF q
    <2> QED  BY <1>2, <1>4, <1>7, <2>1, <2>2 DEF IInv, Zygotes
  <1>10. Handlers'
    <2> SUFFICES ASSUME NEW d \in Client
                 PROVE  /\ client'[d].launching # None <=> client'[d].handler = "launch"
                        /\ client'[d].launching # None =>
                             proc'[client'[d].launching].owner = d /\ proc'[client'[d].launching].waiter = "none"
      BY <1>5 DEF Handlers
    <2>1. CASE d = c
      BY <1>5, <2>1
    <2>2. CASE d # c
      <3>1. client'[d] = client[d]
        BY <1>5, <2>2
      <3>2. ASSUME client[d].launching # None
            PROVE  client[d].launching \in Process \ {v} /\ proc'[client[d].launching] = proc[client[d].launching]
        BY <1>1, <1>2, <2>2, <3>2, KindsAssumption DEF IInv, Handlers, Handler
      <3> QED  BY <3>1, <3>2 DEF IInv, Handlers
    <2> QED  BY <2>1, <2>2
  <1> QED  BY <1>4, <1>6, <1>8, <1>9, <1>10 DEF IInv

LEMMA NextKeeps ==
  ASSUME IInv, [Next]_vars PROVE IInv'
  <1>1. CASE UNCHANGED vars
    <2>1. Aged /\ Shrunk
      BY <1>1, NotDisturbed, SameMaps DEF vars, IInv
    <2> QED  BY <1>1, <2>1, Quiet DEF vars
  <1>2. ASSUME NEW p \in Process, Notifies(p) \/ Exits(p) \/ Waits(p) \/ StopperRuns(p)
        PROVE  IInv'
    <2>1. CASE Notifies(p)
      BY <2>1, NotifiesKeeps
    <2>2. CASE Exits(p)
      BY <2>2, ExitsKeeps
    <2>3. CASE StopperRuns(p)
      BY <2>3, StopperRunsKeeps
    <2>4. CASE Started(p) \/ ReadReturns(p) \/ BeginsWatch(p)
      BY <2>4, WaiterKeeps
    <2>5. CASE StartupTimesOut(p)
      BY <2>5, StartupTimesOutKeeps
    <2>6. CASE SeesExit(p)
      BY <2>6, SeesExitKeeps
    <2>7. CASE HearsDeath(p)
      <3>1. p \in Virtual
        BY <2>7 DEF HearsDeath
      <3> QED  BY <2>7, <3>1, HearsDeathKeeps
    <2> QED  BY <1>2, <2>1, <2>2, <2>3, <2>4, <2>5, <2>6, <2>7 DEF Waits
  <1>3. ASSUME NEW z \in Zygote, Accepts(z) \/ Acceptor(z) PROVE IInv'
    BY <1>3, AcceptsKeeps, LosesZygoteKeeps, RelaysKeeps DEF Acceptor
  <1>4. CASE Reaps
    BY <1>4, InitReapsKeeps, MonitorReapsKeeps DEF Reaps
  <1>5. ASSUME NEW c \in Client,
               \/ Connects(c) \/ OpensChannel(c) \/ Leaves(c) \/ HandlerEnds(c)
               \/ Handles(c) \/ LaunchReturns(c) \/ AbortReturns(c)
        PROVE  IInv'
    <2>1. CASE Connects(c) \/ OpensChannel(c) \/ Leaves(c) \/ AbortReturns(c)
      BY <2>1, ClientStepsKeep
    <2>2. CASE HandlerEnds(c) \/ \E emergency \in BOOLEAN : HandleAbort(c, emergency)
      BY <2>2, KillingKeeps
    <2>3. CASE LaunchReturns(c)
      BY <2>3, LaunchReturnsKeeps
    <2>4. ASSUME NEW p \in Process,
                 \/ LaunchFails(c, p) \/ HandleLaunchStaticProcess(c, p)
                 \/ HandleLaunchZygote(c, p) \/ HandleLaunchVirtualProcess(c, p)
                 \/ HandleStopProcess(c, p)
          PROVE  IInv'
      BY <2>4, LaunchFailsKeeps, LaunchStaticKeeps, LaunchZygoteKeeps, LaunchVirtualKeeps, HandleStopKeeps
    <2> QED  BY <1>5, <2>1, <2>2, <2>3, <2>4 DEF Handles
  <1>6. CASE StageZeroDies \/ StageZeroStops
    BY <1>6, StageZeroEndsKeeps
  <1> QED  BY <1>1, <1>2, <1>3, <1>4, <1>5, <1>6 DEF Next

\* IInv is an inductive invariant.
THEOREM Inductive == Spec => []IInv
  <1> QED  BY InitIInv, NextKeeps, PTL DEF Spec

\* The objects, the maps and the handlers keep their types.
THEOREM TypeCorrect == Spec => []TypeOK
  BY Inductive, IInvTypes, PTL

----------------------------------------------------------------------------
(* No living process is lost.                                              *)

Stoppers == {"begin", "telemetry", "int", "term"}

\* What a step that launches nothing must do for KeepsTrack.
Keeps(p) ==
    Alive(p)' =>
        /\ Alive(p)
        /\ p \in procs => p \in procs' \/ proc'[p].stopper \in Stoppers
        /\ proc[p].stopper \in Stoppers => proc'[p].stopper \in Stoppers

LEMMA TrackKept ==
  ASSUME KeepsTrack, up' # "down" => up # "down", \A p \in Process : Keeps(p),
         \A c \in Client : client'[c].launching = client[c].launching
  PROVE  KeepsTrack'
  BY DEF KeepsTrack, Keeps, Stoppers, Alive

\* One process changes.
LEMMA OneKeepsTrack ==
  ASSUME IInv, KeepsTrack, up # "down", UNCHANGED <<procs, client>>, NEW p \in Process, NEW r,
         proc' = [proc EXCEPT ![p] = r],
         r.os = "alive" => proc[p].os = "alive" /\ (proc[p].stopper \in Stoppers => r.stopper \in Stoppers)
  PROVE  KeepsTrack'
  <1>1. \A q \in Process : Keeps(q)
    BY DEF Keeps, Alive, IInv, Objects
  <1> QED  BY <1>1, TrackKept

LEMMA StopTracks ==
  ASSUME IInv, KeepsTrack, up # "down", UNCHANGED client, NEW p \in Process, NEW r,
         Stop(p, r), Stopping(r).os = "alive" => proc[p].os = "alive",
         r.stopping => Stopping(r).stopper = proc[p].stopper,
         ~r.stopping => Stopping(r).stopper = "begin"
  PROVE  KeepsTrack'
  <1> DEFINE q == Stopping(r)
  <1>1. proc' = [proc EXCEPT ![p] = q]
    BY DEF Stop
  <1>2. /\ \A x \in Process : x \in procs /\ x # p => x \in procs'
        /\ r.stopping => procs' = procs
    BY DEF Stop, RemoveProcess, Removed
  <1> HIDE DEF q
  <1>3. \A x \in Process : Keeps(x)
    BY <1>1, <1>2 DEF Keeps, Alive, IInv, Objects, Stoppers, q
  <1> QED  BY <1>3, TrackKept

LEMMA KillTracks ==
  ASSUME IInv, KeepsTrack, up # "down", NEW S \in SUBSET Process, KillNow(S),
         \A c \in Client : client'[c].launching = client[c].launching
  PROVE  KeepsTrack'
  <1>1. \A p \in Process : proc[p] \in Good(p) /\ proc'[p] = IF p \in S THEN Killed(proc[p]) ELSE proc[p]
    BY DEF IInv, Objects, KillNow
  <1>2. \A p \in Process : p \in procs /\ p \notin S => p \in procs'
    BY DEF KillNow, RemoveProcess, Removed
  <1>3. \A p \in Process : p \in S => proc'[p].os # "alive"
    BY <1>1, KilledGood
  <1>4. \A p \in Process : Keeps(p)
    BY <1>1, <1>2, <1>3 DEF Keeps, Alive
  <1> QED  BY <1>4, TrackKept

LEMMA OthersTrack ==
  ASSUME IInv, KeepsTrack, UNCHANGED <<proc, procs>>, up' # "down" => up # "down",
         \A c \in Client : client'[c].launching = client[c].launching
  PROVE  KeepsTrack'
  BY TrackKept DEF Keeps, Alive

\* A new process is known at once, or its handler is at work.
LEMMA LaunchTracks ==
  ASSUME IInv, KeepsTrack, up # "down", NEW p \in Process, NEW r, proc' = [proc EXCEPT ![p] = r],
         procs \subseteq procs',
         \A c \in Client : client[c].launching # None => client'[c].launching = client[c].launching,
         r.os = "alive" => p \in procs' \/ \E c \in Client : client'[c].launching = p
  PROVE  KeepsTrack'
  <1> SUFFICES ASSUME NEW q \in Process, Alive(q)', up' # "down"
               PROVE  \/ q \in procs' \/ proc'[q].stopper \in Stoppers
                      \/ \E c \in Client : client'[c].launching = q
    BY DEF KeepsTrack, Stoppers
  <1>1. CASE q = p
    BY <1>1 DEF Alive, IInv, Objects
  <1>2. CASE q # p
    <2>1. proc'[q] = proc[q] /\ q # None
      BY <1>2, KindsAssumption DEF IInv, Objects
    <2> QED  BY <2>1 DEF KeepsTrack, Alive, Stoppers
  <1> QED  BY <1>1, <1>2

LEMMA ProcessesTrack ==
  ASSUME IInv, KeepsTrack, NEW p \in Process, Notifies(p) \/ Exits(p) \/ Waits(p) \/ StopperRuns(p)
  PROVE  KeepsTrack'
  <1> DEFINE r == proc[p]
  <1>1. r \in Good(p) /\ r \in Object
    BY DEF IInv, Objects, Good
  <1>2. CASE Notifies(p)
    <2>1. [r EXCEPT !.wrote = TRUE].os = r.os /\ [r EXCEPT !.wrote = TRUE].stopper = r.stopper
      BY <1>1 DEF Object
    <2> QED  BY <1>2, <2>1, OneKeepsTrack DEF Notifies
  <1>3. CASE Exits(p)
    BY <1>1, <1>3, KilledGood, OneKeepsTrack DEF Exits
  <1>4. CASE StopperRuns(p)
    <2>1. r.stopper \in Stoppers /\ r.owner # None /\ \E i \in DOMAIN Course(p) : Course(p)[i] = r.stopper
      BY <1>1, <1>4 DEF StopperRuns, Good, Stoppers
    <2>2. CASE proc' = [proc EXCEPT ![p].stopper = "done"] /\ (~r.running \/ r.os \in Dead)
      <3>1. [r EXCEPT !.stopper = "done"].os # "alive"
        BY <1>1, <2>2 DEF Good, Object, Dead
      <3> QED  BY <1>4, <2>2, <3>1, OneKeepsTrack DEF StopperRuns, Runs
    <2>3. CASE proc' = [proc EXCEPT ![p] = Enter(r, StageAfter(p, r.stopper))]
      <3> DEFINE s == StageAfter(p, r.stopper)
      <3>1. s \in {"begin", "telemetry", "int", "term", "kill"}
            /\ \E i \in DOMAIN Course(p) : Course(p)[i] = s
        BY <2>1, StageAfterIn DEF Stoppers
      <3> HIDE DEF s
      <3>2. /\ Enter(r, s).stopper \notin Stoppers => Enter(r, s).os # "alive"
            /\ Enter(r, s).os # r.os => Enter(r, s).os \in Dead
        BY <1>1, <2>1, <3>1, EnterGood DEF Stoppers
      <3> QED  BY <1>4, <2>3, <3>2, OneKeepsTrack DEF StopperRuns, Runs, Dead, s
    <2> QED  BY <1>4, <2>2, <2>3 DEF StopperRuns
  <1>5. ASSUME NEW tell \in BOOLEAN, r.waiter \in {"begin", "read"}, tell => p \notin Zygote,
               proc' = [proc EXCEPT ![p] = Watch(proc[p], p, tell)], up # "down",
               UNCHANGED <<procs, mine, zygotes, virtuals, zyg, client, up>>
        PROVE  KeepsTrack'
    <2>1. r.owner # None
      BY <1>1, <1>5 DEF Good
    <2> QED  BY <1>1, <1>5, <2>1, WatchGood, OneKeepsTrack, ZenonT(40)
  <1>6. CASE Started(p)
    <2> DEFINE tell == SaysStart(p) /\ (p \in Notify => proc[p].wrote)
    <2>1. tell \in BOOLEAN /\ (tell => p \notin Zygote)
      BY DEF SaysStart
    <2> HIDE DEF tell
    <2>2. proc' = [proc EXCEPT ![p] = Watch(proc[p], p, tell)]
      BY <1>6 DEF Started, tell
    <2> QED  BY <1>5, <1>6, <2>1, <2>2 DEF Started, Runs
  <1>7. CASE ReadReturns(p)
    BY <1>5, <1>7 DEF ReadReturns
  <1>8. CASE BeginsWatch(p)
    BY <1>5, <1>8, KindsAssumption DEF BeginsWatch, Runs
  <1>9. CASE StartupTimesOut(p)
    <2> DEFINE q == [r EXCEPT !.waiter = "read"]
    <2>1. q \in Good(p) /\ q.owner # None /\ q.os = r.os /\ q.stopper = r.stopper
      BY <1>1, <1>9, TimedOutGood DEF StartupTimesOut
    <2>2. Stop(p, q)
      BY <1>9 DEF StartupTimesOut
    <2> HIDE DEF q
    <2> QED  BY <1>9, <2>1, <2>2, StoppingGood, StopTracks DEF StartupTimesOut, Runs
  <1>10. CASE SeesExit(p)
    <2>1. proc'[p].os # "alive" /\ \A q \in Process : q # p => proc'[q] = proc[q]
      BY <1>10, SeesExitChanges DEF IInv, Objects
    <2>2. \A q \in Process : Keeps(q)
      BY <1>10, <2>1 DEF Keeps, Alive, SeesExit, TryRemoveProcess
    <2> QED  BY <1>10, <2>2, TrackKept DEF SeesExit
  <1>11. CASE HearsDeath(p)
    <2> DEFINE q == Told([r EXCEPT !.waiter = "done"], p, "stop")
    <2>1. /\ p \in Process \ Zygote /\ r.waiter = "wait" /\ r.owner # None
      BY <1>1, <1>11, KindsAssumption DEF HearsDeath, Good
    <2>2. /\ \A f \in {"os", "owner", "death", "stopper", "stopping"} : q[f] = r[f]
          /\ r.death = "eof" =>
               /\ ~r.stopping => Stopping(q).stopper = "begin"
               /\ Stopping(q).os = r.os /\ (r.stopping => Stopping(q) = q)
      BY <1>1, <2>1, HearsDeathGood
    <2>3. \/ r.death = "status" /\ proc' = [proc EXCEPT ![p] = q] /\ UNCHANGED procs
          \/ r.death = "eof" /\ Stop(p, q)
      BY <1>11 DEF HearsDeath
    <2> HIDE DEF q
    <2> QED  BY <1>11, <2>2, <2>3, OneKeepsTrack, StopTracks DEF HearsDeath, Runs
  <1> QED  BY <1>2, <1>3, <1>4, <1>6, <1>7, <1>8, <1>9, <1>10, <1>11 DEF Waits

LEMMA ZygotesTrack ==
  ASSUME IInv, KeepsTrack, Reaps \/ \E z \in Zygote : Accepts(z) \/ Acceptor(z) PROVE KeepsTrack'
  <1>1. CASE Reaps
    <2>1. PICK v \in Virtual : proc' = [proc EXCEPT ![v] = [proc[v] EXCEPT !.os = "reaped"]]
                               /\ up # "down" /\ UNCHANGED <<procs, client>>
      BY <1>1 DEF Reaps, InitReaps, MonitorReaps
    <2>2. v \in Process /\ [proc[v] EXCEPT !.os = "reaped"].os = "reaped"
      BY KindsAssumption DEF IInv, Objects, Good, Object
    <2> QED  BY <2>1, <2>2, OneKeepsTrack
  <1>2. ASSUME NEW z \in Zygote, Accepts(z) PROVE KeepsTrack'
    <2> DEFINE q == [proc[z] EXCEPT !.told = Append(@, "start")]
    <2>1. z \in Process /\ q.os = proc[z].os /\ q.stopper = proc[z].stopper
      BY KindsAssumption DEF IInv, Objects, Good, Object
    <2>2. proc' = proc \/ proc' = [proc EXCEPT ![z] = q]
      BY <1>2 DEF Accepts
    <2> HIDE DEF q
    <2> QED  BY <1>2, <2>1, <2>2, OneKeepsTrack, OthersTrack DEF Accepts, Runs
  <1>3. ASSUME NEW z \in Zygote, NEW v \in Virtual, Relays(z, v) PROVE KeepsTrack'
    <2> DEFINE q == [proc[v] EXCEPT !.death = "status"]
    <2>1. v \in Process /\ q.os = proc[v].os /\ q.stopper = proc[v].stopper
      BY KindsAssumption DEF IInv, Objects, Good, Object
    <2>2. proc' = proc \/ proc' = [proc EXCEPT ![v] = q]
      BY <1>3 DEF Relays
    <2> HIDE DEF q
    <2> QED  BY <1>3, <2>1, <2>2, OneKeepsTrack, OthersTrack DEF Relays, Runs
  <1>4. ASSUME NEW z \in Zygote, LosesZygote(z) PROVE KeepsTrack'
    <2>1. ASSUME NEW p \in Process PROVE Keeps(p)
      <3>1. proc[p] \in Object
        BY DEF IInv, Objects, Good
      <3>2. proc'[p] \in {proc[p], [proc[p] EXCEPT !.death = "eof"]}
        BY <1>4 DEF LosesZygote
      <3>3. proc'[p].os = proc[p].os /\ proc'[p].stopper = proc[p].stopper
        BY <3>1, <3>2 DEF Object
      <3> QED  BY <1>4, <3>3 DEF Keeps, Alive, LosesZygote
    <2> QED  BY <1>4, <2>1, TrackKept DEF LosesZygote
  <1> QED  BY <1>1, <1>2, <1>3, <1>4 DEF Acceptor

LEMMA ClientsTrack ==
  ASSUME IInv, KeepsTrack, NEW c \in Client,
         \/ Connects(c) \/ OpensChannel(c) \/ Leaves(c) \/ HandlerEnds(c)
         \/ Handles(c) \/ LaunchReturns(c) \/ AbortReturns(c)
  PROVE  KeepsTrack'
  <1>1. CASE Connects(c) \/ OpensChannel(c) \/ Leaves(c) \/ AbortReturns(c)
    <2>1. UNCHANGED <<proc, procs>> /\ up # "down"
      BY <1>1 DEF Connects, OpensChannel, Leaves, AbortReturns, Runs
    <2> QED  BY <1>1, <2>1, LaunchingSame, OthersTrack
  <1>2. CASE HandlerEnds(c) \/ \E emergency \in BOOLEAN : HandleAbort(c, emergency)
    <2>1. up # "down" /\ \E S \in SUBSET Process : KillNow(S)
      BY <1>2 DEF HandlerEnds, HandleAbort, Idle, Runs, IInv, Maps, Born
    <2> QED  BY <1>2, <2>1, LaunchingSame, KillTracks
  <1>3. CASE LaunchReturns(c)
    <2> DEFINE v == client[c].launching
    <2>1. v \in Process /\ proc[v].stopper \in Stoppers \cup {"none", "done"}
      BY <1>3, KindsAssumption DEF LaunchReturns, IInv, Handlers, Handler, Objects, Good, Object, Stoppers
    <2>2. procs' = procs \cup {v} /\ up # "down" /\ client' = Sets(client, c, "idle", None)
      BY <1>3 DEF LaunchReturns, AddProcess, Runs, Sets
    <2>3. \A d \in Client : d # c => client'[d] = client[d]
      BY <2>2, LaunchingChanges DEF IInv, Handlers
    <2>4. \A p \in Process : p # v => proc'[p] = proc[p]
      BY <1>3 DEF LaunchReturns, IInv, Objects
    <2> HIDE DEF v
    <2> SUFFICES ASSUME NEW p \in Process, Alive(p)'
                 PROVE  \/ p \in procs' \/ proc'[p].stopper \in Stoppers
                        \/ \E d \in Client : client'[d].launching = p
      BY DEF KeepsTrack, Stoppers
    <2>5. CASE p = v
      BY <2>2, <2>5
    <2>6. CASE p # v
      BY <2>2, <2>3, <2>4, <2>6 DEF KeepsTrack, Alive, Stoppers, v
    <2> QED  BY <2>5, <2>6
  <1>4. ASSUME NEW p \in Process, HandleStopProcess(c, p) PROVE KeepsTrack'
    <2>1. proc[p] \in Good(p) /\ proc[p].owner # None
      BY <1>4 DEF IInv, Objects, HandleStopProcess, Maps, Born
    <2> QED  BY <1>4, <2>1, StoppingGood, StopTracks DEF HandleStopProcess, Idle, Runs
  <1>5. ASSUME NEW p \in Process, LaunchFails(c, p) PROVE KeepsTrack'
    <2>1. [NewProcess EXCEPT !.os = "zombie"].os = "zombie"
      BY DEF NewProcess
    <2> QED  BY <1>5, <2>1, OneKeepsTrack DEF LaunchFails, Idle, Runs
  <1>6. ASSUME NEW p \in Process, HandleLaunchStaticProcess(c, p) \/ HandleLaunchZygote(c, p)
        PROVE  KeepsTrack'
    <2>1. /\ proc' = [proc EXCEPT ![p] = Launched(c)] /\ procs' = procs \cup {p}
          /\ up # "down" /\ UNCHANGED client
      BY <1>6 DEF HandleLaunchStaticProcess, HandleLaunchZygote, AddProcess, Idle, Runs
    <2> QED  BY <2>1, LaunchTracks
  <1>7. ASSUME NEW p \in Process, HandleLaunchVirtualProcess(c, p) PROVE KeepsTrack'
    <2> DEFINE r == IF p \in Notify THEN [Launched(c) EXCEPT !.waiter = "none"] ELSE Launched(c)
    <2>1. /\ proc' = [proc EXCEPT ![p] = r] /\ procs \subseteq procs' /\ up # "down"
          /\ client[c].handler = "idle" /\ p \in Virtual
      BY <1>7 DEF HandleLaunchVirtualProcess, AddProcess, Idle, Runs
    <2> HIDE DEF r
    <2>2. client[c].launching = None
      BY <2>1 DEF IInv, Handlers
    <2>3. CASE p \in Notify
      <3>1. client' = Sets(client, c, "launch", p)
        BY <1>7, <2>3 DEF HandleLaunchVirtualProcess, Sets
      <3>2. client'[c].launching = p /\ \A d \in Client : d # c => client'[d] = client[d]
        BY <2>1, <3>1, LaunchingChanges DEF IInv, Handlers
      <3> QED  BY <2>1, <2>2, <3>2, LaunchTracks
    <2>4. CASE p \notin Notify
      <3>1. p \in procs' /\ UNCHANGED client
        BY <1>7, <2>4 DEF HandleLaunchVirtualProcess, AddProcess
      <3> QED  BY <2>1, <3>1, LaunchTracks
    <2> QED  BY <2>3, <2>4
  <1> QED  BY <1>1, <1>2, <1>3, <1>4, <1>5, <1>6, <1>7 DEF Handles

LEMMA NextTracks ==
  ASSUME IInv, KeepsTrack, [Next]_vars PROVE KeepsTrack'
  <1>1. CASE UNCHANGED vars
    BY <1>1, OthersTrack DEF vars
  <1>2. CASE StageZeroDies \/ StageZeroStops
    BY <1>2 DEF StageZeroDies, StageZeroStops, KeepsTrack
  <1> QED  BY <1>1, <1>2, ProcessesTrack, ZygotesTrack, ClientsTrack DEF Next

\* StageZero never loses track of a living process: it is in processes_, a
\* stopper is at work on it, or a handler is still launching it, whatever the
\* interleaving of the coroutines and of the processes.
THEOREM NothingIsLost == Spec => []KeepsTrack
  <1>1. Init => KeepsTrack
    BY DEF Init, KeepsTrack, Alive, NewProcess
  <1> QED  BY <1>1, Inductive, NextTracks, PTL DEF Spec

----------------------------------------------------------------------------
(* The maps.                                                               *)

Agree ==
    /\ \A c \in Client : mine[c] \subseteq procs
    /\ \A p \in procs : p \in mine[proc[p].owner]
    /\ \A z \in Zygote : z \in procs <=> zygotes[ZygoteName[z]] = z

SameOwners == \A p \in Born : proc'[p].owner = proc[p].owner

LEMMA AgreeStays ==
  ASSUME IInv, Agree, SameOwners, UNCHANGED <<procs, mine, zygotes>> PROVE Agree'
  BY DEF IInv, Maps, Agree, SameOwners

\* What RemoveProcess takes from processes_ is all it was asked to.
LEMMA RemovesAll ==
  ASSUME IInv, Agree, NEW S \in SUBSET Born PROVE procs \ Removed(S) = procs \ S
  <1>1. ASSUME NEW p \in procs, p \in S PROVE p \in Removed(S)
    <2>1. p \in Zygote => zygotes[ZygoteName[p]] = p /\ p # None
      BY <1>1, KindsAssumption DEF Agree
    <2> QED  BY <1>1, <2>1 DEF Agree, Removed
  <1> QED  BY <1>1 DEF Removed

LEMMA RemoveAgrees ==
  ASSUME DistinctZygotes, IInv, Agree, SameOwners, NEW S \in SUBSET Born, RemoveProcess(S)
  PROVE  Agree'
  <1>1. procs' = procs \ S /\ mine' = [c \in Client |-> mine[c] \ S]
    BY RemovesAll DEF RemoveProcess
  <1>2. \A c \in Client : mine'[c] \subseteq procs'
    BY <1>1 DEF Agree
  <1>3. ASSUME NEW p \in procs' PROVE p \in mine'[proc'[p].owner]
    <2>1. p \in procs /\ p \notin S /\ p \in Born /\ proc[p].owner \in Client
      BY <1>1 DEF IInv, Maps, Born, Objects, Good, Object
    <2> QED  BY <1>1, <2>1 DEF Agree, SameOwners
  <1>4. ASSUME NEW z \in Zygote PROVE z \in procs' <=> zygotes'[ZygoteName[z]] = z
    <2>1. ZygoteName[z] \in Names /\ z # None
      BY KindsAssumption DEF Names
    <2>2. CASE z \in Removed(S)
      <3>1. zygotes'[ZygoteName[z]] = None
        BY <2>1, <2>2 DEF RemoveProcess, NamesLess
      <3> QED  BY <1>1, <2>1, <2>2, <3>1 DEF Removed
    <2>3. CASE z \notin Removed(S)
      <3>1. \A y \in Removed(S) \cap Zygote : ZygoteName[y] # ZygoteName[z]
        BY <2>3 DEF DistinctZygotes
      <3>2. zygotes'[ZygoteName[z]] = zygotes[ZygoteName[z]]
        BY <2>1, <3>1 DEF RemoveProcess, NamesLess
      <3>3. z \in procs' <=> z \in procs
        BY <2>3 DEF RemoveProcess
      <3> QED  BY <3>2, <3>3 DEF Agree
    <2> QED  BY <2>2, <2>3
  <1> QED  BY <1>2, <1>3, <1>4 DEF Agree

LEMMA TryRemoveAgrees ==
  ASSUME DistinctZygotes, IInv, Agree, SameOwners, NEW p \in Born, TryRemoveProcess(p) PROVE Agree'
  <1>1. \A c \in Client : mine'[c] \subseteq procs'
    BY DEF TryRemoveProcess, Agree
  <1>2. ASSUME NEW q \in procs' PROVE q \in mine'[proc'[q].owner]
    <2>1. q \in procs /\ q # p /\ q \in Born /\ proc[q].owner \in Client
      BY <1>2 DEF TryRemoveProcess, IInv, Maps, Born, Objects, Good, Object
    <2> QED  BY <2>1 DEF TryRemoveProcess, Agree, SameOwners
  <1>3. ASSUME NEW z \in Zygote PROVE z \in procs' <=> zygotes'[ZygoteName[z]] = z
    <2>1. ZygoteName[z] \in Names /\ z # None
      BY KindsAssumption DEF Names
    <2>2. CASE z = p
      BY <2>1, <2>2 DEF TryRemoveProcess, NamesLess
    <2>3. CASE z # p
      <3>1. \A y \in {p} \cap Zygote : ZygoteName[y] # ZygoteName[z]
        BY <2>3 DEF DistinctZygotes
      <3> QED  BY <2>1, <2>3, <3>1 DEF TryRemoveProcess, NamesLess, Agree
    <2> QED  BY <2>2, <2>3
  <1> QED  BY <1>1, <1>2, <1>3 DEF Agree

\* A process enters the maps.
LEMMA AddAgrees ==
  ASSUME IInv, Agree, SameOwners, NEW c \in Client, NEW p \in Process, proc'[p].owner = c,
         AddProcess(c, p), p \notin Zygote, UNCHANGED zygotes
  PROVE  Agree'
  <1>1. \A d \in Client : mine'[d] \subseteq procs'
    BY DEF IInv, Maps, Agree, AddProcess
  <1>2. ASSUME NEW q \in procs' PROVE q \in mine'[proc'[q].owner]
    <2>1. CASE q = p
      BY <2>1 DEF IInv, Maps, AddProcess
    <2>2. CASE q # p
      <3>1. q \in procs /\ q \in Born /\ proc[q].owner \in Client
        BY <2>2 DEF AddProcess, IInv, Maps, Born, Objects, Good, Object
      <3> QED  BY <3>1 DEF AddProcess, Agree, SameOwners, IInv, Maps
    <2> QED  BY <2>1, <2>2
  <1>3. \A z \in Zygote : z \in procs' <=> zygotes'[ZygoteName[z]] = z
    BY DEF Agree, AddProcess
  <1> QED  BY <1>1, <1>2, <1>3 DEF Agree

LEMMA LaunchOwners ==
  ASSUME IInv, NEW p \in Process, MayLaunch(p), NEW r, proc' = [proc EXCEPT ![p] = r]
  PROVE  SameOwners /\ proc'[p] = r /\ p \notin procs
  BY Unborn DEF SameOwners, IInv, Objects, Maps

LEMMA AgedOwners == ASSUME Aged PROVE SameOwners
  BY DEF Aged, Ages, SameOwners, Born

LEMMA StopAgrees ==
  ASSUME DistinctZygotes, IInv, Agree, NEW p \in Process, NEW r, Stop(p, r), SameOwners,
         proc[p].owner # None
  PROVE  Agree'
  <1>1. p \in Born
    BY DEF Born
  <1> QED  BY <1>1, RemoveAgrees, AgreeStays DEF Stop

LEMMA ProcessesAgree ==
  ASSUME DistinctZygotes, IInv, Agree, NEW p \in Process, Notifies(p) \/ Exits(p) \/ Waits(p) \/ StopperRuns(p)
  PROVE  Agree'
  <1>1. proc[p] \in Good(p) /\ proc[p] \in Object /\ \A q \in Process : q # p => proc'[q] = proc[q]
    BY DEF IInv, Objects, Good, Notifies, Exits, Waits, StopperRuns, Started, StartupTimesOut, ReadReturns,
           SeesExit, BeginsWatch, HearsDeath, Stop
  <1>2. ASSUME proc'[p].owner = proc[p].owner PROVE SameOwners
    BY <1>1, <1>2 DEF SameOwners, Born
  <1>3. proc'[p].owner = proc[p].owner
    <2>1. CASE Notifies(p) \/ Exits(p)
      BY <1>1, <2>1, KilledGood DEF Notifies, Exits, IInv, Objects, Object
    <2>2. CASE StopperRuns(p)
      <3>1. \/ proc'[p] = [proc[p] EXCEPT !.stopper = "done"]
            \/ proc'[p] = Enter(proc[p], StageAfter(p, proc[p].stopper))
        BY <2>2 DEF StopperRuns, IInv, Objects
      <3>2. \A s : Enter(proc[p], s).owner = proc[p].owner
        BY <1>1 DEF Enter, Killed, Object
      <3> QED  BY <1>1, <3>1, <3>2 DEF Object
    <2>3. CASE Started(p) \/ ReadReturns(p) \/ BeginsWatch(p)
      <3>1. \A tell \in BOOLEAN : Watch(proc[p], p, tell).owner = proc[p].owner
        BY <1>1 DEF Watch, Told, Object
      <3>2. \E tell \in BOOLEAN : proc'[p] = Watch(proc[p], p, tell)
        BY <2>3 DEF Started, ReadReturns, BeginsWatch, SaysStart, IInv, Objects
      <3> QED  BY <3>1, <3>2
    <2>4. CASE StartupTimesOut(p)
      <3> DEFINE q == [proc[p] EXCEPT !.waiter = "read"]
      <3>1. q \in Good(p) /\ q.owner # None /\ q.owner = proc[p].owner
        BY <1>1, <2>4, TimedOutGood DEF StartupTimesOut
      <3>2. proc' = [proc EXCEPT ![p] = Stopping(q)]
        BY <2>4 DEF StartupTimesOut, Stop
      <3> HIDE DEF q
      <3>3. Stopping(q).owner = q.owner
        BY <3>1, StoppingGood DEF Ages
      <3> QED  BY <3>1, <3>2, <3>3 DEF IInv, Objects
    <2>5. CASE SeesExit(p)
      BY <2>5, SeesExitChanges DEF IInv, Objects, Ages
    <2>6. CASE HearsDeath(p)
      <3> DEFINE q == Told([proc[p] EXCEPT !.waiter = "done"], p, "stop")
      <3>1. p \in Process \ Zygote /\ proc[p].waiter = "wait" /\ proc[p].owner # None
        BY <1>1, <2>6, KindsAssumption DEF HearsDeath, Good
      <3>2. /\ \A f \in {"os", "owner", "death", "stopper", "stopping"} : q[f] = proc[p][f]
            /\ proc[p].death = "eof" => Stopping(q).owner = proc[p].owner
        BY <1>1, <3>1, HearsDeathGood
      <3>3. \/ proc' = [proc EXCEPT ![p] = q]
            \/ proc[p].death = "eof" /\ proc' = [proc EXCEPT ![p] = Stopping(q)]
        BY <2>6 DEF HearsDeath, Stop
      <3> HIDE DEF q
      <3> QED  BY <3>2, <3>3 DEF IInv, Objects
    <2> QED  BY <2>1, <2>2, <2>3, <2>4, <2>5, <2>6 DEF Waits
  <1>4. SameOwners
    BY <1>2, <1>3
  <1>5. ASSUME Waits(p) PROVE proc[p].owner # None
    BY <1>1, <1>5 DEF Waits, Good, Started, StartupTimesOut, ReadReturns, SeesExit, BeginsWatch, HearsDeath
  <1>6. CASE Notifies(p) \/ Exits(p) \/ StopperRuns(p) \/ Started(p) \/ ReadReturns(p) \/ BeginsWatch(p)
    <2>1. UNCHANGED <<procs, mine, zygotes>>
      BY <1>6 DEF Notifies, Exits, StopperRuns, Started, ReadReturns, BeginsWatch
    <2> QED  BY <1>4, <2>1, AgreeStays
  <1>7. CASE StartupTimesOut(p)
    BY <1>4, <1>5, <1>7, StopAgrees DEF StartupTimesOut, Waits
  <1>8. CASE SeesExit(p)
    <2>1. p \in Born
      BY <1>5, <1>8 DEF Waits, Born
    <2> QED  BY <1>4, <1>8, <2>1, TryRemoveAgrees DEF SeesExit
  <1>9. CASE HearsDeath(p)
    BY <1>4, <1>5, <1>9, StopAgrees, AgreeStays DEF HearsDeath, Waits
  <1> QED  BY <1>6, <1>7, <1>8, <1>9 DEF Waits

LEMMA ZygotesAgree ==
  ASSUME IInv, Agree, Reaps \/ \E z \in Zygote : Accepts(z) \/ Acceptor(z) PROVE Agree'
  <1>1. UNCHANGED <<procs, mine, zygotes>>
    BY DEF Reaps, InitReaps, MonitorReaps, Accepts, Acceptor, LosesZygote, Relays
  <1>2. ASSUME NEW p \in Process PROVE proc'[p].owner = proc[p].owner
    <2>1. proc[p] \in Object
      BY DEF IInv, Objects, Good
    <2>2. proc = [r \in Process |-> proc[r]]
      BY DEF IInv, Objects
    <2>3. CASE Reaps
      <3>1. proc'[p] = proc[p] \/ proc'[p] = [proc[p] EXCEPT !.os = "reaped"]
        BY <2>2, <2>3 DEF Reaps, InitReaps, MonitorReaps
      <3> QED  BY <2>1, <3>1 DEF Object
    <2>4. CASE \E z \in Zygote : Accepts(z)
      <3>1. proc'[p] = proc[p] \/ proc'[p] = [proc[p] EXCEPT !.told = Append(@, "start")]
        BY <2>2, <2>4 DEF Accepts
      <3> QED  BY <2>1, <3>1 DEF Object
    <2>5. CASE \E z \in Zygote : Acceptor(z)
      <3>1. \/ proc'[p] = proc[p]
            \/ \E d \in {"status", "eof"} : proc'[p] = [proc[p] EXCEPT !.death = d]
        BY <2>2, <2>5 DEF Acceptor, LosesZygote, Relays
      <3> QED  BY <2>1, <3>1 DEF Object
    <2> QED  BY <2>3, <2>4, <2>5
  <1> QED  BY <1>1, <1>2, AgreeStays DEF SameOwners, Born

LEMMA ClientsAgree ==
  ASSUME DistinctZygotes, IInv, Agree, NEW c \in Client,
         \/ Connects(c) \/ OpensChannel(c) \/ Leaves(c) \/ HandlerEnds(c)
         \/ Handles(c) \/ LaunchReturns(c) \/ AbortReturns(c)
  PROVE  Agree'
  <1>1. CASE Connects(c) \/ OpensChannel(c) \/ Leaves(c) \/ AbortReturns(c)
    <2>1. UNCHANGED <<proc, procs, mine, zygotes>>
      BY <1>1 DEF Connects, OpensChannel, Leaves, AbortReturns
    <2> QED  BY <2>1, AgreeStays DEF SameOwners
  <1>2. CASE HandlerEnds(c) \/ \E emergency \in BOOLEAN : HandleAbort(c, emergency)
    <2>1. PICK S \in SUBSET Born : KillNow(S)
      BY <1>2 DEF HandlerEnds, HandleAbort, IInv, Maps
    <2>2. S \in SUBSET Process
      BY DEF Born
    <2>3. SameOwners /\ RemoveProcess(S)
      BY <2>1, <2>2, KillNowAges, AgedOwners DEF KillNow
    <2> QED  BY <2>3, RemoveAgrees
  <1>3. CASE LaunchReturns(c)
    <2> DEFINE v == client[c].launching
    <2>1. /\ v \in Virtual /\ v \in Process /\ v \notin Zygote /\ proc[v] \in Good(v) /\ c # None
          /\ proc[v].owner = c /\ proc[v].waiter = "none"
      BY <1>3, KindsAssumption DEF LaunchReturns, IInv, Handlers, Handler, Objects
    <2>2. /\ \A p \in Process : p # v => proc'[p] = proc[p]
          /\ proc'[v] \in {[proc[v] EXCEPT !.waiter = "begin"], Stopping(proc[v])}
          /\ AddProcess(c, v) /\ UNCHANGED zygotes
      BY <1>3, <2>1 DEF LaunchReturns, IInv, Objects
    <2> HIDE DEF v
    <2>3. proc'[v].owner = c
      <3>1. CASE proc'[v] = [proc[v] EXCEPT !.waiter = "begin"]
        BY <2>1, <3>1, ReturnedGood
      <3>2. CASE proc'[v] = Stopping(proc[v])
        BY <2>1, <3>2, StoppingGood DEF Ages
      <3> QED  BY <2>2, <3>1, <3>2
    <2>4. SameOwners
      BY <2>1, <2>2, <2>3 DEF SameOwners, Born
    <2> QED  BY <2>1, <2>2, <2>3, <2>4, AddAgrees
  <1>4. ASSUME NEW p \in Process, HandleStopProcess(c, p) PROVE Agree'
    <2>1. proc[p] \in Good(p) /\ proc[p].owner # None
      BY <1>4 DEF IInv, Objects, HandleStopProcess, Maps, Born
    <2>2. Aged
      BY <1>4, <2>1, StoppingGood, StopAges DEF HandleStopProcess
    <2> QED  BY <1>4, <2>1, <2>2, AgedOwners, StopAgrees DEF HandleStopProcess
  <1>5. ASSUME NEW p \in Process, LaunchFails(c, p) PROVE Agree'
    BY <1>5, LaunchOwners, AgreeStays DEF LaunchFails
  <1>6. ASSUME NEW p \in Process, HandleLaunchStaticProcess(c, p) PROVE Agree'
    <2>1. /\ MayLaunch(p) /\ proc' = [proc EXCEPT ![p] = Launched(c)] /\ AddProcess(c, p)
          /\ UNCHANGED zygotes /\ p \notin Zygote
      BY <1>6 DEF HandleLaunchStaticProcess
    <2>2. SameOwners /\ proc'[p] = Launched(c) /\ Launched(c).owner = c
      BY <2>1, LaunchOwners, LaunchedIs
    <2> QED  BY <2>1, <2>2, AddAgrees
  <1>7. ASSUME NEW p \in Process, HandleLaunchZygote(c, p) PROVE Agree'
    <2>1. SameOwners /\ proc'[p].owner = c /\ p \notin procs /\ p \in Zygote /\ ZygoteName[p] \in Names
      <3>1. MayLaunch(p) /\ proc' = [proc EXCEPT ![p] = Launched(c)] /\ p \in Zygote
        BY <1>7 DEF HandleLaunchZygote
      <3>2. SameOwners /\ proc'[p] = Launched(c) /\ Launched(c).owner = c /\ p \notin procs
        BY <3>1, LaunchOwners, LaunchedIs
      <3> QED  BY <3>1, <3>2 DEF Names
    <2>2. zygotes[ZygoteName[p]] = None
      <3>1. ASSUME zygotes[ZygoteName[p]] # None PROVE FALSE
        <4> DEFINE y == zygotes[ZygoteName[p]]
        <4>1. y \in Zygote /\ ZygoteName[y] = ZygoteName[p]
          BY <2>1, <3>1 DEF IInv, Maps
        <4>2. y = p
          BY <2>1, <4>1 DEF DistinctZygotes
        <4> QED  BY <2>1, <4>2 DEF Agree
      <3> QED  BY <3>1
    <2>3. AddProcess(c, p) /\ zygotes' = [zygotes EXCEPT ![ZygoteName[p]] = p]
      BY <1>7, <2>2 DEF HandleLaunchZygote
    <2>4. \A d \in Client : mine'[d] \subseteq procs'
      BY <2>3 DEF IInv, Maps, Agree, AddProcess
    <2>5. ASSUME NEW q \in procs' PROVE q \in mine'[proc'[q].owner]
      <3>1. CASE q = p
        BY <2>1, <2>3, <3>1 DEF IInv, Maps, AddProcess
      <3>2. CASE q # p
        <4>1. q \in procs /\ q \in Born /\ proc[q].owner \in Client
          BY <2>3, <2>5, <3>2 DEF AddProcess, IInv, Maps, Born, Objects, Good, Object
        <4> QED  BY <2>1, <2>3, <4>1 DEF AddProcess, Agree, SameOwners, IInv, Maps
      <3> QED  BY <3>1, <3>2
    <2>6. ASSUME NEW z \in Zygote PROVE z \in procs' <=> zygotes'[ZygoteName[z]] = z
      <3>1. CASE z = p
        BY <2>1, <2>3, <3>1 DEF AddProcess, IInv, Maps
      <3>2. CASE z # p
        BY <2>1, <2>3, <3>2 DEF AddProcess, IInv, Maps, Agree, DistinctZygotes
      <3> QED  BY <3>1, <3>2
    <2> QED  BY <2>4, <2>5, <2>6 DEF Agree
  <1>8. ASSUME NEW p \in Process, HandleLaunchVirtualProcess(c, p) PROVE Agree'
    <2> DEFINE r == IF p \in Notify THEN [Launched(c) EXCEPT !.waiter = "none"] ELSE Launched(c)
    <2>1. /\ MayLaunch(p) /\ proc' = [proc EXCEPT ![p] = r] /\ p \notin Zygote /\ UNCHANGED zygotes
          /\ UNCHANGED <<procs, mine>> \/ AddProcess(c, p)
      BY <1>8, KindsAssumption DEF HandleLaunchVirtualProcess
    <2>2. r.owner = c
      BY LaunchedIs DEF Launched, NewProcess
    <2> HIDE DEF r
    <2>3. SameOwners /\ proc'[p] = r
      BY <2>1, LaunchOwners
    <2> QED  BY <2>1, <2>2, <2>3, AddAgrees, AgreeStays
  <1> QED  BY <1>1, <1>2, <1>3, <1>4, <1>5, <1>6, <1>7, <1>8 DEF Handles

LEMMA NextAgrees ==
  ASSUME DistinctZygotes, IInv, Agree, [Next]_vars PROVE Agree'
  <1>1. CASE UNCHANGED vars
    BY <1>1, AgreeStays DEF vars, SameOwners
  <1>2. CASE StageZeroDies
    BY <1>2, AgreeStays DEF StageZeroDies, SameOwners
  <1>3. CASE StageZeroStops
    <2>1. procs \in SUBSET Born /\ procs \in SUBSET Process
      BY DEF IInv, Maps, Born
    <2>2. SameOwners /\ RemoveProcess(procs)
      BY <1>3, <2>1, KillNowAges, AgedOwners DEF StageZeroStops, KillNow
    <2> QED  BY <2>1, <2>2, RemoveAgrees
  <1> QED  BY <1>1, <1>2, <1>3, ProcessesAgree, ZygotesAgree, ClientsAgree DEF Next

\* As long as no two zygotes share a name, processes_, the map of each
\* client and the map of zygotes agree on a process, though RemoveProcess
\* gives up half way when one of them lacks it.
THEOREM MapsStayTogether == Spec => []MapsAgree
  <1>1. Init => MapsAgree
    BY KindsAssumption DEF Init, MapsAgree, Names
  <1>2. MapsAgree <=> (DistinctZygotes => Agree)
    BY DEF MapsAgree, Agree
  <1>3. ASSUME IInv, MapsAgree, [Next]_vars PROVE MapsAgree'
    <2>1. DistinctZygotes => Agree'
      BY <1>2, <1>3, NextAgrees
    <2> QED  BY <2>1 DEF MapsAgree, Agree, DistinctZygotes
  <1> QED  BY <1>1, <1>3, Inductive, PTL DEF Spec

----------------------------------------------------------------------------
(* Stop events.                                                            *)

\* A stop event for a process that runs is sent only for a virtual process
\* whose zygote is gone, and then the process is being stopped: no other
\* coroutine reports a death early, and none forgets the stop.
THEOREM StopIsTrue == Spec => []StopMeansDead
  <1>1. ASSUME IInv PROVE StopMeansDead
    <2> SUFFICES ASSUME NEW p \in Process, NEW i \in 1..Len(proc[p].told), proc[p].told[i] = "stop", Alive(p)
                 PROVE  proc[p].death = "eof" /\ proc[p].stopping
      BY DEF StopMeansDead
    <2>1. proc[p] \in Good(p) /\ proc[p] \in Object
      BY <1>1 DEF IInv, Objects, Good
    <2>2. StopTold(proc[p])
      <3>1. proc[p].told \in {<<>>, <<"start">>} \/ StopTold(proc[p])
        BY <2>1 DEF Object, StopTold
      <3>2. proc[p].told # <<>> /\ proc[p].told # <<"start">>
        OBVIOUS
      <3> QED  BY <3>1, <3>2
    <2> QED  BY <2>1, <2>2 DEF Good, Alive
  <1> QED  BY <1>1, Inductive, PTL

-----------------------------------------------------------------------------
(***************************************************************************)
(* Proof that StageZero implements ProcessLife: whatever the coroutines    *)
(* and the processes do, the events of a static or virtual process are     *)
(* those of one life.                                                      *)
(***************************************************************************)

----------------------------------------------------------------------------
(* One process.                                                            *)

PhaseOf(r) ==
    CASE r.told \in {<<"stop">>, <<"start", "stop">>} -> "stopped"
      [] r.told = <<"start">> -> "started"
      [] r.told = <<>> /\ r.owner = None -> "none"
      [] r.told = <<>> /\ r.owner # None -> "launched"
      [] OTHER -> "out of order"

Over(r) == r.owner # None /\ (r.os \in Dead \/ r.death = "eof")

\* A step after which the client has heard nothing more of the process.
Steady(q, r) ==
    /\ r.owner = q.owner /\ r.told = q.told
    /\ q.os \in Dead => r.os \in Dead
    /\ q.death = "eof" => r.death = "eof"

LEMMA Phases ==
  ASSUME NEW r
  PROVE  /\ r.told = <<>> => PhaseOf(r) = IF r.owner = None THEN "none" ELSE "launched"
         /\ r.told = <<"start">> => PhaseOf(r) = "started"
         /\ r.told \in {<<"stop">>, <<"start", "stop">>} => PhaseOf(r) = "stopped"
         /\ r.owner # None => PhaseOf(r) # "none"
  <1>1. /\ <<>> \notin {<<"stop">>, <<"start", "stop">>} /\ <<"start">> \notin {<<"stop">>, <<"start", "stop">>}
        /\ <<>> # <<"start">>
    OBVIOUS
  <1> QED  BY <1>1 DEF PhaseOf

LEMMA SteadyPhase ==
  ASSUME NEW q, NEW r, Steady(q, r)
  PROVE  /\ PhaseOf(r) = PhaseOf(q) /\ (Over(q) => Over(r))
         /\ Over(r) => PhaseOf(q) # "none"
  BY Phases DEF Steady, Over, PhaseOf

LEMMA Mapped ==
  /\ phaseOf = [p \in Watched |-> PhaseOf(proc[p])]
  /\ overOf = {p \in Watched : Over(proc[p])}
  BY DEF phaseOf, overOf, PhaseOf, Over

LEMMA MappedNext ==
  /\ phaseOf' = [p \in Watched |-> PhaseOf(proc'[p])]
  /\ overOf' = {p \in Watched : Over(proc'[p])}
  BY DEF phaseOf, overOf, PhaseOf, Over, Watched

----------------------------------------------------------------------------
(* Steps.                                                                  *)

\* The client hears nothing: processes may end.
LEMMA NothingHeard ==
  ASSUME \A p \in Watched : Steady(proc[p], proc'[p]) PROVE Life!Next
  <1> DEFINE S == overOf' \ overOf
  <1>1. \A p \in Watched : /\ PhaseOf(proc'[p]) = PhaseOf(proc[p])
                           /\ Over(proc[p]) => Over(proc'[p])
                           /\ Over(proc'[p]) => PhaseOf(proc[p]) # "none"
    BY SteadyPhase
  <1>2. S \in SUBSET {p \in Watched : phaseOf[p] # "none"}
    BY <1>1, Mapped, MappedNext
  <1>3. overOf' = overOf \cup S
    BY <1>1, Mapped, MappedNext
  <1>4. phaseOf' = phaseOf
    BY <1>1, Mapped, MappedNext
  <1> HIDE DEF S
  <1> QED  BY <1>2, <1>3, <1>4 DEF Life!Next, Life!End

\* The client hears of one process.
LEMMA OneHeard ==
  ASSUME Objects, NEW p \in Watched, NEW r, proc' = [proc EXCEPT ![p] = r],
         Over(r) <=> Over(proc[p]),
         \/ PhaseOf(proc[p]) = "none" /\ PhaseOf(r) = "launched"
         \/ PhaseOf(proc[p]) = "launched" /\ PhaseOf(r) = "started"
         \/ PhaseOf(proc[p]) \in {"launched", "started"} /\ PhaseOf(r) = "stopped" /\ Over(proc[p])
  PROVE  Life!Next
  <1>1. proc'[p] = r /\ \A q \in Watched : q # p => proc'[q] = proc[q]
    BY DEF Objects, Watched
  <1>2. phaseOf' = [phaseOf EXCEPT ![p] = PhaseOf(r)]
    BY <1>1, Mapped, MappedNext
  <1>3. overOf' = overOf
    BY <1>1, Mapped, MappedNext
  <1>4. phaseOf[p] = PhaseOf(proc[p]) /\ (p \in overOf <=> Over(proc[p]))
    BY Mapped
  <1> QED  BY <1>2, <1>3, <1>4 DEF Life!Next, Life!Launch, Life!TellStart, Life!TellStop

\* One process changes, and nobody hears of it.
LEMMA OneSteady ==
  ASSUME Objects, NEW p \in Process, NEW r, proc' = [proc EXCEPT ![p] = r],
         p \in Watched => Steady(proc[p], r)
  PROVE  Life!Next
  <1>1. \A q \in Watched : q # p => proc'[q] = proc[q]
    BY DEF Objects, Watched
  <1>2. \A q : Steady(q, q)
    BY DEF Steady
  <1> QED  BY <1>1, <1>2, NothingHeard DEF Objects

LEMMA Unheard == ASSUME UNCHANGED proc PROVE Life!Next
  BY NothingHeard DEF Steady

LEMMA KillUnheard ==
  ASSUME IInv, NEW S \in SUBSET Process, KillNow(S) PROVE Life!Next
  <1>1. ASSUME NEW p \in Process PROVE Steady(proc[p], proc'[p])
    <2>1. proc[p] \in Good(p) /\ proc'[p] = IF p \in S THEN Killed(proc[p]) ELSE proc[p]
      BY DEF IInv, Objects, KillNow
    <2>2. Steady(proc[p], Killed(proc[p]))
      BY <2>1, KilledGood DEF Steady, Ages
    <2> QED  BY <2>1, <2>2 DEF Steady
  <1> QED  BY <1>1, NothingHeard DEF Watched

\* The stop of a process is told, or cannot be.
LEMMA StopHeard ==
  ASSUME IInv, NEW p \in Watched, NEW r, proc' = [proc EXCEPT ![p] = r],
         proc[p].waiter = "wait", proc[p].owner # None, Over(proc[p]), Over(r), r.owner = proc[p].owner,
         proc[p].os \in Dead => r.os \in Dead, r.death = proc[p].death,
         r.told \in {proc[p].told, Append(proc[p].told, "stop")}
  PROVE  Life!Next
  <1>1. proc[p].told \in {<<>>, <<"start">>}
    BY DEF IInv, Objects, Good, Object, StopTold, Watched
  <1>2. CASE r.told = proc[p].told
    BY <1>2, OneSteady DEF IInv, Steady, Watched
  <1>3. CASE r.told = Append(proc[p].told, "stop")
    <2>1. r.told \in {<<"stop">>, <<"start", "stop">>}
      BY <1>1, <1>3, Tellings
    <2>2. PhaseOf(proc[p]) \in {"launched", "started"} /\ PhaseOf(r) = "stopped"
      BY <1>1, <2>1, Phases
    <2> QED  BY <2>2, OneHeard DEF IInv
  <1> QED  BY <1>2, <1>3

LEMMA WatchHeard ==
  ASSUME IInv, NEW p \in Process, NEW tell \in BOOLEAN, proc[p].waiter \in {"begin", "read"},
         tell => p \notin Zygote, proc' = [proc EXCEPT ![p] = Watch(proc[p], p, tell)]
  PROVE  Life!Next
  <1> DEFINE r == Watch(proc[p], p, tell)
  <1>1. proc[p] \in Good(p) /\ proc[p].owner # None /\ proc[p] \in Object
    BY DEF IInv, Objects, Good
  <1>2. \A f \in {"os", "stopper", "stopping", "owner", "death"} : r[f] = proc[p][f]
    BY <1>1, WatchGood
  <1>3. r.told = proc[p].told \/ (tell /\ r.told = Append(proc[p].told, "start"))
    BY <1>1 DEF Watch, Told, Object
  <1> HIDE DEF r
  <1>4. CASE r.told = proc[p].told
    BY <1>2, <1>4, OneSteady DEF IInv, Steady, r
  <1>5. CASE tell /\ r.told = Append(proc[p].told, "start")
    <2>1. p \in Watched /\ proc[p].told = <<>>
      BY <1>1, <1>5 DEF Watched, Good
    <2>2. r.told = <<"start">>
      BY <1>5, <2>1, Tellings
    <2>3. PhaseOf(proc[p]) = "launched" /\ PhaseOf(r) = "started"
      BY <1>1, <2>1, <2>2, Phases
    <2>4. Over(r) <=> Over(proc[p])
      BY <1>2 DEF Over
    <2> QED  BY <2>1, <2>3, <2>4, OneHeard DEF IInv, r
  <1> QED  BY <1>3, <1>4, <1>5

LEMMA ProcessesHeard ==
  ASSUME IInv, NEW p \in Process, Notifies(p) \/ Exits(p) \/ Waits(p) \/ StopperRuns(p) PROVE Life!Next
  <1>1. proc[p] \in Good(p) /\ proc[p] \in Object /\ Objects
    BY DEF IInv, Objects, Good
  <1>2. CASE Notifies(p)
    <2>1. Steady(proc[p], [proc[p] EXCEPT !.wrote = TRUE])
      BY <1>1 DEF Steady, Object
    <2> QED  BY <1>1, <1>2, <2>1, OneSteady DEF Notifies
  <1>3. CASE Exits(p)
    <2>1. Steady(proc[p], Killed(proc[p]))
      BY <1>1, KilledGood DEF Steady, Ages
    <2> QED  BY <1>1, <1>3, <2>1, OneSteady DEF Exits
  <1>4. CASE StopperRuns(p)
    <2>1. CASE proc' = [proc EXCEPT ![p].stopper = "done"]
      <3>1. Steady(proc[p], [proc[p] EXCEPT !.stopper = "done"])
        BY <1>1 DEF Steady, Object
      <3> QED  BY <1>1, <2>1, <3>1, OneSteady
    <2>2. CASE proc' = [proc EXCEPT ![p] = Enter(proc[p], StageAfter(p, proc[p].stopper))]
      <3> DEFINE s == StageAfter(p, proc[p].stopper)
      <3>1. Steady(proc[p], Enter(proc[p], s))
        <4> HIDE DEF s
        <4> QED  BY <1>1 DEF Steady, Enter, Killed, Object, Dead
      <3> QED  BY <1>1, <2>2, <3>1, OneSteady
    <2> QED  BY <1>4, <2>1, <2>2 DEF StopperRuns
  <1>5. CASE Started(p)
    <2> DEFINE tell == SaysStart(p) /\ (p \in Notify => proc[p].wrote)
    <2>1. tell \in BOOLEAN /\ (tell => p \notin Zygote)
      BY DEF SaysStart
    <2> HIDE DEF tell
    <2>2. proc' = [proc EXCEPT ![p] = Watch(proc[p], p, tell)]
      BY <1>5 DEF Started, tell
    <2> QED  BY <1>5, <2>1, <2>2, WatchHeard DEF Started
  <1>6. CASE ReadReturns(p)
    BY <1>6, WatchHeard DEF ReadReturns
  <1>7. CASE BeginsWatch(p)
    BY <1>7, WatchHeard, KindsAssumption DEF BeginsWatch
  <1>8. CASE StartupTimesOut(p)
    <2> DEFINE q == [proc[p] EXCEPT !.waiter = "read"]
    <2>1. q \in Good(p) /\ q.owner # None
          /\ \A f \in {"os", "stopping", "stopper", "owner", "death", "told"} : q[f] = proc[p][f]
      BY <1>1, <1>8, TimedOutGood DEF StartupTimesOut
    <2>2. proc' = [proc EXCEPT ![p] = Stopping(q)]
      BY <1>8 DEF StartupTimesOut, Stop
    <2> HIDE DEF q
    <2>3. Steady(proc[p], Stopping(q))
      BY <2>1, StoppingGood DEF Steady, Ages
    <2> QED  BY <1>1, <2>2, <2>3, OneSteady
  <1>9. CASE SeesExit(p)
    <2>1. proc[p].waiter = "wait" /\ proc[p].owner # None /\ proc[p].os = "zombie"
      BY <1>1, <1>9 DEF SeesExit, Good
    <2> DEFINE h == [proc[p] EXCEPT !.running = FALSE, !.os = "reaped", !.waiter = "done"]
               q == Told(h, p, "stop")
    <2>2. h \in Object /\ h.os = "reaped" /\ \A f \in {"owner", "death", "told"} : h[f] = proc[p][f]
      BY <1>1 DEF Object, Dead
    <2>3. proc' = [proc EXCEPT ![p] = q]
      BY <1>9 DEF SeesExit
    <2> HIDE DEF h
    <2>4. /\ q.told \in {h.told, Append(h.told, "stop")}
          /\ \A f \in {"os", "owner", "death"} : q[f] = h[f]
      BY <2>2 DEF Told, Object
    <2> HIDE DEF q
    <2>5. CASE p \in Watched
      <3>1. q.os = "reaped" /\ q.owner = proc[p].owner /\ q.death = proc[p].death
        BY <2>2, <2>4
      <3>2. Over(proc[p]) /\ Over(q) /\ q.os \in Dead
        BY <2>1, <3>1 DEF Over, Dead
      <3>3. q.told \in {proc[p].told, Append(proc[p].told, "stop")}
        BY <2>2, <2>4
      <3> QED  BY <2>1, <2>3, <2>5, <3>1, <3>2, <3>3, StopHeard
    <2>6. CASE p \notin Watched
      BY <1>1, <2>3, <2>6, OneSteady
    <2> QED  BY <2>5, <2>6
  <1>10. CASE HearsDeath(p)
    <2> DEFINE q == Told([proc[p] EXCEPT !.waiter = "done"], p, "stop")
    <2>1. /\ p \in Process \ Zygote /\ p \in Watched /\ proc[p].waiter = "wait" /\ proc[p].owner # None
          /\ proc[p].death # "none"
      BY <1>1, <1>10, KindsAssumption DEF HearsDeath, Good, Watched
    <2>2. /\ \A f \in {"os", "owner", "death", "stopper", "stopping"} : q[f] = proc[p][f]
          /\ q.told \in {proc[p].told, Append(proc[p].told, "stop")}
          /\ proc[p].death = "eof" =>
               /\ Stopping(q).owner = proc[p].owner /\ Stopping(q).told = q.told
               /\ Stopping(q).os = proc[p].os /\ Stopping(q).death = proc[p].death
      <3>1. \A f \in {"os", "owner", "death", "stopper", "stopping"} : q[f] = proc[p][f]
        BY <1>1 DEF Told, Object
      <3>2. q.told \in {proc[p].told, Append(proc[p].told, "stop")}
        BY <1>1 DEF Told, Object
      <3>3. q \in [os: {"none", "alive"} \cup Dead, running: BOOLEAN, stopping: BOOLEAN, wrote: BOOLEAN,
                   waiter: {"none", "begin", "read", "wait", "done"},
                   stopper: {"none", "begin", "telemetry", "int", "term", "done"},
                   owner: Client \cup {None}, death: {"none", "status", "eof"}, told: {q.told}]
        BY <1>1 DEF Told, Object
      <3> HIDE DEF q
      <3>4. \A f \in {"os", "owner", "death", "told"} : Stopping(q)[f] = q[f]
        BY <3>3 DEF Stopping
      <3> QED  BY <3>1, <3>2, <3>4
    <2>3. \/ proc[p].death = "status" /\ proc' = [proc EXCEPT ![p] = q]
          \/ proc[p].death = "eof" /\ proc' = [proc EXCEPT ![p] = Stopping(q)]
      BY <1>10 DEF HearsDeath, Stop
    <2> HIDE DEF q
    <2>4. Over(proc[p])
      BY <1>1, <2>1 DEF Over, Good, Object
    <2>5. CASE proc[p].death = "status" /\ proc' = [proc EXCEPT ![p] = q]
      <3>1. Over(q) /\ q.owner = proc[p].owner /\ q.os = proc[p].os /\ q.death = proc[p].death
        BY <2>2, <2>4 DEF Over
      <3> QED  BY <2>1, <2>2, <2>4, <2>5, <3>1, StopHeard
    <2>6. CASE proc[p].death = "eof" /\ proc' = [proc EXCEPT ![p] = Stopping(q)]
      <3>1. Over(Stopping(q))
        BY <2>2, <2>4, <2>6 DEF Over
      <3> QED  BY <2>1, <2>2, <2>4, <2>6, <3>1, StopHeard
    <2> QED  BY <2>3, <2>5, <2>6
  <1> QED  BY <1>2, <1>3, <1>4, <1>5, <1>6, <1>7, <1>8, <1>9, <1>10 DEF Waits

LEMMA ZygotesHeard ==
  ASSUME IInv, Reaps \/ \E z \in Zygote : Accepts(z) \/ Acceptor(z) PROVE Life!Next
  <1>1. CASE Reaps
    <2>1. PICK v \in Virtual : proc' = [proc EXCEPT ![v] = [proc[v] EXCEPT !.os = "reaped"]]
      BY <1>1 DEF Reaps, InitReaps, MonitorReaps
    <2>2. v \in Process /\ Objects /\ Steady(proc[v], [proc[v] EXCEPT !.os = "reaped"])
      BY KindsAssumption DEF Steady, IInv, Objects, Good, Object, Dead
    <2> QED  BY <2>1, <2>2, OneSteady
  <1>2. ASSUME NEW z \in Zygote, Accepts(z) PROVE Life!Next
    <2>1. \A p \in Watched : proc'[p] = proc[p]
      BY <1>2 DEF Accepts, Watched, IInv, Objects
    <2> QED  BY <2>1, NothingHeard DEF Steady
  <1>3. ASSUME NEW z \in Zygote, NEW v \in Virtual, Relays(z, v) PROVE Life!Next
    <2> DEFINE q == [proc[v] EXCEPT !.death = "status"]
    <2>1. v \in Process /\ proc[v] \in Object /\ Objects
      BY KindsAssumption DEF IInv, Objects, Good
    <2>2. proc' = proc \/ (proc[v].death = "none" /\ proc' = [proc EXCEPT ![v] = q])
      BY <1>3 DEF Relays
    <2>3. proc[v].death = "none" => Steady(proc[v], q)
      BY <2>1 DEF Steady, Object
    <2> HIDE DEF q
    <2> QED  BY <2>1, <2>2, <2>3, OneSteady, Unheard
  <1>4. ASSUME NEW z \in Zygote, LosesZygote(z) PROVE Life!Next
    <2>1. ASSUME NEW p \in Watched PROVE Steady(proc[p], proc'[p])
      <3>1. p \in Process /\ proc[p] \in Object
        BY DEF Watched, IInv, Objects, Good
      <3>2. \/ proc'[p] = proc[p]
            \/ proc[p].death = "none" /\ proc'[p] = [proc[p] EXCEPT !.death = "eof"]
        BY <1>4, <3>1 DEF LosesZygote
      <3> QED  BY <3>1, <3>2 DEF Steady, Object
    <2> QED  BY <2>1, NothingHeard
  <1> QED  BY <1>1, <1>2, <1>3, <1>4 DEF Acceptor

\* A launch.
LEMMA LaunchHeard ==
  ASSUME IInv, NEW p \in Process, MayLaunch(p), NEW c \in Client, NEW r, proc' = [proc EXCEPT ![p] = r],
         r.owner = c, r.told = <<>>, r.os = "alive", r.death = "none"
  PROVE  Life!Next
  <1>1. /\ Objects /\ proc[p].owner = None /\ proc[p].told = <<>> /\ c # None
        /\ "alive" \notin Dead
    BY Unborn, KindsAssumption DEF IInv, Dead
  <1>2. PhaseOf(proc[p]) = "none" /\ PhaseOf(r) = "launched" /\ ~Over(proc[p]) /\ ~Over(r)
    BY <1>1, Phases DEF Over
  <1>3. CASE p \in Watched
    BY <1>1, <1>2, <1>3, OneHeard
  <1>4. CASE p \notin Watched
    BY <1>1, <1>4, OneSteady
  <1> QED  BY <1>3, <1>4

LEMMA ClientsHeard ==
  ASSUME IInv, NEW c \in Client,
         \/ Connects(c) \/ OpensChannel(c) \/ Leaves(c) \/ HandlerEnds(c)
         \/ Handles(c) \/ LaunchReturns(c) \/ AbortReturns(c)
  PROVE  Life!Next
  <1>1. CASE Connects(c) \/ OpensChannel(c) \/ Leaves(c) \/ AbortReturns(c)
    BY <1>1, Unheard DEF Connects, OpensChannel, Leaves, AbortReturns
  <1>2. CASE HandlerEnds(c) \/ \E emergency \in BOOLEAN : HandleAbort(c, emergency)
    <2>1. \E S \in SUBSET Process : KillNow(S)
      BY <1>2 DEF HandlerEnds, HandleAbort, IInv, Maps, Born
    <2> QED  BY <2>1, KillUnheard
  <1>3. CASE LaunchReturns(c)
    <2> DEFINE v == client[c].launching
    <2>1. /\ v \in Process /\ proc[v] \in Good(v) /\ proc[v].owner # None /\ proc[v].waiter = "none"
          /\ Objects
      BY <1>3, KindsAssumption DEF LaunchReturns, IInv, Handlers, Handler, Objects
    <2>2. \/ proc' = [proc EXCEPT ![v] = [proc[v] EXCEPT !.waiter = "begin"]]
          \/ proc' = [proc EXCEPT ![v] = Stopping(proc[v])]
      BY <1>3 DEF LaunchReturns
    <2> HIDE DEF v
    <2>3. Steady(proc[v], Stopping(proc[v]))
      BY <2>1, StoppingGood DEF Steady, Ages
    <2>4. Steady(proc[v], [proc[v] EXCEPT !.waiter = "begin"])
      BY <2>1 DEF Steady, Good, Object
    <2> QED  BY <2>1, <2>2, <2>3, <2>4, OneSteady
  <1>4. ASSUME NEW p \in Process, HandleStopProcess(c, p) PROVE Life!Next
    <2>1. proc[p] \in Good(p) /\ proc[p].owner # None /\ Objects
      BY <1>4 DEF IInv, Objects, HandleStopProcess, Maps, Born
    <2>2. Steady(proc[p], Stopping(proc[p])) /\ proc' = [proc EXCEPT ![p] = Stopping(proc[p])]
      BY <1>4, <2>1, StoppingGood DEF Steady, Ages, HandleStopProcess, Stop
    <2> QED  BY <2>1, <2>2, OneSteady
  <1>5. ASSUME NEW p \in Process, LaunchFails(c, p) PROVE Life!Next
    <2> DEFINE q == [NewProcess EXCEPT !.os = "zombie"]
    <2>1. q.owner = None /\ q.told = <<>> /\ q.os = "zombie" /\ q.death = "none"
      BY DEF NewProcess
    <2>2. proc[p].owner = None /\ proc[p].told = <<>> /\ proc[p].death = "none"
      BY <1>5, Unborn DEF LaunchFails, Good
    <2>3. proc' = [proc EXCEPT ![p] = q] /\ Objects
      BY <1>5 DEF LaunchFails, IInv
    <2> HIDE DEF q
    <2>4. Steady(proc[p], q)
      BY <2>1, <2>2 DEF Steady, Dead
    <2> QED  BY <2>3, <2>4, OneSteady
  <1>6. ASSUME NEW p \in Process, HandleLaunchStaticProcess(c, p) \/ HandleLaunchZygote(c, p)
        PROVE  Life!Next
    <2>1. MayLaunch(p) /\ proc' = [proc EXCEPT ![p] = Launched(c)]
      BY <1>6 DEF HandleLaunchStaticProcess, HandleLaunchZygote
    <2> DEFINE r == Launched(c)
    <2>2. r.owner = c /\ r.told = <<>> /\ r.os = "alive" /\ r.death = "none"
      BY LaunchedIs
    <2> HIDE DEF r
    <2>3. proc' = [proc EXCEPT ![p] = r]
      BY <2>1 DEF r
    <2> QED  BY <2>1, <2>2, <2>3, LaunchHeard
  <1>7. ASSUME NEW p \in Process, HandleLaunchVirtualProcess(c, p) PROVE Life!Next
    <2> DEFINE r == IF p \in Notify THEN [Launched(c) EXCEPT !.waiter = "none"] ELSE Launched(c)
    <2>1. MayLaunch(p) /\ proc' = [proc EXCEPT ![p] = r]
      BY <1>7 DEF HandleLaunchVirtualProcess
    <2>2. r.owner = c /\ r.told = <<>> /\ r.os = "alive" /\ r.death = "none"
      BY DEF Launched, NewProcess
    <2> HIDE DEF r
    <2> QED  BY <2>1, <2>2, LaunchHeard
  <1> QED  BY <1>1, <1>2, <1>3, <1>4, <1>5, <1>6, <1>7 DEF Handles

LEMMA NextHeard ==
  ASSUME IInv, [Next]_vars PROVE [Life!Next]_Life!lifeVars
  <1>1. CASE UNCHANGED vars
    BY <1>1, Unheard DEF vars
  <1>2. CASE StageZeroDies
    BY <1>2, Unheard DEF StageZeroDies
  <1>3. CASE StageZeroStops
    <2>1. procs \in SUBSET Process
      BY DEF IInv, Maps, Born
    <2> QED  BY <1>3, <2>1, KillUnheard DEF StageZeroStops
  <1> QED  BY <1>1, <1>2, <1>3, ProcessesHeard, ZygotesHeard, ClientsHeard DEF Next

LEMMA InitHeard == ASSUME Init PROVE Life!Init
  <1>1. \A p \in Watched : proc[p] = NewProcess
    BY DEF Init, Watched
  <1>2. NewProcess.owner = None /\ NewProcess.told = <<>>
    BY DEF NewProcess
  <1>3. \A p \in Watched : PhaseOf(proc[p]) = "none" /\ ~Over(proc[p])
    BY <1>1, <1>2, Phases DEF Over
  <1> QED  BY <1>3, Mapped DEF Life!Init

\* What StageZero tells of a static or virtual process is a life: one
\* launch, at most one start and then at most one stop, the stop only when
\* the process has exited or its zygote is gone.
THEOREM TellsOneLife == Spec => TellsALife
  <1> QED  BY InitHeard, NextHeard, Inductive, PTL DEF Spec, TellsALife, Life!Spec
=============================================================================
