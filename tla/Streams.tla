------------------------------ MODULE Streams ------------------------------
(***************************************************************************)
(* The pipes between StageZero and its processes (src/stagezero): who      *)
(* holds which end, in which descriptor, from the launch of a process to   *)
(* the destruction of its Process object.  The descriptors of StageZero    *)
(* are a table of numbers: a number that is free is used again, and a      *)
(* static process inherits what is in the table when it is forked.         *)
(***************************************************************************)
EXTENDS Naturals, Sequences, FiniteSets

CONSTANTS
    Process,   \* process instances; one instance is launched once
    Virtual,   \* those forked by a zygote; the others are static
    Zygote,    \* the static process that forks them
    Streams,   \* [Process -> SUBSET Kind]
    Closes,    \* virtual processes with a stream of disposition CLOSE
    Given,     \* static processes with an input of disposition FD
    MaxFd      \* bound: the highest descriptor of StageZero

\* The pipes of a process, in the order of their creation: startup
\* notification, parameters, telemetry, standard input and output (streams of
\* disposition CLIENT).
Order == <<"notify", "read", "write", "events", "tread", "twrite", "in", "out">>
Kind == {Order[i] : i \in 1..Len(Order)}
Input == {"read", "events", "tread", "in", "given"}
Output == Kind \ Input
Served == {"write", "twrite", "out"}   \* read by a coroutine of StageZero
Written == {"events", "tread", "in"}   \* written by one, at a client's request
Side == {"r", "w", "d"}   \* read end, write end, duplicate of the read end
Fd == 0..MaxFd
UserFd == 0               \* what an FD stream ("given") names: opened before

ASSUME StreamsAssumption ==
    /\ Virtual \subseteq Process /\ Zygote \in Process \ Virtual
    /\ Streams \in [Process -> SUBSET Kind]
    /\ Closes \subseteq Virtual /\ Given \subseteq Process \ Virtual
    /\ MaxFd \in Nat

VARIABLES
    life,     \* "none", "alive", "dead", or "failed": the launch failed
    known,    \* Process objects in StageZero's maps or awaited by a waiter
    fds,      \* StageZero's descriptors: the end of a pipe behind each
    obj,      \* the descriptors each Process object refers to
    held,     \* the ends each process of the system holds
    reader,   \* the coroutines that read the output pipes of each process
    writing,  \* the pipes of each process that a coroutine writes to
    full,     \* pipes that take no more data
    stale     \* descriptors that were closed behind the back of an object,
              \* and their duplicates

vars == <<life, known, fds, obj, held, reader, writing, full, stale>>

End == Process \X Kind \X {"r", "w"}

Init ==
    /\ life = [p \in Process |-> "none"] /\ known = {}
    /\ fds = [n \in {UserFd} |-> <<"user">>]
    /\ obj = [p \in Process |-> {}]
    /\ held = [p \in Process |-> {}]
    /\ reader = [p \in Process |-> {}]
    /\ writing = [p \in Process |-> {}]
    /\ full = {} /\ stale = {}

----------------------------------------------------------------------------
(* Ends and descriptors.  A Process object is the set of what it refers    *)
(* to: <<kind, side, descriptor>>.                                         *)

HeldByStageZero(e) == \E n \in DOMAIN fds : fds[n] = e
Open(e) == HeldByStageZero(e) \/ \E p \in Process : e \in held[p]

ChildSide(k) == IF k \in Input THEN "r" ELSE "w"
ParentSide(k) == IF k \in Input THEN "w" ELSE "r"

Free == Fd \ DOMAIN fds
NthFree(i) == CHOOSE n \in Free : Cardinality({m \in Free : m < n}) = i - 1

Closing(table, N) == [n \in DOMAIN table \ N |-> table[n]]

Descriptors(o) == {x[3] : x \in o}
DescriptorsOf(p, k, s) == {x[3] : x \in {y \in obj[p] : y[1] = k /\ y[2] = s}}

----------------------------------------------------------------------------
(* Launches.                                                               *)

Rank(k) == CHOOSE i \in 1..Len(Order) : Order[i] = k

\* The place of an end among those a launch creates: pipe() returns the
\* lowest free descriptors, the read end first.
Place(p, k, s) ==
    2 * Cardinality({j \in 1..Rank(k) - 1 : Order[j] \in Streams[p]}) + (IF s = "r" THEN 1 ELSE 2)

Room(p) == 2 * Cardinality(Streams[p]) <= Cardinality(Free)

\* BuildStreams: the object of p, and then the table.
BuildStreams(p) ==
    {<<k, s, NthFree(Place(p, k, s))>> : k \in Streams[p], s \in {"r", "w"}}
    \cup {<<"given", "r", UserFd>> : q \in Given \cap {p}}

Pipes(o) == {x \in o : x[1] # "given"}

Opened(p, o) ==
    [n \in DOMAIN fds \cup Descriptors(Pipes(o)) |->
        IF n \in DOMAIN fds THEN fds[n]
        ELSE LET x == CHOOSE y \in Pipes(o) : y[3] = n IN <<p, x[1], x[2]>>]

\* The coroutines of the output pipes; those of the parameter and telemetry
\* servers are started later.
Readers(p, servers) ==
    {<<"out", "begin">> : k \in Streams[p] \cap {"out"}}
    \cup {<<k, "reading">> : k \in IF servers THEN Streams[p] \cap {"write", "twrite"} ELSE {}}

\* What a static process has after the fork: the whole table, but the
\* parent's ends of its own pipes (a copy of its events pipe stays).
Inherited(p, table) ==
    {table[n] : n \in DOMAIN table}
        \ ({<<"user">>} \cup {<<p, k, ParentSide(k)>> : k \in Streams[p] \ {"events"}})

\* (mutant) StageZero does not close the process's ends after the fork.
RedirectedNone(o) == o

\* StageZero closes the process's ends, and the descriptor of an FD stream.
Redirected(o) == {x \in o : x[1] = "events" \/ x[2] = ParentSide(x[1])}

AfterFork(p, o) == Closing(Opened(p, o), Descriptors(o \ Redirected(o)))

\* The descriptors that an FD stream of p shares with everybody.
Shared(p) == {UserFd : q \in Given \cap {p}}

\* The child redirects its streams and runs.  When the parent cannot watch
\* it, the launch fails nevertheless, and nobody knows the process.
ChildRuns(p, o) ==
    /\ Shared(p) \subseteq DOMAIN Opened(p, o)
    /\ life' = [life EXCEPT ![p] = "alive"]
    /\ held' = [held EXCEPT ![p] = Inherited(p, Opened(p, o))]
    /\ known' = known \cup {p} \/ UNCHANGED known

\* The child exits before it has sent its startup message.
ChildExits(p) ==
    /\ life' = [life EXCEPT ![p] = "failed"]
    /\ UNCHANGED <<known, held>>

ForkAndExec(p) ==
    LET o == BuildStreams(p) IN
    /\ life[p] = "none" /\ p \notin Virtual /\ Room(p)
    /\ obj' = [obj EXCEPT ![p] = Redirected(o)]
    /\ fds' = AfterFork(p, o)
    /\ reader' = [reader EXCEPT ![p] = Readers(p, TRUE)]
    /\ stale' = stale \cup Shared(p)
    /\ ChildRuns(p, o) \/ ChildExits(p)
    /\ UNCHANGED <<writing, full>>

\* An error after the streams are built: the object goes, with what it has
\* of the user's, unless a coroutine holds it.
LaunchFails(p) ==
    /\ life[p] = "none" /\ Room(p)
    /\ life' = [life EXCEPT ![p] = "failed"]
    /\ \E servers \in BOOLEAN : reader' = [reader EXCEPT ![p] = Readers(p, servers)]
    /\ obj' = [obj EXCEPT ![p] = BuildStreams(p)]
    /\ fds' = Opened(p, BuildStreams(p))
    /\ stale' = stale \cup Shared(p)
    /\ UNCHANGED <<known, held, writing, full>>

\* A pipe that cannot be created fails the launch; output pipes come last.
OutOfDescriptors(p) ==
    /\ life[p] = "none" /\ ~Room(p)
    /\ life' = [life EXCEPT ![p] = "failed"]
    /\ UNCHANGED <<known, fds, obj, held, reader, writing, full, stale>>

\* The ends that Zygote::Spawn sends, and the first of them.
Sent(p) == {<<p, k, ChildSide(k)>> : k \in Streams[p]}
FirstSent(p) == {e \in Sent(p) : Place(p, e[2], "r") = 1}

\* The child of the zygote closes all but these.  A CLOSE stream has no
\* index, and resets the first descriptor of the message.
KeptOpen(p) == Sent(p) \ (IF p \in Closes THEN FirstSent(p) ELSE {})

\* It sets itself up and calls its main, or dies of an error.
SetUp(p) ==
    \/ /\ life' = [life EXCEPT ![p] = "alive"]
       /\ held' = [held EXCEPT ![p] = KeptOpen(p)]
    \/ /\ life' = [life EXCEPT ![p] = "dead"]
       /\ UNCHANGED held

\* The zygote's copies are closed; StageZero keeps both ends.
Spawn(p) ==
    LET o == BuildStreams(p) IN
    /\ life[p] = "none" /\ p \in Virtual /\ Room(p) /\ life[Zygote] = "alive"
    /\ obj' = [obj EXCEPT ![p] = o]
    /\ fds' = Opened(p, o)
    /\ reader' = [reader EXCEPT ![p] = Readers(p, TRUE)]
    /\ known' = known \cup {p}
    /\ SetUp(p)
    /\ UNCHANGED <<writing, full, stale>>

----------------------------------------------------------------------------
(* The end of a process and of its object.                                 *)

Exits(p) ==
    /\ life[p] = "alive"
    /\ life' = [life EXCEPT ![p] = "dead"]
    /\ held' = [held EXCEPT ![p] = {}]
    /\ UNCHANGED <<known, fds, obj, reader, writing, full, stale>>

\* The waiter has seen the exit; no map knows the process any more.
Forgets(p) ==
    /\ life[p] = "dead" /\ p \in known
    /\ known' = known \ {p}
    /\ UNCHANGED <<life, fds, obj, held, reader, writing, full, stale>>

\* The last reference goes: every descriptor the object has is closed.
Destroys(p) ==
    /\ life[p] # "none" /\ p \notin known
    /\ writing[p] = {} /\ reader[p] = {} /\ obj[p] # {}
    /\ fds' = Closing(fds, Descriptors(obj[p]))
    /\ obj' = [obj EXCEPT ![p] = {}]
    /\ UNCHANGED <<life, known, held, reader, writing, full, stale>>

----------------------------------------------------------------------------
(* Reading output.                                                         *)

\* StreamFromFileDescriptor duplicates the descriptor when it first runs.
ReaderStarts(p) ==
    \E n \in DescriptorsOf(p, "out", "r") \cap DOMAIN fds :
        /\ <<"out", "begin">> \in reader[p] /\ Free # {}
        /\ reader' = [reader EXCEPT ![p] = (@ \ {<<"out", "begin">>}) \cup {<<"out", "reading">>}]
        /\ obj' = [obj EXCEPT ![p] = @ \cup {<<"out", "d", NthFree(1)>>}]
        /\ fds' = [m \in DOMAIN fds \cup {NthFree(1)} |-> IF m \in DOMAIN fds THEN fds[m] ELSE fds[n]]
        /\ stale' = stale \cup (IF n \in stale THEN {NthFree(1)} ELSE {})
        /\ UNCHANGED <<life, known, held, writing, full>>

\* Nobody looks at the result of dup: the reader waits for descriptor -1,
\* which either fails or lasts for ever.
ReaderDeaf(p) ==
    /\ <<"out", "begin">> \in reader[p]
    /\ Free = {} \/ DescriptorsOf(p, "out", "r") \cap DOMAIN fds = {}
    /\ reader' = [reader EXCEPT ![p] = @ \ {<<"out", "begin">>}]
       \/ reader' = [reader EXCEPT ![p] = (@ \ {<<"out", "begin">>}) \cup {<<"out", "deaf">>}]
    /\ UNCHANGED <<life, known, fds, obj, held, writing, full, stale>>

\* (mutant) A reader takes an empty read for one that has to be tried again.
AtErrorOnly(n) == n \notin DOMAIN fds

\* What a read of descriptor n finds: the end of the data, or an error.
AtEnd(n) ==
    n \in DOMAIN fds /\ fds[n] \in End /\ fds[n][3] = "r"
        => ~Open(<<fds[n][1], fds[n][2], "w">>)

\* (mutant) The end of a reader closes its descriptor, and the object keeps it.
ReaderEndsKeeping(p, k) ==
    /\ <<k, "reading">> \in reader[p]
    /\ \A n \in DescriptorsOf(p, k, IF k = "out" THEN "d" ELSE "r") : AtEnd(n)
    /\ reader' = [reader EXCEPT ![p] = @ \ {<<k, "reading">>}]
    /\ fds' = Closing(fds, IF k = "out" THEN DescriptorsOf(p, k, "d") ELSE {})
    /\ UNCHANGED <<life, known, obj, held, writing, full, stale>>

ReaderEnds(p, k) ==
    LET dup == IF k = "out" THEN {x \in obj[p] : x[2] = "d"} ELSE {} IN
    /\ <<k, "reading">> \in reader[p]
    /\ \A n \in DescriptorsOf(p, k, IF k = "out" THEN "d" ELSE "r") : AtEnd(n)
    /\ reader' = [reader EXCEPT ![p] = @ \ {<<k, "reading">>}]
    /\ fds' = Closing(fds, Descriptors(dup))
    /\ obj' = [obj EXCEPT ![p] = @ \ dup]
    /\ UNCHANGED <<life, known, held, writing, full, stale>>

----------------------------------------------------------------------------
(* Writing: SendInput, SendParameterEvent and SendTelemetryCommand wait    *)
(* until the pipe takes data, or has no reader left.                       *)

WriteBegins(p, k) ==
    /\ p \in known /\ k \notin writing[p]
    /\ DescriptorsOf(p, k, "w") # {}
    /\ writing' = [writing EXCEPT ![p] = @ \cup {k}]
    /\ UNCHANGED <<life, known, fds, obj, held, reader, full, stale>>

\* (mutant) A writer waits for room even when nobody is left to make any.
WriteEndsWithRoom(p, k) ==
    \E n \in DescriptorsOf(p, k, "w") \cap DOMAIN fds :
        /\ k \in writing[p] /\ fds[n] = <<p, k, "w">>
        /\ Open(<<p, k, "r">>) /\ <<p, k>> \notin full
        /\ writing' = [writing EXCEPT ![p] = @ \ {k}]
        /\ full' = full \cup {<<p, k>>}
        /\ UNCHANGED <<life, known, fds, obj, held, reader, stale>>

\* What is behind the descriptor is not always what it was opened for.
WriteEnds(p, k) ==
    \E n \in DescriptorsOf(p, k, "w") :
        /\ k \in writing[p]
        /\ writing' = [writing EXCEPT ![p] = @ \ {k}]
        /\ IF n \in DOMAIN fds /\ fds[n] \in End /\ fds[n][3] = "w"
              /\ Open(<<fds[n][1], fds[n][2], "r">>)
           THEN LET pipe == <<fds[n][1], fds[n][2]>> IN pipe \notin full /\ full' = full \cup {pipe}
           ELSE UNCHANGED full
        /\ UNCHANGED <<life, known, fds, obj, held, reader, stale>>

Reads(p, k) ==
    /\ <<p, k, "r">> \in held[p] /\ <<p, k>> \in full
    /\ full' = full \ {<<p, k>>}
    /\ UNCHANGED <<life, known, fds, obj, held, reader, writing, stale>>

\* close() on the number; the object still has it.
CloseFileDescriptor(p) ==
    \E n \in DescriptorsOf(p, "in", "w") \cap DOMAIN fds :
        /\ p \in known
        /\ fds' = Closing(fds, {n})
        /\ stale' = stale \cup {n}
        /\ UNCHANGED <<life, known, obj, held, reader, writing, full>>

----------------------------------------------------------------------------
Next ==
    \E p \in Process :
        \/ ForkAndExec(p) \/ LaunchFails(p) \/ OutOfDescriptors(p) \/ Spawn(p)
        \/ Exits(p) \/ Forgets(p) \/ Destroys(p)
        \/ ReaderStarts(p) \/ ReaderDeaf(p) \/ CloseFileDescriptor(p)
        \/ \E k \in Served : ReaderEnds(p, k)
        \/ \E k \in Written : WriteBegins(p, k) \/ WriteEnds(p, k) \/ Reads(p, k)

Spec == Init /\ [][Next]_vars

\* StageZero's coroutines run when they can.  Nothing makes a process read
\* or exit, or a client do anything.
Fairness ==
    \A p \in Process :
        /\ WF_vars(Forgets(p)) /\ WF_vars(Destroys(p))
        /\ WF_vars(ReaderStarts(p)) /\ WF_vars(ReaderDeaf(p))
        /\ \A k \in Served : WF_vars(ReaderEnds(p, k))
        /\ \A k \in Written : WF_vars(WriteEnds(p, k))

FairSpec == Spec /\ Fairness

----------------------------------------------------------------------------
(* Properties.                                                             *)

\* The types of the variables.
TypeOK ==
    /\ life \in [Process -> {"none", "alive", "dead", "failed"}]
    /\ known \subseteq Process
    /\ DOMAIN fds \subseteq Fd /\ \A n \in DOMAIN fds : fds[n] \in End \cup {<<"user">>}
    /\ obj \in [Process -> SUBSET ((Kind \cup {"given"}) \X Side \X Fd)]
    /\ held \in [Process -> SUBSET End]
    /\ reader \in [Process -> SUBSET (Output \X {"begin", "reading", "deaf"})]
    /\ writing \in [Process -> SUBSET Input]
    /\ full \subseteq Process \X Kind
    /\ stale \subseteq Fd

\* A descriptor in a Process object is the process's own pipe: only numbers
\* that were closed without telling the object (by a client's close of an
\* input, or because FD streams share one number) can be another's.
Own(p, x) == x[3] \in DOMAIN fds /\ fds[x[3]] = <<p, x[1], IF x[2] = "d" THEN "r" ELSE x[2]>>

OwnPipes == \A p \in Process : \A x \in obj[p] : x[3] \in stale \/ Own(p, x)

\* Whoever waits for the end of a static process's output, its notification
\* among it, waits for that process alone: nobody else holds the write end.
WritesAlone ==
    \A p \in Process \ Virtual, k \in Output :
        life[p] # "failed" =>
            /\ ~HeldByStageZero(<<p, k, "w">>)
            /\ \A q \in Process \ {p} : <<p, k, "w">> \notin held[q]

\* The descriptors of a static process come back when it is dead, unless one
\* of them was closed behind its back, a parameter event waits in a pipe, or
\* there was no descriptor left for a reader.
Returned ==
    \A p \in Process \ Virtual :
        (life[p] = "dead")
            ~> (\/ obj[p] = {}
                \/ "events" \in writing[p]
                \/ <<"out", "deaf">> \in reader[p]
                \/ \E x \in obj[p] : ~Own(p, x))

\* A coroutine that sends input to a static process, or a command to its
\* telemetry, does not outwait the process.
NotKeptWaiting ==
    \A p \in Process \ Virtual, k \in {"in", "tread"} :
        (life[p] = "dead") ~> (k \notin writing[p] \/ \E x \in obj[p] : ~Own(p, x))
=============================================================================
