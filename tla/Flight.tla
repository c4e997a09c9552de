------------------------------- MODULE Flight -------------------------------
(***************************************************************************)
(* FlightDirector (src/flight): it loads the graph of subsystems, checks   *)
(* it, registers it with Capcom in a coroutine, starts the autostarts, and *)
(* passes on what its clients command.  Of Capcom there is what these      *)
(* commands touch: the numbers of its clients (capcom.cc), the subsystems  *)
(* it knows, and which clients each is active for (bitset.h).  The state   *)
(* machines of the subsystems are in Subsystem, the events in Events.      *)
(***************************************************************************)
EXTENDS Integers, Sequences, FiniteSets, FiniteSetsExt, SequencesExt

CONSTANTS
    Name, Subspace,  \* names of subsystems; "subspace"
    Graphs,          \* the graphs that are tried, see GraphsAssumption
    Handler,         \* FlightDirector's clients
    Outsider,        \* other clients of Capcom
    OutsiderOps,     \* and what they command
    WordBits,        \* bits of a word of a BitSet
    Busy,            \* bound: the graphs with which it dies and is commanded
    MaxCommands,     \* bound: commands of handlers and outsiders
    MaxLives         \* bound: how often FlightDirector is started

\* There are finitely many names and clients; those of FlightDirector have two
\* names that no other client has.
ASSUME ConstantsAssumption ==
    /\ IsFiniteSet(Name) /\ IsFiniteSet(Outsider) /\ {"auto", "main"} \cap Outsider = {}
    /\ WordBits \in Nat \ {0} /\ MaxCommands \in Nat /\ MaxLives \in Nat
    /\ OutsiderOps \subseteq {"start", "stop"}

\* subsystem: those in the files; dep: their deps; zygotes: the zygotes of
\* their modules.
ASSUME GraphsAssumption ==
    /\ Busy \subseteq Graphs
    /\ \A g \in Graphs :
        /\ g.subsystem \subseteq Name
        /\ g.dep \in [g.subsystem -> Seq(Name)] /\ g.zygotes \in [g.subsystem -> Seq(Name)]
        /\ g.interface \in Seq(Name) /\ g.autostart \in Seq(Name)

VARIABLES
    graph,     \* what is on disk
    phase,     \* FlightDirector::Run
    lives,     \* how often it ran
    todo,      \* what the coroutine of Run has still to ask for
    waiting,   \* coroutines that wait for an answer, with the client they use
    kept,      \* (history) autostarts that Capcom was told to start, in this life
    conn,      \* Capcom's clients by number: requests, number of answers
    known,     \* Capcom::subsystems_
    active,    \* active_clients_
    left       \* commands that may still be given

vars == <<graph, phase, lives, todo, waiting, kept, conn, known, active, left>>

Init ==
    /\ graph \in Graphs
    /\ phase = "down" /\ lives = 0 /\ todo = <<>> /\ kept = {}
    /\ waiting = [w \in {"setup"} \cup Handler |-> "no"]
    /\ conn = << >> /\ known = {}
    /\ active = [s \in Name |-> [words |-> 0, bits |-> {}]]
    /\ left = IF graph \in Busy THEN MaxCommands ELSE 0

----------------------------------------------------------------------------
(* The graph.                                                              *)

Distinct(names) == IsInjective(names) /\ ToSet(names) \subseteq graph.subsystem

\* LoadSubsystemGraph refuses unknown names, and names that come twice; a
\* zygote may serve many modules.
WellFormed ==
    /\ Distinct(graph.interface) /\ Distinct(graph.autostart)
    /\ \A s \in graph.subsystem :
        Distinct(graph.dep[s]) /\ ToSet(graph.zygotes[s]) \subseteq graph.subsystem

\* A loop over names: f takes the next name and what there is so far.
Over(f, acc, names) ==
    LET From[i \in 0..Len(names)] == IF i = 0 THEN acc ELSE f[names[i]][From[i - 1]]
    IN From[Len(names)]

AddDep ==
    [s \in Name |-> [deps \in Seq(Name) |->
        IF Contains(deps, s) THEN deps ELSE Append(deps, s)]]

\* Modules need Subspace, if there is one, and their zygotes.
Deps(s) ==
    Over(AddDep, graph.dep[s],
         (IF graph.zygotes[s] # <<>> /\ Subspace \in graph.subsystem THEN <<Subspace>> ELSE <<>>)
             \o graph.zygotes[s])

\* CheckForSubsystemLoopsRecurse, by the calls that are left below this one:
\* each has visited one more name than its caller.
Seen == [visited : SUBSET Name, loop : BOOLEAN]

Search(root) ==
    LET Below[k \in 0..Cardinality(Name)] ==
            LET below == Below[k - 1] IN
            [s \in graph.subsystem |-> [seen \in Seen |->
                LET here == [visited |-> seen.visited \cup {s}, loop |-> s = root] IN
                IF k = 0 \/ seen.loop \/ s \in seen.visited THEN seen
                ELSE IF here.loop THEN here ELSE Over(below, here, Deps(s))]]
    IN Over(Below[Cardinality(Name)], [visited |-> {}, loop |-> FALSE], Deps(root))

\* (mutant) A subsystem is only looked for among its own deps.
LoopsOfOne == \E s \in graph.subsystem : Contains(Deps(s), s)

CheckForSubsystemLoops == \E s \in graph.subsystem : Search(s).loop

\* FlattenSubsystemGraph: without loops what is visited is what is in vec, and
\* a call has at most as many callers as there are names.
Flatten[k \in 0..Cardinality(Name)] ==
    LET below == Flatten[k - 1] IN
    [s \in graph.subsystem |-> [vec \in Seq(Name) |->
        IF k = 0 \/ Contains(vec, s) THEN vec ELSE Append(Over(below, vec, Deps(s)), s)]]

\* (mutant) A subsystem comes before what it depends on.
FlattenDown[k \in 0..Cardinality(Name)] ==
    LET below == FlattenDown[k - 1] IN
    [s \in graph.subsystem |-> [vec \in Seq(Name) |->
        IF k = 0 \/ Contains(vec, s) THEN vec ELSE Over(below, Append(vec, s), Deps(s))]]

FlattenedDown(order) == Over(FlattenDown[Cardinality(Name)], <<>>, order)

Flattened(order) == Over(Flatten[Cardinality(Name)], <<>>, order)

----------------------------------------------------------------------------
(* Capcom.                                                                 *)

\* The first number that is free (BitSet::Allocate).
Allocate == Min((0..Cardinality(DOMAIN conn)) \ DOMAIN conn)

\* A bit whose word is more than one past the end is ignored.
Changed(a, b, bits) ==
    LET word == b \div WordBits
    IN IF word > a.words THEN a
       ELSE [words |-> IF word = a.words THEN word + 1 ELSE a.words, bits |-> bits]

SetBit(a, b) == Changed(a, b, a.bits \cup {b})
ClearBit(a, b) == Changed(a, b, a.bits \ {b})

Connected(o) ==
    conn' = [i \in DOMAIN conn \cup {Allocate} |->
                IF i \in DOMAIN conn THEN conn[i]
                ELSE [owner |-> o, up |-> TRUE, requests |-> <<>>, answers |-> 0]]

NumberOf(o) == CHOOSE i \in DOMAIN conn : conn[i].owner = o /\ conn[i].up
Online(o) == \E i \in DOMAIN conn : conn[i].owner = o /\ conn[i].up

Asked(o, op, s) ==
    conn' = [conn EXCEPT ![NumberOf(o)].requests = Append(@, [op |-> op, sub |-> s])]

\* A subsystem is added after all its children.
HandleAddSubsystem(s) ==
    /\ known' = known \cup {t \in {s} : ToSet(Deps(t)) \subseteq known}
    /\ UNCHANGED <<active, kept>>

\* What its state machine does at once with the command of client i: see
\* HandleAdminCommand.
HandleStartSubsystem(i, s) ==
    /\ active' = [active EXCEPT ![s] = IF s \in known THEN SetBit(@, i) ELSE @]
    /\ kept' = kept \cup {t \in known : t = s /\ conn[i].owner = "auto" /\ conn[i].up}
    /\ UNCHANGED known

HandleStopSubsystem(i, s) ==
    /\ active' = [active EXCEPT ![s] = IF s \in known THEN ClearBit(@, i) ELSE @]
    /\ UNCHANGED <<known, kept>>

\* Capcom serves a client's requests in their order.
Handles(i) ==
    /\ i \in DOMAIN conn /\ conn[i].requests # <<>>
    /\ LET r == Head(conn[i].requests) IN
        \/ r.op = "add" /\ HandleAddSubsystem(r.sub)
        \/ r.op = "start" /\ HandleStartSubsystem(i, r.sub)
        \/ r.op = "stop" /\ HandleStopSubsystem(i, r.sub)
    /\ conn' = [conn EXCEPT ![i].requests = Tail(@), ![i].answers = @ + 1]
    /\ UNCHANGED <<graph, phase, lives, todo, waiting, left>>

\* (mutant) What the client started is not active for it any more.
ForgetsItsSubsystems(i) ==
    /\ i \in DOMAIN conn /\ ~conn[i].up /\ conn[i].requests = <<>>
    /\ conn' = Restrict(conn, DOMAIN conn \ {i})
    /\ active' = [s \in Name |-> ClearBit(active[s], i)]
    /\ UNCHANGED <<graph, phase, lives, todo, waiting, kept, known, left>>

\* Its handler ends: the number is free again, and what the client started
\* stays active for it.
Forgets(i) ==
    /\ i \in DOMAIN conn /\ ~conn[i].up /\ conn[i].requests = <<>>
    /\ conn' = Restrict(conn, DOMAIN conn \ {i})
    /\ UNCHANGED <<graph, phase, lives, todo, waiting, kept, known, active, left>>

----------------------------------------------------------------------------
(* FlightDirector::Run.                                                    *)

ConnectsAutostart ==
    /\ phase = "down" /\ lives < MaxLives
    /\ phase' = "connecting" /\ lives' = lives + 1
    /\ Connected("auto")
    /\ UNCHANGED <<graph, todo, waiting, kept, known, active, left>>

\* The graph is loaded, and the coroutines are started.
Loads ==
    /\ phase = "connecting"
    /\ Connected("main")
    /\ IF WellFormed /\ ~CheckForSubsystemLoops
       THEN /\ phase' = "serving"
            /\ \E order \in SetToSeqs(ToSet(graph.interface)), starts \in SetToSeqs(ToSet(graph.autostart)) :
                LET flattened == Flattened(order) IN
                todo' = [k \in DOMAIN flattened |-> [op |-> "add", sub |-> flattened[k]]]
                    \o [k \in DOMAIN starts |-> [op |-> "start", sub |-> starts[k]]]
       ELSE phase' = "failed" /\ UNCHANGED todo
    /\ UNCHANGED <<graph, lives, waiting, kept, known, active, left>>

\* RegisterSubsystem and AutostartSubsystem; an error is printed.
Registers ==
    /\ phase = "serving" /\ waiting["setup"] = "no" /\ todo # <<>>
    /\ LET client == IF Head(todo).op = "add" THEN "main" ELSE "auto" IN
        /\ Asked(client, Head(todo).op, Head(todo).sub)
        /\ waiting' = [waiting EXCEPT !["setup"] = client]
    /\ todo' = Tail(todo)
    /\ UNCHANGED <<graph, phase, lives, kept, known, active, left>>

\* The client for the autostarts is not needed any more.
DropsAutostart ==
    /\ phase = "serving" /\ waiting["setup"] = "no" /\ todo = <<>> /\ Online("auto")
    /\ conn' = [conn EXCEPT ![NumberOf("auto")].up = FALSE]
    /\ UNCHANGED <<graph, phase, lives, todo, waiting, kept, known, active, left>>

\* HandleStartSubsystem and HandleStopSubsystem of a FlightDirector's client,
\* for interfaces only.
Commands(h, op, s) ==
    /\ phase = "serving" /\ waiting[h] = "no" /\ left > 0
    /\ s \in ToSet(graph.interface)
    /\ Asked("main", op, s)
    /\ waiting' = [waiting EXCEPT ![h] = "main"]
    /\ left' = left - 1
    /\ UNCHANGED <<graph, phase, lives, todo, kept, known, active>>

\* (mutant) Nobody waits for an answer.
AnsweredAtOnce(w) ==
    /\ waiting[w] # "no"
    /\ LET i == NumberOf(waiting[w]) IN
        conn' = [conn EXCEPT ![i].answers = @ - 1]
    /\ waiting' = [waiting EXCEPT ![w] = "no"]
    /\ UNCHANGED <<graph, phase, lives, todo, kept, known, active, left>>

\* Whoever waits for an answer takes the next, which may be another's.
Answered(w) ==
    /\ waiting[w] # "no"
    /\ LET i == NumberOf(waiting[w]) IN
        conn[i].answers > 0 /\ conn' = [conn EXCEPT ![i].answers = @ - 1]
    /\ waiting' = [waiting EXCEPT ![w] = "no"]
    /\ UNCHANGED <<graph, phase, lives, todo, kept, known, active, left>>

\* It dies, or has failed to load.
Dies ==
    /\ phase # "down" /\ graph \in Busy
    /\ phase' = "down" /\ todo' = <<>> /\ kept' = {}
    /\ waiting' = [w \in DOMAIN waiting |-> "no"]
    /\ conn' = [i \in DOMAIN conn |->
           [conn[i] EXCEPT !.up = @ /\ conn[i].owner \in Outsider]]
    /\ UNCHANGED <<graph, lives, known, active, left>>

----------------------------------------------------------------------------
(* Other clients of Capcom.                                                *)

OutsiderConnects(o) ==
    /\ ~Online(o) /\ left > 0
    /\ Connected(o)
    /\ left' = left - 1
    /\ UNCHANGED <<graph, phase, lives, todo, waiting, kept, known, active>>

OutsiderCommands(o, op, s) ==
    /\ Online(o) /\ left > 0
    /\ Asked(o, op, s)
    /\ left' = left - 1
    /\ UNCHANGED <<graph, phase, lives, todo, waiting, kept, known, active>>

----------------------------------------------------------------------------
Next ==
    \/ ConnectsAutostart \/ Loads \/ Registers \/ DropsAutostart \/ Dies
    \/ \E i \in DOMAIN conn : Handles(i) \/ Forgets(i)
    \/ \E w \in DOMAIN waiting : Answered(w)
    \/ \E s \in Name :
        \/ \E h \in Handler, op \in {"start", "stop"} : Commands(h, op, s)
        \/ \E o \in Outsider, op \in OutsiderOps : OutsiderCommands(o, op, s)
    \/ \E o \in Outsider : OutsiderConnects(o)

Spec == Init /\ [][Next]_vars

\* Capcom serves its clients and notices when they go; FlightDirector starts
\* up, its coroutine goes on, and who waits reads.
FairSpec ==
    /\ Spec
    /\ WF_vars(Loads) /\ WF_vars(Registers) /\ WF_vars(DropsAutostart)
    /\ \A w \in {"setup"} \cup Handler : WF_vars(Answered(w))
    /\ \A i \in 0..(2 * MaxLives + Cardinality(Outsider)) : WF_vars(Handles(i)) /\ WF_vars(Forgets(i))

----------------------------------------------------------------------------
(* Properties.                                                             *)

Needs(S) == S \cup UNION {ToSet(Deps(s)) : s \in S}
\* All that S needs, directly or not.
Reachable(S) ==
    LET Reach[k \in 0..Cardinality(Name)] == IF k = 0 THEN S ELSE Needs(Reach[k - 1])
    IN Reach[Cardinality(Name)]

\* The types of the variables; the numbers of Capcom's clients are not more
\* than the connections there are.
TypeOK ==
    /\ graph \in Graphs /\ phase \in {"down", "connecting", "serving", "failed"}
    /\ lives \in 0..MaxLives /\ left \in 0..MaxCommands /\ kept \cup known \subseteq Name
    /\ todo \in Seq([op : {"add", "start"}, sub : Name])
    /\ waiting \in [{"setup"} \cup Handler -> {"no", "auto", "main"}]
    /\ DOMAIN conn \subseteq 0..(2 * MaxLives + Cardinality(Outsider))
    /\ \A i \in DOMAIN conn :
        /\ conn[i].owner \in {"auto", "main"} \cup Outsider /\ conn[i].up \in BOOLEAN
        /\ conn[i].requests \in Seq([op : {"add", "start", "stop"}, sub : Name])
        /\ conn[i].answers \in Nat
    /\ active \in [Name -> [words : Nat, bits : SUBSET Nat]]

\* FlightDirector serves no graph in which a subsystem needs itself.
LoopsRefused ==
    phase = "serving" =>
        \A s \in graph.subsystem : s \notin Reachable(ToSet(Deps(s)))

\* All that the interfaces need gets known to Capcom, in an order in which it
\* takes them, whatever clients ask on the same connection meanwhile and
\* however often FlightDirector dies on the way, if it stays up once.
AllRegistered ==
    phase = "serving" ~> phase = "down" \/ Reachable(ToSet(graph.interface)) \subseteq known

\* A subsystem that was started automatically stays active, whatever clients
\* of FlightDirector start and stop.
AutostartsStay == \A s \in kept : active[s].bits # {}
=============================================================================
