------------------------------ MODULE Computes ------------------------------
(***************************************************************************)
(* Capcom's computes: the main umbilical to the StageZero of each, which   *)
(* the umbilicals of all subsystems share by counting references, and the  *)
(* cgroups that Capcom keeps registered there (src/capcom/capcom.cc,       *)
(* capcom.h, umbilical.cc).  What a subsystem does with its own umbilical  *)
(* is in Subsystem; here it starts, stops and loses its connection.        *)
(***************************************************************************)
EXTENDS Integers, FiniteSets

CONSTANTS
    Compute, Subsystem,
    Home,        \* [Subsystem -> Compute]: where its processes are to run
    Procs,       \* [Subsystem -> Nat]: how many
    Cgroup, Setting,
    Configs,     \* the cgroups that computes are added with
    MaxTasks,    \* bound: coroutines of a subsystem that connect
    MaxStarts,   \* bound: starts, over all subsystems
    MaxOthers    \* bound: changes of cgroups, subsystems that are refused,
                 \* connections that fail or are lost, crashes of Capcom

\* The coroutines that connect: of subsystems, and of clients that add a compute.
Worker == (Subsystem \X (1..MaxTasks)) \cup Compute

\* Some cgroups, each with its settings.
Settings == UNION {[D -> Setting] : D \in SUBSET Cgroup}

NoCompute == [none |-> TRUE]

ASSUME ComputesAssumption ==
    /\ Home \in [Subsystem -> Compute] /\ Procs \in [Subsystem -> Nat \ {0}]
    /\ Configs \subseteq Settings /\ NoCompute \notin Settings
    /\ MaxTasks \in Nat \ {0} /\ {MaxStarts, MaxOthers} \subseteq Nat
    /\ (Subsystem \X (1..MaxTasks)) \cap Compute = {}

VARIABLES
    main,      \* stagezero_umbilicals_
    config,    \* cgroups of each Compute of computes_; NoCompute: not added
    groups,    \* cgroups_ of each StageZero
    phase,     \* of each subsystem, as far as its connection goes
    own,       \* state of the subsystem's umbilical
    task,      \* where each worker waits
    dangling,  \* workers that hold a pointer to an umbilical that is gone
    troubled,  \* (history) computes whose umbilical failed or was taken away
    shared,    \* (history) computes that two subsystems have used at once
    spent      \* [starts, others]: how much of the bounds is used

capcom == <<main, config, phase, own, task, dangling, troubled, shared>>
vars == <<main, config, groups, phase, own, task, dangling, troubled, shared, spent>>

Nothing == [g \in {} |-> 0]
NoUmbilical == [st |-> "None", refs |-> 0, statics |-> 0, link |-> "down", static |-> FALSE]
Fresh(static) == [NoUmbilical EXCEPT !.st = "Closed", !.static = static]

Start0 ==
    [main |-> [c \in Compute |-> NoUmbilical], config |-> [c \in Compute |-> NoCompute],
     phase |-> [s \in Subsystem |-> "none"], own |-> [s \in Subsystem |-> "Closed"],
     task |-> [w \in Worker |-> "idle"]]

Init ==
    /\ main = Start0.main /\ config = Start0.config /\ phase = Start0.phase
    /\ own = Start0.own /\ task = Start0.task
    /\ dangling = {} /\ troubled = {} /\ shared = {}
    /\ groups = [c \in Compute |-> Nothing]
    /\ spent = [starts |-> 0, others |-> 0]

\* Capcom dies and is run again; the StageZeros keep their cgroups.
Dies ==
    /\ main' = Start0.main /\ config' = Start0.config /\ phase' = Start0.phase
    /\ own' = Start0.own /\ task' = Start0.task
    /\ dangling' = {} /\ troubled' = {} /\ shared' = {}

Known(c) == config[c] # NoCompute
Users(c) == {s \in Subsystem : Home[s] = c}
Unused(s) ==
    phase[s] \in {"none", "offline"} /\ \A k \in 1..MaxTasks : task[<<s, k>>] = "idle"
At(w) == IF w \in Compute THEN w ELSE Home[w[1]]
Without(f, S) == [g \in DOMAIN f \ S |-> f[g]]

Spend(what, max) == spent[what] < max /\ spent' = [spent EXCEPT ![what] = @ + 1]
Edits == Spend("others", MaxOthers)
Faults == Spend("others", MaxOthers)

----------------------------------------------------------------------------
(* The main umbilical of a compute.                                        *)

Precondition(u) == [u EXCEPT !.st = "Connecting", !.refs = @ + 1]

\* AddUmbilical counts a reference but for the first.  A new one may make the
\* hash map move the others: their destructors close the connections, and who
\* waits for one keeps a pointer to where it was.
Moved(c, new) ==
    [x \in Compute |-> IF x = c THEN new ELSE [main[x] EXCEPT !.link = "down"]]

AddUmbilical(c, new) ==
    \/ /\ main[c].st # "None"
       /\ main' = [main EXCEPT ![c].statics = @ + 1]
       /\ UNCHANGED <<dangling, troubled>>
    \/ /\ main[c].st = "None"
       /\ main' = [main EXCEPT ![c] = new]
       /\ UNCHANGED <<dangling, troubled>>
    \/ /\ main[c].st = "None" /\ \E x \in Compute : main[x].st # "None"
       /\ main' = Moved(c, new)
       /\ dangling' = dangling \cup {w \in Worker : task[w] = "await"}
       /\ troubled' = troubled \cup {x \in Compute : main[x].st # "None"}

\* RemoveUmbilical(dynamic_only).
RemoveUmbilical(c) ==
    LET left == [main[c] EXCEPT !.statics = @ - 1]
        gone == ~left.static /\ left.statics <= 0 IN
    IF main[c].st = "None" THEN UNCHANGED <<main, dangling, troubled>>
    ELSE /\ troubled' = IF gone /\ \E s \in Users(c) : ~Unused(s) THEN troubled \cup {c} ELSE troubled
         /\ main' = [main EXCEPT ![c] = IF gone THEN NoUmbilical ELSE left]
         /\ dangling' = IF gone THEN dangling \cup {w \in Worker : task[w] = "await" /\ At(w) = c}
                        ELSE dangling

\* (mutant) A reference too few is given up.
DisconnectedLate(u, dynamic) ==
    IF (dynamic /\ u.static) \/ u.refs > 0 THEN [u EXCEPT !.refs = @ - 1]
    ELSE [u EXCEPT !.refs = @ - 1, !.st = "Closed", !.link = "down"]

Disconnected(u, dynamic) ==
    IF (dynamic /\ u.static) \/ u.refs - 1 > 0 THEN [u EXCEPT !.refs = @ - 1]
    ELSE [u EXCEPT !.refs = @ - 1, !.st = "Closed", !.link = "down"]

\* IsConnected of the umbilical, and of its client.
IsConnected(c) == main[c].st = "Connected" /\ main[c].link # "down"
ClientConnected(c) == main[c].link # "down"

----------------------------------------------------------------------------
(* Cgroups.                                                                *)

\* (mutant) A cgroup that is known is kept, whatever its settings.
RegisteredByName(cfg, had) == [g \in DOMAIN cfg |-> IF g \in DOMAIN had THEN had[g] ELSE cfg[g]]

\* RegisterComputeCgroups: what is not known, or not so, is removed; added is
\* what was not there before.
Registered(cfg, had) ==
    [g \in {g \in DOMAIN cfg : g \in DOMAIN had => had[g] = cfg[g]} |-> cfg[g]]

\* A cgroup with processes in it cannot be removed from the file system.
Busy(c, s) == \E t \in Subsystem \ {s} : Home[t] = c /\ phase[t] = "online" /\ own[t] = "Connected"

\* RemoveComputeCgroups ends at the first error: [umbilical, cgroups, ok].
Removals(u, had, names, busy) ==
    IF u.link = "up"
    THEN {[u |-> u, g |-> Without(had, D), ok |-> FALSE] :
             D \in {D \in SUBSET (names \cap DOMAIN had) : ~names \subseteq DOMAIN had \/ (busy /\ D # {})}}
         \cup {[u |-> u, g |-> Without(had, D), ok |-> TRUE] : D \in {names} \cap SUBSET DOMAIN had}
    ELSE {[u |-> [u EXCEPT !.link = IF names = {} THEN @ ELSE "down"], g |-> had, ok |-> ok] :
             ok \in IF names = {} THEN {TRUE}
                    ELSE IF u.link = "stale" /\ Cardinality(names) = 1 THEN BOOLEAN ELSE {FALSE}}

\* (mutant) Cgroups that cannot be removed end it before the reference is given up.
DisconnectUmbilicalOrNot(u, had, names, busy) ==
    {[u |-> IF r.ok THEN Disconnected(r.u, TRUE) ELSE r.u,
      g |-> r.g] : r \in Removals(u, had, names, busy)}

\* Capcom::DisconnectUmbilical, for a subsystem.
DisconnectUmbilical(u, had, names, busy) ==
    {[u |-> IF r.ok THEN Disconnected(r.u, TRUE) ELSE Disconnected(Disconnected(r.u, FALSE), TRUE),
      g |-> r.g] : r \in Removals(u, had, names, busy)}

\* What n disconnected processes leave of umbilical u and of the cgroups had.
Disconnections(u, had, names, busy, n) ==
    LET After[k \in 0..n] ==
            IF k = 0 THEN {[u |-> u, g |-> had]}
            ELSE UNION {DisconnectUmbilical(r.u, r.g, names, busy) : r \in After[k - 1]}
    IN  After[n]

\* All processes of a subsystem disconnect.
DisconnectAll(s) ==
    LET c == Home[s] IN
    /\ own' = [own EXCEPT ![s] = "Closed"]
    /\ IF main[c].st = "None" THEN UNCHANGED <<main, groups>>
       ELSE \E r \in Disconnections(main[c], groups[c], DOMAIN config[c], Busy(c, s), Procs[s]) :
                /\ main' = [main EXCEPT ![c] = r.u]
                /\ groups' = [groups EXCEPT ![c] = r.g]

----------------------------------------------------------------------------
(* What clients ask of Capcom.                                             *)

HandleAddCompute(c) ==
    /\ ~Known(c)
    /\ \E cfg \in Configs : config' = [config EXCEPT ![c] = cfg]
    /\ UNCHANGED <<groups, phase, own, shared, spent>>
    /\ \/ UNCHANGED <<main, task, dangling, troubled>>
       \/ /\ task' = [task EXCEPT ![c] = "await"]
          /\ AddUmbilical(c, Precondition(Fresh(TRUE)))

HandleAddSubsystem(s) ==
    /\ phase[s] = "none" /\ Known(Home[s])
    /\ phase' = [phase EXCEPT ![s] = "offline"]
    /\ AddUmbilical(Home[s], Fresh(FALSE))
    /\ UNCHANGED <<config, groups, own, task, shared, spent>>

\* The name is taken, or a stream is wrong: the reference has been counted.
HandleAddSubsystemFails(s) ==
    /\ Known(Home[s]) /\ Edits
    /\ AddUmbilical(Home[s], Fresh(FALSE))
    /\ UNCHANGED <<config, groups, phase, own, task, shared>>

HandleRemoveSubsystem(s) ==
    /\ phase[s] = "offline"
    /\ phase' = [phase EXCEPT ![s] = "none"]
    /\ RemoveUmbilical(Home[s])
    /\ UNCHANGED <<config, groups, own, task, shared, spent>>

\* The new cgroup is sent to StageZero through the pointer that did not find it.
HandleAddCgroup(c) ==
    /\ Known(c) /\ Edits
    /\ \E g \in Cgroup \ DOMAIN config[c], v \in Setting :
        \/ ClientConnected(c) /\ Dies
        \/ /\ ~ClientConnected(c)
           /\ config' = [config EXCEPT ![c] = [h \in DOMAIN @ \cup {g} |-> IF h = g THEN v ELSE @[h]]]
           /\ UNCHANGED <<main, phase, own, task, dangling, troubled, shared>>
    /\ UNCHANGED groups

Sent(c, S) ==
    IF main[c].link = "up"
    THEN groups' = [groups EXCEPT ![c] = Without(@, S)] /\ UNCHANGED main
    ELSE main' = [main EXCEPT ![c].link = "down"] /\ UNCHANGED groups

HandleRemoveCgroups(c) ==
    /\ Known(c) /\ Edits
    /\ \E g \in DOMAIN config[c] :
        /\ config' = [config EXCEPT ![c] = Without(@, {g})]
        /\ Sent(c, {g})
    /\ UNCHANGED <<phase, own, task, dangling, troubled, shared>>

\* No names.  The first error ends it: that cgroup stays in the configuration.
RemovesAll(c) ==
    \/ /\ main[c].link = "down" \/ DOMAIN config[c] \subseteq DOMAIN groups[c]
       /\ config' = [config EXCEPT ![c] = Nothing]
       /\ Sent(c, DOMAIN config[c])
    \/ /\ main[c].link = "stale"
       /\ \E g \in DOMAIN config[c] : config' \in {config, [config EXCEPT ![c] = Without(@, {g})]}
       /\ Sent(c, {})
    \/ /\ main[c].link = "up"
       /\ \E D \in SUBSET (DOMAIN config[c] \cap DOMAIN groups[c]) :
           /\ config' = [config EXCEPT ![c] = Without(@, D)]
           /\ \/ ~DOMAIN config[c] \subseteq DOMAIN groups[c] /\ Sent(c, D)
              \/ /\ \E s \in Subsystem : Home[s] = c /\ phase[s] = "online"
                 /\ \E g \in (DOMAIN config[c] \cap DOMAIN groups[c]) \ D : Sent(c, D \cup {g})

HandleRemoveAllCgroups(c) ==
    /\ Known(c) /\ Edits
    /\ RemovesAll(c)
    /\ UNCHANGED <<phase, own, task, dangling, troubled, shared>>

----------------------------------------------------------------------------
(* Subsystems.                                                             *)

\* Its processes connect: one coroutine does it for all of them.
Start(s, k) ==
    /\ phase[s] \in {"offline", "restarting"} /\ task[<<s, k>>] = "idle"
    /\ Spend("starts", MaxStarts)
    /\ phase' = [phase EXCEPT ![s] = "connecting"]
    /\ own' = [own EXCEPT ![s] = "Connecting"]
    /\ task' = [task EXCEPT ![<<s, k>>] = "main"]
    /\ troubled' = IF \E j \in 1..MaxTasks : task[<<s, j>>] # "idle"
                   THEN troubled \cup {Home[s]} ELSE troubled
    /\ shared' = IF \E t \in Users(Home[s]) \ {s} : ~Unused(t) THEN shared \cup {Home[s]} ELSE shared
    /\ UNCHANGED <<main, config, groups, dangling>>

\* Capcom::ConnectUmbilical up to its wait for StageZero.
ConnectUmbilical(s, k) ==
    LET c == Home[s] IN
    /\ task[<<s, k>>] = "main"
    /\ UNCHANGED <<config, groups, phase, own, dangling, troubled, shared, spent>>
    /\ \/ /\ phase[s] # "connecting"
          /\ task' = [task EXCEPT ![<<s, k>>] = "idle"] /\ UNCHANGED main
       \/ /\ phase[s] = "connecting" /\ main[c].st \in {"Connecting", "Connected"}
          /\ main' = [main EXCEPT ![c] = Precondition(@)]
          /\ task' = [task EXCEPT ![<<s, k>>] = "own"]
       \/ /\ phase[s] = "connecting" /\ main[c].st = "Closed"
          /\ main' = [main EXCEPT ![c] = [Precondition(@) EXCEPT !.link = "down"]]
          /\ task' = [task EXCEPT ![<<s, k>>] = "await"]

Goes(w) == IF w \in Compute THEN "idle" ELSE "own"
Again(w) == IF w \in Compute THEN "idle" ELSE "main"

\* The main umbilical is connected, and all the rest is done in one go.
UmbilicalConnected(w) ==
    LET c == At(w) IN
    /\ task[w] = "await" /\ w \notin dangling /\ main[c].st # "Closed"
    /\ main' = [main EXCEPT ![c].st = "Connected", ![c].link = "up"]
    /\ groups' = [groups EXCEPT ![c] = Registered(config[c], @)]
    /\ task' = [task EXCEPT ![w] = Goes(w)]
    /\ UNCHANGED <<config, phase, own, dangling, troubled, shared, spent>>

\* StageZero refuses a cgroup.
UmbilicalRefused(w) ==
    LET c == At(w) IN
    /\ task[w] = "await" /\ w \notin dangling /\ main[c].st # "Closed" /\ Faults
    /\ main' = [main EXCEPT ![c] =
           Disconnected([@ EXCEPT !.st = "Connected", !.link = "up"], FALSE)]
    /\ \E D \in SUBSET (DOMAIN config[c] \ DOMAIN groups[c]) :
           groups' = [groups EXCEPT ![c] = Without(Registered(config[c], @), D)]
    /\ task' = [task EXCEPT ![w] = Again(w)]
    /\ troubled' = troubled \cup {c}
    /\ UNCHANGED <<config, phase, own, dangling, shared>>

\* It does not answer, or the umbilical has been closed meanwhile.
UmbilicalFails(w) ==
    LET c == At(w) IN
    /\ task[w] = "await" /\ w \notin dangling
    /\ IF main[c].st = "Closed" THEN UNCHANGED <<troubled, spent>>
       ELSE Faults /\ troubled' = troubled \cup {c}
    /\ main' = [main EXCEPT ![c].st = "Closed", ![c].link = "down"]
    /\ task' = [task EXCEPT ![w] = Again(w)]
    /\ UNCHANGED <<config, groups, phase, own, dangling, shared>>

\* The umbilical is not where it was: a crash, or a write to nothing.
UmbilicalGone(w) ==
    /\ task[w] = "await" /\ w \in dangling
    /\ UNCHANGED <<groups, spent>>
    /\ \/ Dies
       \/ /\ task' = [task EXCEPT ![w] = Again(w)]
          /\ dangling' = dangling \ {w}
          /\ UNCHANGED <<main, config, phase, own, troubled, shared>>

\* (mutant) It connects, whatever has become of the subsystem.
OwnConnectsAnyway(s, k) ==
    /\ task[<<s, k>>] = "own"
    /\ own' = [own EXCEPT ![s] = "Connected"]
    /\ task' = [task EXCEPT ![<<s, k>>] = "idle"]
    /\ UNCHANGED <<main, config, groups, phase, dangling, troubled, shared, spent>>

\* The subsystem's own umbilical; Connect wants it to be connecting.
OwnConnects(s, k) ==
    /\ task[<<s, k>>] = "own"
    /\ UNCHANGED <<main, config, groups, phase, dangling, shared>>
    /\ \/ /\ own[s] = "Connecting"
          /\ own' = [own EXCEPT ![s] = "Connected"]
          /\ task' = [task EXCEPT ![<<s, k>>] = "idle"]
          /\ UNCHANGED <<troubled, spent>>
       \/ /\ task' = [task EXCEPT ![<<s, k>>] = "main"] /\ UNCHANGED own
          /\ IF own[s] # "Connecting" THEN UNCHANGED <<troubled, spent>>
             ELSE Faults /\ troubled' = troubled \cup {Home[s]}

\* All its processes are connected, as far as it has read, and can be started.
GoesOnline(s) ==
    /\ phase[s] = "connecting" /\ own[s] \in {"Connected", "Stale"}
    /\ phase' = [phase EXCEPT ![s] = "online"]
    /\ UNCHANGED <<main, config, groups, own, task, dangling, troubled, shared, spent>>

Stop(s) ==
    /\ phase[s] \in {"connecting", "online"}
    /\ phase' = [phase EXCEPT ![s] = "offline"]
    /\ DisconnectAll(s)
    /\ UNCHANGED <<config, task, dangling, troubled, shared, spent>>

\* The subsystem reads that StageZero is gone: while it connects, it does no
\* more than that.
Loses(s) ==
    /\ own[s] = "Stale"
    /\ UNCHANGED <<config, task, dangling, troubled, shared, spent>>
    /\ \/ /\ phase[s] = "online"
          /\ phase' = [phase EXCEPT ![s] = "restarting"]
          /\ DisconnectAll(s)
       \/ /\ phase[s] = "connecting"
          /\ own' = [own EXCEPT ![s] = "Closed"]
          /\ UNCHANGED <<main, groups, phase>>

StageZeroRestarts(c) ==
    /\ Faults
    /\ groups' = [groups EXCEPT ![c] = Nothing]
    /\ main' = [main EXCEPT ![c].link = IF @ = "up" THEN "stale" ELSE @]
    /\ own' = [s \in Subsystem |-> IF Home[s] = c /\ own[s] = "Connected" THEN "Stale" ELSE own[s]]
    /\ troubled' = troubled \cup {c}
    /\ UNCHANGED <<config, phase, task, dangling, shared>>

CapcomRestarts == Faults /\ Dies /\ UNCHANGED groups

----------------------------------------------------------------------------
Works(s, k) == ConnectUmbilical(s, k) \/ OwnConnects(s, k)
Awaits(w) ==
    UmbilicalConnected(w) \/ UmbilicalRefused(w) \/ UmbilicalFails(w) \/ UmbilicalGone(w)

Next ==
    \/ \E c \in Compute :
        \/ HandleAddCompute(c) \/ HandleAddCgroup(c) \/ HandleRemoveCgroups(c)
        \/ HandleRemoveAllCgroups(c) \/ StageZeroRestarts(c)
    \/ \E s \in Subsystem :
        \/ HandleAddSubsystem(s) \/ HandleAddSubsystemFails(s) \/ HandleRemoveSubsystem(s)
        \/ GoesOnline(s) \/ Stop(s) \/ Loses(s)
        \/ \E k \in 1..MaxTasks : Start(s, k) \/ Works(s, k)
    \/ \E w \in Worker : Awaits(w)
    \/ CapcomRestarts

Spec == Init /\ [][Next]_vars

----------------------------------------------------------------------------
(* Properties.                                                             *)

\* The types of the variables.
TypeOK ==
    /\ main \in [Compute -> [st : {"None", "Closed", "Connecting", "Connected"}, refs : Int,
                             statics : Int, link : {"down", "up", "stale"}, static : BOOLEAN]]
    /\ \A c \in Compute : Known(c) => DOMAIN config[c] \subseteq Cgroup
    /\ \A c \in Compute : DOMAIN groups[c] \subseteq Cgroup
    /\ phase \in [Subsystem -> {"none", "offline", "connecting", "online", "restarting"}]
    /\ own \in [Subsystem -> {"Closed", "Connecting", "Connected", "Stale"}]
    /\ task \in [Worker -> {"idle", "main", "await", "own"}]
    /\ dangling \subseteq {w \in Worker : task[w] = "await"}
    /\ troubled \subseteq Compute /\ shared \subseteq Compute
    /\ \A s \in Subsystem : phase[s] \in {"none", "offline"} => own[s] = "Closed"

\* StageZeros outlive Capcom, and cgroups are changed while nobody is
\* connected: still a StageZero that Capcom is connected to has no cgroup that
\* Capcom does not know, and none with other settings.
OnlyConfigured ==
    \A c \in Compute : IsConnected(c) =>
        \A g \in DOMAIN groups[c] : g \in DOMAIN config[c] /\ groups[c][g] = config[c][g]

\* Subsystems that come and go in any order, with several processes each, do
\* not leave a dynamic umbilical open, unless a connection has gone wrong.
ClosedWhenUnused ==
    \A c \in Compute \ troubled :
        /\ ~main[c].static
        /\ \A s \in Users(c) : Unused(s)
        => main[c].st \in {"None", "Closed"} /\ main[c].link = "down"

\* A subsystem that has had a dynamic compute for itself runs with a connected
\* main umbilical, in whatever order it starts, connects and stops, unless the
\* umbilical has failed or was taken away.
ServedAlone ==
    \A s \in Subsystem :
        /\ phase[s] = "online" /\ ~main[Home[s]].static
        /\ Home[s] \notin troubled \cup shared
        => IsConnected(Home[s])

\* There is one main umbilical which is used to convey global variables,
\* parameters and cgroups: while a subsystem runs and nobody is about to
\* connect, it is connected.
ServedByMain ==
    \A s \in Subsystem :
        phase[s] = "online" /\ (\A w \in Worker : At(w) = Home[s] => task[w] = "idle")
        => IsConnected(Home[s])
=============================================================================
