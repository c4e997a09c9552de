----------------------------- MODULE Parameters -----------------------------
(***************************************************************************)
(* The global parameters: a tree in Capcom and a copy of it in every       *)
(* StageZero (src/common/parameters, src/capcom, src/stagezero), changed   *)
(* by Capcom's clients and by the processes that StageZeros run.           *)
(***************************************************************************)
EXTENDS Naturals, Sequences, FiniteSets

CONSTANTS
    StageZero,   \* computes
    Capcom,
    Client,      \* clients of Capcom
    Path,        \* names of parameters
    Above,       \* [Path -> SUBSET Path]: the proper prefixes of each name
    Value,       \* values that are no maps
    Unset, Null, \* the Value of a node that nobody gave one; a null pointer to a node
    Sets,        \* [Path -> SUBSET Value]: the values tried
    Requests,    \* operations that clients use
    MaxRequests  \* bound: requests that clients and processes make

Server == StageZero \cup {Capcom}
Source == StageZero \cup Client   \* whose changes Capcom carries out
NoDelete == [path |-> "none", left |-> {}]   \* "all" is for all names

ASSUME PathAssumption ==
    /\ Capcom \notin StageZero /\ StageZero \cap Client = {}
    /\ Above \in [Path -> SUBSET Path] /\ "all" \notin Path
    /\ \A p \in Path : p \notin Above[p]
    /\ \A p \in Path : \A q \in Above[p] : Above[q] \subseteq Above[p]
    /\ Unset \notin Value /\ Null \notin Value \cup {Unset}
    /\ Sets \in [Path -> SUBSET Value]
    /\ MaxRequests \in Nat

VARIABLES
    tree,      \* nodes_ of each ParameterServer: the nodes and their values
    up,        \* servers that run
    joined,    \* computes with a connected main umbilical
    events,    \* [StageZero -> parameter events not handled by Capcom yet]
    deleting,  \* [Source -> the deletion Capcom is sending out for it]
    unsure,    \* (history) computes that Capcom has left behind
    requests   \* requests made so far

vars == <<tree, up, joined, events, deleting, unsure, requests>>

Empty == [p \in {} |-> Unset]

Init ==
    /\ tree = [s \in Server |-> Empty] /\ up = Server
    /\ joined = {}
    /\ events = [s \in StageZero |-> <<>>]
    /\ deleting = [s \in Source |-> NoDelete]
    /\ unsure = {} /\ requests = 0

----------------------------------------------------------------------------
(* One ParameterServer: a function from the names of its nodes to values.  *)

Alive(t, p) == p \in DOMAIN t /\ t[p] # Null
Found(t, p) == \A q \in Above[p] \cup {p} : Alive(t, q)
Below(t, p) == {q \in DOMAIN t : p \in Above[q]}
Leaf(t, p) == Alive(t, p) /\ Below(t, p) = {}

\* (mutant) A search adds a node.
LookupAdds(t, p) == [q \in DOMAIN t \cup Above[p] |-> IF Alive(t, q) THEN t[q] ELSE Unset]

\* operator[] adds a null pointer where the search for p ends.
Lookup(t, p) ==
    [q \in DOMAIN t \cup {q \in Above[p] \cup {p} : ~Alive(t, q) /\ \A r \in Above[q] : Alive(t, r)}
        |-> IF q \in DOMAIN t THEN t[q] ELSE Null]

\* Every node on the way to p, made when it is not there.
Grown(t, p) ==
    [q \in DOMAIN t \cup Above[p] \cup {p} |->
        IF q \in DOMAIN t /\ (t[q] # Null \/ q \notin Above[p] \cup {p}) THEN t[q] ELSE Unset]

SetValue(t, p, v) ==
    [q \in (DOMAIN Grown(t, p) \ Below(t, p)) |-> IF q = p THEN v ELSE Grown(t, p)[q]]

\* ExpandMap: what the map does not name stays.
Children(p) == {q \in Path : Above[q] = Above[p] \cup {p}}
Maps(p) == {m \in UNION {[C -> Value] : C \in SUBSET Children(p)} : \A q \in DOMAIN m : m[q] \in Sets[q]}
ExpandMap(t, p, m) ==
    [q \in DOMAIN Grown(t, p) \cup DOMAIN m |-> IF q \in DOMAIN m THEN m[q] ELSE Grown(t, p)[q]]

\* An operation is <<"set", p, value>>, <<"map", p, function>> or <<"delete", p>>.
Changes(p) == {<<"set", p, v>> : v \in Sets[p]} \cup {<<"map", p, m>> : m \in Maps(p)}
SetParameter(t, op) ==
    IF op[1] = "set" THEN SetValue(t, op[2], op[3]) ELSE ExpandMap(t, op[2], op[3])

Erased(t, p) == [q \in DOMAIN t \ (Below(t, p) \cup {p}) |-> t[q]]

\* (mutant) The search does not stop at a name that is not there.
DeleteCrashesToo(t, p) == \E q \in Above[p] : ~Alive(t, q)

\* DeleteParameter looks at the nodes above p in turn: one that is missing
\* is an error, and the children of a null pointer cannot be searched.
DeleteCrashes(t, p) ==
    \E q \in Above[p] \cap DOMAIN t : t[q] = Null /\ \A r \in Above[q] : Alive(t, r)

DeleteWorks(t, p) == p \in DOMAIN t /\ \A q \in Above[p] : Alive(t, q)

\* MakeMap does not expect null pointers.
GetCrashes(t, p) == Found(t, p) /\ \E q \in Below(t, p) : t[q] = Null

\* The type of a Value that was never assigned is not initialised: a message
\* gets an empty value of it, or none, or std::get throws.
Blank(t, p) == Leaf(t, p) /\ t[p] = Unset
GetThrows(t, p) == Found(t, p) /\ \E q \in Below(t, p) \cup {p} : Blank(t, q)

\* GetAllParameters: the leaves, with what they hold.
GetAllParameters(t) == [p \in {q \in DOMAIN t : Leaf(t, q)} |-> t[p]]

\* What it leaves out: the value a node had before it got children, and a
\* node that has null pointers for children.
Omits(t) ==
    \E p \in DOMAIN t :
        /\ Alive(t, p) /\ Below(t, p) # {}
        /\ t[p] # Unset \/ \A q \in Below(t, p) : t[q] = Null

\* UploadParameters: Clear, and SetParameter for each.
UploadParameters(all) ==
    [q \in DOMAIN all \cup UNION {Above[p] : p \in DOMAIN all} |->
        IF q \in DOMAIN all THEN all[q] ELSE Unset]

----------------------------------------------------------------------------
(* Capcom.                                                                 *)

Reached == joined \cap up

Asks == requests < MaxRequests /\ requests' = requests + 1

\* Some deletion is still on its way to some computes.
Deleting == {s \in Source : deleting[s] # NoDelete}

\* (mutant) The compute that made the change is not told of it.
PropagatedToOthers(op, src) ==
    [s \in Server |->
        IF s = Capcom \/ s \in Reached \ {src} THEN SetParameter(tree[s], op) ELSE tree[s]]

\* Capcom::SetParameter: its own tree, and without a pause all computes.
Propagated(op, src) ==
    [s \in Server |->
        IF s = Capcom \/ s \in Reached THEN SetParameter(tree[s], op) ELSE tree[s]]

Updates(op, src) ==
    /\ tree' = Propagated(op, src)
    /\ unsure' = IF Deleting = {} THEN unsure ELSE unsure \cup joined
    /\ UNCHANGED <<up, joined, deleting>>

\* Capcom::DeleteParameters for one name; the computes follow one by one.
Deletes(p, src) ==
    \/ /\ DeleteCrashes(tree[Capcom], p)
       /\ up' = up \ {Capcom}
       /\ UNCHANGED <<tree, deleting, unsure>>
    \/ /\ DeleteWorks(tree[Capcom], p)
       /\ tree' = [tree EXCEPT ![Capcom] = Erased(@, p)]
       /\ deleting' = [deleting EXCEPT ![src] = [path |-> p, left |-> StageZero]]
       /\ unsure' = IF Deleting = {} THEN unsure ELSE unsure \cup joined
       /\ UNCHANGED up
    \/ /\ ~DeleteCrashes(tree[Capcom], p) /\ ~DeleteWorks(tree[Capcom], p)
       /\ UNCHANGED <<tree, up, deleting, unsure>>

HandleSetParameter(c) ==
    /\ "set" \in Requests /\ Asks /\ Capcom \in up /\ deleting[c] = NoDelete
    /\ \E p \in Path : \E op \in Changes(p) : Updates(op, c)
    /\ UNCHANGED events

HandleDeleteParameters(c) ==
    /\ "delete" \in Requests /\ Asks /\ Capcom \in up /\ deleting[c] = NoDelete
    /\ \E p \in Path : Deletes(p, c)
    /\ UNCHANGED <<joined, events>>

\* Several names: the first of them is deleted, a later one is missing, and
\* no compute hears of it.
HandleDeletePart(c) ==
    /\ "part" \in Requests /\ Asks /\ Capcom \in up /\ deleting[c] = NoDelete
    /\ \E p \in Path :
        /\ DeleteWorks(tree[Capcom], p)
        /\ tree' = [tree EXCEPT ![Capcom] = Erased(@, p)]
    /\ unsure' = unsure \cup joined
    /\ UNCHANGED <<up, joined, events, deleting>>

\* No names: everything goes.
HandleClear(c) ==
    /\ "clear" \in Requests /\ Asks /\ Capcom \in up /\ deleting[c] = NoDelete
    /\ tree' = [tree EXCEPT ![Capcom] = Empty]
    /\ deleting' = [deleting EXCEPT ![c] = [path |-> "all", left |-> StageZero]]
    /\ unsure' = IF Deleting = {} THEN unsure ELSE unsure \cup joined
    /\ UNCHANGED <<up, joined, events>>

HandleGetParameters(c) ==
    /\ "get" \in Requests /\ Asks /\ Capcom \in up /\ deleting[c] = NoDelete
    /\ \E p \in Path :
        \/ /\ GetCrashes(tree[Capcom], p) \/ GetThrows(tree[Capcom], p)
           /\ up' = up \ {Capcom} /\ UNCHANGED tree
        \/ /\ ~GetCrashes(tree[Capcom], p)
           /\ tree' = [tree EXCEPT ![Capcom] = Lookup(@, p)] /\ UNCHANGED up
    /\ UNCHANGED <<joined, events, deleting, unsure>>

\* SetAllParameters tells nobody.
HandleUploadParameters(c) ==
    /\ "upload" \in Requests /\ Asks /\ Capcom \in up /\ deleting[c] = NoDelete
    /\ \E p \in Path : \E v \in Sets[p] :
        tree' = [tree EXCEPT ![Capcom] = SetValue(@, p, v)]
    /\ unsure' = unsure \cup joined
    /\ UNCHANGED <<up, joined, events, deleting>>

\* HandleParameterEvent; the events of a compute are handled one by one.
HandleParameterEvent(s) ==
    /\ Capcom \in up /\ events[s] # <<>> /\ deleting[s] = NoDelete
    /\ UNCHANGED requests
    /\ events' = [events EXCEPT ![s] = Tail(@)]
    /\ LET op == Head(events[s]) IN
       IF op[1] = "delete" THEN Deletes(op[2], s) /\ UNCHANGED joined ELSE Updates(op, s)

\* PropagateParameterDelete: the next compute, if it is connected.  An error
\* of the compute is ignored.
PropagateTo(s, src) ==
    LET d == deleting[src] IN
    /\ s \in d.left /\ Capcom \in up
    /\ deleting' = [deleting EXCEPT ![src] =
           IF d.left = {s} THEN NoDelete ELSE [path |-> d.path, left |-> d.left \ {s}]]
    /\ \/ /\ s \in Reached /\ d.path = "all"
          /\ tree' = [tree EXCEPT ![s] = Empty] /\ UNCHANGED up
       \/ /\ s \in Reached /\ d.path # "all" /\ DeleteCrashes(tree[s], d.path)
          /\ up' = up \ {s} /\ UNCHANGED tree
       \/ /\ s \in Reached /\ d.path # "all" /\ DeleteWorks(tree[s], d.path)
          /\ tree' = [tree EXCEPT ![s] = Erased(@, d.path)] /\ UNCHANGED up
       \/ /\ s \in Reached =>
                /\ d.path # "all"
                /\ ~DeleteCrashes(tree[s], d.path) /\ ~DeleteWorks(tree[s], d.path)
          /\ UNCHANGED <<tree, up>>
    /\ UNCHANGED <<joined, events, unsure, requests>>

PropagateDelete(src) == \E s \in StageZero : PropagateTo(s, src)

\* ConnectUmbilical sends everything without a pause, or dies of a Value
\* that was never assigned.
ConnectUmbilical(s) ==
    /\ Capcom \in up /\ s \in up \ joined
    /\ \/ /\ \E p \in Path : Blank(tree[Capcom], p)
          /\ up' = up \ {Capcom}
          /\ UNCHANGED <<tree, joined, unsure>>
       \/ /\ joined' = joined \cup {s}
          /\ tree' = [tree EXCEPT ![s] = UploadParameters(GetAllParameters(tree[Capcom]))]
          /\ unsure' = IF Omits(tree[Capcom]) \/ Deleting # {}
                       THEN unsure \cup {s} ELSE unsure \ {s}
          /\ UNCHANGED up
    /\ UNCHANGED <<events, deleting, requests>>

\* The connections of the subsystems go with it, and their events.
DisconnectUmbilical(s) ==
    /\ Capcom \in up /\ s \in joined
    /\ joined' = joined \ {s}
    /\ events' = [events EXCEPT ![s] = <<>>]
    /\ UNCHANGED <<tree, up, deleting, unsure, requests>>

----------------------------------------------------------------------------
(* StageZero::HandleParameterServerRequest: what the processes ask.        *)

Serves(s) == s \in Reached /\ Capcom \in up

\* The event goes to the handler of the client that started the process.
Tells(s, op) == events' = [events EXCEPT ![s] = Append(@, op)]

ServesSet(s, op) ==
    /\ tree' = [tree EXCEPT ![s] = SetParameter(@, op)]
    /\ Tells(s, op)
    /\ UNCHANGED up

ServesDelete(s, p) ==
    \/ /\ DeleteCrashes(tree[s], p)
       /\ up' = up \ {s} /\ UNCHANGED <<tree, events>>
    \/ /\ DeleteWorks(tree[s], p)
       /\ tree' = [tree EXCEPT ![s] = Erased(@, p)]
       /\ Tells(s, <<"delete", p>>)
       /\ UNCHANGED up

\* HasParameter searches as GetParameter does, and makes no map.
ServesGet(s, p) ==
    \/ /\ GetCrashes(tree[s], p) \/ GetThrows(tree[s], p)
       /\ up' = up \ {s} /\ UNCHANGED tree
    \/ /\ tree' = [tree EXCEPT ![s] = Lookup(@, p)] /\ UNCHANGED up

ProcessSets(s) ==
    /\ Serves(s) /\ Asks
    /\ \E p \in Path : \E op \in Changes(p) : ServesSet(s, op)
    /\ UNCHANGED <<joined, deleting, unsure>>

ProcessDeletes(s) ==
    /\ Serves(s) /\ Asks
    /\ \E p \in Path : ServesDelete(s, p)
    /\ UNCHANGED <<joined, deleting, unsure>>

ProcessReads(s) ==
    /\ Serves(s) /\ Asks
    /\ \E p \in Path : ServesGet(s, p)
    /\ UNCHANGED <<joined, events, deleting, unsure>>

----------------------------------------------------------------------------
Next ==
    \/ \E c \in Client :
        \/ HandleSetParameter(c) \/ HandleDeleteParameters(c) \/ HandleDeletePart(c)
        \/ HandleClear(c) \/ HandleGetParameters(c) \/ HandleUploadParameters(c)
    \/ \E s \in Source : PropagateDelete(s)
    \/ \E s \in StageZero :
        \/ ConnectUmbilical(s) \/ DisconnectUmbilical(s) \/ HandleParameterEvent(s)
        \/ ProcessSets(s) \/ ProcessDeletes(s) \/ ProcessReads(s)

Spec == Init /\ [][Next]_vars

----------------------------------------------------------------------------
(* Properties.                                                             *)

\* The trees are trees: above a node there are only nodes, no null pointers.
WellFormed(t) == \A p \in DOMAIN t : \A q \in Above[p] : Alive(t, q)

Operation ==
    {<<"delete", p>> : p \in Path} \cup UNION {Changes(p) : p \in Path}

Tree ==
    {t \in UNION {[P -> Value \cup {Unset, Null}] : P \in SUBSET Path} : WellFormed(t)}

Deletion == [path : Path \cup {"all"}, left : SUBSET StageZero] \cup {NoDelete}

\* The types of the variables, and the shape of the trees: a node hangs on
\* nodes, never on a null pointer or on nothing.
TypeOK ==
    /\ tree \in [Server -> Tree]
    /\ up \subseteq Server /\ joined \cup unsure \subseteq StageZero
    /\ events \in [StageZero -> Seq(Operation)]
    /\ deleting \in [Source -> Deletion]
    /\ requests \in 0..MaxRequests

\* Two servers know the same nodes, and a node has the same value in both or
\* in neither: so they answer alike, now and after any further change.
Same(t, u) ==
    \A p \in Path :
        /\ Found(t, p) <=> Found(u, p)
        /\ Found(t, p) => t[p] = u[p]

Settled == Capcom \in up /\ Deleting = {} /\ \A s \in StageZero : events[s] = <<>>

\* Changes are made in Capcom and in several StageZeros at once, but when no
\* event and no deletion is on its way every compute has Capcom's parameters,
\* down to the values of inner nodes, unless Capcom has kept something from
\* it: an upload, a deletion that failed half way, a change during a
\* deletion, or, when it connected, what GetAllParameters leaves out.
CopiesAgree == Settled => \A s \in Reached \ unsure : Same(tree[s], tree[Capcom])

\* The parameters of Capcom are distributed to all StageZero instances.
CopiesAlwaysAgree == Settled => \A s \in Reached : Same(tree[s], tree[Capcom])

\* A search changes no answer about what is there, in any server.
ReadsKeepAnswers ==
    [][(\E c \in Client : HandleGetParameters(c)) \/ (\E s \in StageZero : ProcessReads(s))
        => \A s \in Server, p \in Path : Found(tree'[s], p) <=> Found(tree[s], p)]_vars

\* A server dies only of the null pointers that searches have left in it,
\* or of a parameter without a value: a node that lost its children.
DiesOfGaps ==
    [][\A s \in Server : s \in up \ up' =>
          \E p \in DOMAIN tree[s] : tree[s][p] = Null \/ Blank(tree[s], p)]_vars
=============================================================================
