-------------------------- MODULE ParametersProofs --------------------------
(***************************************************************************)
(* Proofs about Parameters: searches keep the answers, only the gaps in    *)
(* its tree kill a server, and copies come to agree.                       *)
(***************************************************************************)
EXTENDS Parameters, WellFoundedInduction, FiniteSetTheorems, SequenceTheorems, TLAPS

\* A set of numbers that is not empty has a least element.
LEMMA Least ==
    ASSUME NEW S \in SUBSET Nat, S # {}
    PROVE  \E m \in S : \A k \in S : m <= k
<1> DEFINE R == OpToRel(<, Nat)
<1>1. IsWellFoundedOn(R, Nat)
    BY NatLessThanWellFounded, Zenon
<1>2. \A k, m \in Nat : k < m => <<k, m>> \in R
    BY DEF OpToRel
<1> HIDE DEF R
<1>3. \E m \in S : \A k \in S : <<k, m>> \notin R
    BY <1>1, WFMin
<1>4. PICK m \in S : \A k \in S : <<k, m>> \notin R
    BY <1>3
<1>5. ASSUME NEW k \in S, k < m PROVE FALSE
    BY <1>2, <1>4, <1>5
<1> QED
    BY <1>5

\* The leaves below work on one tree at a time.
LEMMA TreeForm ==
  ASSUME NEW t
  PROVE  t \in Tree <=> /\ \E P \in SUBSET Path : t \in [P -> Value \cup {Unset, Null}]
                        /\ WellFormed(t)
  BY DEF Tree

LEMMA TreeParts ==
  ASSUME NEW t \in Tree
  PROVE  /\ DOMAIN t \subseteq Path /\ t = [q \in DOMAIN t |-> t[q]]
         /\ \A q \in DOMAIN t : t[q] \in Value \cup {Unset, Null}
         /\ \A q \in DOMAIN t : \A r \in Above[q] : r \in DOMAIN t /\ t[r] # Null
  BY TreeForm DEF WellFormed, Alive

LEMMA TreeMade ==
  ASSUME NEW P \in SUBSET Path, NEW t \in [P -> Value \cup {Unset, Null}],
         \A q \in P : \A r \in Above[q] : r \in P /\ t[r] # Null
  PROVE  t \in Tree
  BY TreeForm DEF WellFormed, Alive

LEMMA EmptyTree == Empty \in Tree
  <1> DEFINE none == {}
  <1>1. none \in SUBSET Path /\ Empty \in [none -> Value \cup {Unset, Null}]
    BY DEF Empty
  <1> QED  BY <1>1, TreeMade

LEMMA LookupTree ==
  ASSUME NEW t \in Tree, NEW p \in Path
  PROVE  Lookup(t, p) \in Tree
  <1> DEFINE P == DOMAIN Lookup(t, p)
  <1>1. P \in SUBSET Path /\ Lookup(t, p) \in [P -> Value \cup {Unset, Null}]
    BY TreeParts, PathAssumption DEF Lookup
  <1>2. \A q \in P : \A r \in Above[q] : r \in P /\ Lookup(t, p)[r] # Null
    BY TreeParts, PathAssumption DEF Lookup, Alive
  <1> QED  BY <1>1, <1>2, TreeMade

LEMMA GrownTree ==
  ASSUME NEW t \in Tree, NEW p \in Path
  PROVE  /\ DOMAIN Grown(t, p) = DOMAIN t \cup Above[p] \cup {p}
         /\ Grown(t, p) \in Tree /\ Grown(t, p)[p] # Null
  <1> DEFINE P == DOMAIN t \cup Above[p] \cup {p}
  <1>1. P \in SUBSET Path /\ Grown(t, p) \in [P -> Value \cup {Unset, Null}]
    BY TreeParts, PathAssumption DEF Grown
  <1>2. \A q \in P : \A r \in Above[q] : r \in P /\ Grown(t, p)[r] # Null
    BY TreeParts, PathAssumption DEF Grown
  <1>3. DOMAIN Grown(t, p) = P /\ Grown(t, p)[p] # Null
    BY PathAssumption DEF Grown
  <1> QED  BY <1>1, <1>2, <1>3, TreeMade

LEMMA SetTree ==
  ASSUME NEW t \in Tree, NEW p \in Path, NEW v \in Value
  PROVE  SetValue(t, p, v) \in Tree
  <1> DEFINE g == Grown(t, p)
             P == DOMAIN g \ Below(t, p)
  <1>1. /\ g \in Tree /\ p \in DOMAIN g /\ p \notin Below(t, p)
        /\ DOMAIN g = DOMAIN t \cup Above[p] \cup {p}
    <2>1. p \notin Below(t, p)
      BY PathAssumption DEF Below
    <2> QED  BY <2>1, GrownTree
  <1> HIDE DEF g
  <1>2. P \in SUBSET Path /\ SetValue(t, p, v) \in [P -> Value \cup {Unset, Null}]
    BY <1>1, TreeParts DEF SetValue, g
  <1>3. \A q \in P : \A r \in Above[q] : r \in P /\ SetValue(t, p, v)[r] # Null
    <2> TAKE q \in P
    <2> TAKE r \in Above[q]
    <2>1. r \in DOMAIN g /\ g[r] # Null
      BY <1>1, TreeParts
    <2>2. r \notin Below(t, p)
      BY <1>1, PathAssumption, TreeParts DEF Below
    <2> QED  BY <2>1, <2>2, PathAssumption DEF SetValue, g
  <1> QED  BY <1>2, <1>3, TreeMade

LEMMA ExpandTree ==
  ASSUME NEW t \in Tree, NEW p \in Path, NEW m \in Maps(p)
  PROVE  ExpandMap(t, p, m) \in Tree
  <1> DEFINE g == Grown(t, p)
             P == DOMAIN g \cup DOMAIN m
  <1>1. /\ g \in Tree /\ DOMAIN g = DOMAIN t \cup Above[p] \cup {p} /\ g[p] # Null
    BY GrownTree
  <1>2. /\ \A q \in DOMAIN m : m[q] \in Value
        /\ \A q \in DOMAIN m : q \in Path /\ Above[q] = Above[p] \cup {p}
    BY DEF Maps, Children
  <1> HIDE DEF g
  <1>3. P \in SUBSET Path /\ ExpandMap(t, p, m) \in [P -> Value \cup {Unset, Null}]
    BY <1>1, <1>2, TreeParts DEF ExpandMap, g
  <1>4. \A q \in P : \A r \in Above[q] : r \in P /\ ExpandMap(t, p, m)[r] # Null
    <2> TAKE q \in P
    <2> TAKE r \in Above[q]
    <2>1. r \in DOMAIN g /\ g[r] # Null
      BY <1>1, <1>2, TreeParts
    <2> QED  BY <2>1, <1>2, PathAssumption DEF ExpandMap, g
  <1> QED  BY <1>3, <1>4, TreeMade

LEMMA ErasedTree ==
  ASSUME NEW t \in Tree, NEW p \in Path
  PROVE  Erased(t, p) \in Tree
  <1> DEFINE P == DOMAIN t \ (Below(t, p) \cup {p})
  <1>1. P \in SUBSET Path /\ Erased(t, p) \in [P -> Value \cup {Unset, Null}]
    BY TreeParts DEF Erased
  <1>2. \A q \in P : \A r \in Above[q] : r \in P /\ Erased(t, p)[r] # Null
    BY TreeParts, PathAssumption DEF Erased, Below
  <1> QED  BY <1>1, <1>2, TreeMade

LEMMA UploadTree ==
  ASSUME NEW t \in Tree
  PROVE  UploadParameters(GetAllParameters(t)) \in Tree
  <1> DEFINE all == GetAllParameters(t)
             P == DOMAIN all \cup UNION {Above[p] : p \in DOMAIN all}
  <1>1. /\ DOMAIN all \subseteq DOMAIN t
        /\ \A q \in DOMAIN all : all[q] \in Value \cup {Unset}
    BY TreeParts DEF GetAllParameters, Leaf, Alive
  <1> HIDE DEF all
  <1>2. P \in SUBSET Path
    BY <1>1, TreeParts, PathAssumption
  <1>3. UploadParameters(all) \in [P -> Value \cup {Unset, Null}]
    BY <1>1 DEF UploadParameters
  <1>4. \A q \in P : \A r \in Above[q] : r \in P /\ UploadParameters(all)[r] # Null
    BY <1>1, <1>2, TreeParts, PathAssumption DEF UploadParameters
  <1> QED  BY <1>2, <1>3, <1>4, TreeMade DEF all

LEMMA Operations ==
  ASSUME NEW op \in Operation
  PROVE  \/ op[1] = "delete" /\ op[2] \in Path
         \/ op[1] # "delete" /\ \E p \in Path : op \in Changes(p)
  BY DEF Operation, Changes

LEMMA ChangeTree ==
  ASSUME NEW t \in Tree, NEW p \in Path, NEW op \in Changes(p)
  PROVE  SetParameter(t, op) \in Tree /\ op \in Operation
  <1>1. op \in Operation
    BY DEF Operation
  <1>2. CASE \E v \in Sets[p] : op = <<"set", p, v>>
    <2>1. PICK v \in Sets[p] : op = <<"set", p, v>>
      BY <1>2
    <2>2. v \in Value
      BY PathAssumption
    <2> QED  BY <1>1, <2>1, <2>2, SetTree DEF SetParameter
  <1>3. CASE \E m \in Maps(p) : op = <<"map", p, m>>
    <2>1. PICK m \in Maps(p) : op = <<"map", p, m>>
      BY <1>3
    <2> QED  BY <1>1, <2>1, ExpandTree DEF SetParameter
  <1> QED  BY <1>2, <1>3 DEF Changes

----------------------------------------------------------------------------
(* Types.                                                                  *)

LEMMA UpdatesType ==
  ASSUME TypeOK, NEW p \in Path, NEW op \in Changes(p), NEW src, Updates(op, src)
  PROVE  /\ tree' \in [Server -> Tree] /\ up' \subseteq Server /\ deleting' \in [Source -> Deletion]
         /\ joined' \cup unsure' \subseteq StageZero
  <1>1. \A s \in Server : SetParameter(tree[s], op) \in Tree
    BY ChangeTree DEF TypeOK
  <1> QED  BY <1>1 DEF TypeOK, Updates, Propagated

LEMMA DeletesType ==
  ASSUME TypeOK, NEW p \in Path, NEW src \in Source, Deletes(p, src)
  PROVE  /\ tree' \in [Server -> Tree] /\ up' \subseteq Server /\ deleting' \in [Source -> Deletion]
         /\ unsure' \subseteq StageZero
  <1>1. Erased(tree[Capcom], p) \in Tree /\ Capcom \in Server
    BY ErasedTree DEF TypeOK, Server
  <1>2. [path |-> p, left |-> StageZero] \in Deletion
    BY DEF Deletion
  <1> QED  BY <1>1, <1>2 DEF TypeOK, Deletes

LEMMA AsksType ==
  ASSUME TypeOK, Asks
  PROVE  requests' \in 0..MaxRequests
  BY PathAssumption DEF TypeOK, Asks

LEMMA ClientsType ==
  ASSUME TypeOK, NEW c \in Client,
         \/ HandleSetParameter(c) \/ HandleDeleteParameters(c) \/ HandleDeletePart(c)
         \/ HandleClear(c) \/ HandleGetParameters(c) \/ HandleUploadParameters(c)
  PROVE  TypeOK'
  <1>0. Capcom \in Server /\ c \in Source
    BY DEF Server, Source
  <1>1. CASE HandleSetParameter(c)
    BY <1>1, UpdatesType, AsksType DEF HandleSetParameter, TypeOK
  <1>2. CASE HandleDeleteParameters(c)
    BY <1>0, <1>2, DeletesType, AsksType DEF HandleDeleteParameters, TypeOK
  <1>3. CASE HandleDeletePart(c)
    BY <1>0, <1>3, ErasedTree, AsksType DEF HandleDeletePart, TypeOK
  <1>4. CASE HandleClear(c)
    <2>1. [path |-> "all", left |-> StageZero] \in Deletion
      BY DEF Deletion
    <2> QED  BY <1>0, <1>4, <2>1, EmptyTree, AsksType DEF HandleClear, TypeOK
  <1>5. CASE HandleGetParameters(c)
    BY <1>0, <1>5, LookupTree, AsksType DEF HandleGetParameters, TypeOK
  <1>6. CASE HandleUploadParameters(c)
    <2>1. \A p \in Path : \A v \in Sets[p] : SetValue(tree[Capcom], p, v) \in Tree
      BY <1>0, SetTree, PathAssumption DEF TypeOK
    <2> QED  BY <1>0, <1>6, <2>1, AsksType DEF HandleUploadParameters, TypeOK
  <1> QED  BY <1>1, <1>2, <1>3, <1>4, <1>5, <1>6

LEMMA PropagationType ==
  ASSUME TypeOK, NEW c \in Source, PropagateDelete(c)
  PROVE  TypeOK'
  <1>1. PICK s \in StageZero : PropagateTo(s, c)
    BY DEF PropagateDelete
  <1> DEFINE d == deleting[c]
  <1>2. s \in Server /\ d \in Deletion /\ s \in d.left
    BY <1>1 DEF PropagateTo, TypeOK, Server
  <1>3. d \in [path : Path \cup {"all"}, left : SUBSET StageZero]
    BY <1>2 DEF Deletion, NoDelete
  <1>4. [path |-> d.path, left |-> d.left \ {s}] \in Deletion /\ NoDelete \in Deletion
    BY <1>3 DEF Deletion
  <1>5. deleting' \in [Source -> Deletion]
    BY <1>1, <1>4 DEF PropagateTo, TypeOK
  <1>6. d.path # "all" => Erased(tree[s], d.path) \in Tree
    BY <1>2, <1>3, ErasedTree DEF TypeOK
  <1>7. tree' \in [Server -> Tree] /\ up' \subseteq Server
    BY <1>1, <1>2, <1>6, EmptyTree DEF PropagateTo, TypeOK
  <1> QED  BY <1>1, <1>5, <1>7 DEF PropagateTo, TypeOK

LEMMA ServersType ==
  ASSUME TypeOK, NEW s \in StageZero,
         \/ ConnectUmbilical(s) \/ DisconnectUmbilical(s) \/ HandleParameterEvent(s)
         \/ ProcessSets(s) \/ ProcessDeletes(s) \/ ProcessReads(s)
  PROVE  TypeOK'
  <1>0. s \in Server /\ s \in Source /\ Capcom \in Server
    BY DEF Server, Source
  <1>1. CASE ConnectUmbilical(s)
    BY <1>0, <1>1, UploadTree DEF ConnectUmbilical, TypeOK
  <1>2. CASE DisconnectUmbilical(s)
    BY <1>0, <1>2 DEF DisconnectUmbilical, TypeOK
  <1>3. CASE HandleParameterEvent(s)
    <2>1. events' \in [StageZero -> Seq(Operation)] /\ requests' \in 0..MaxRequests
      BY <1>3 DEF HandleParameterEvent, TypeOK
    <2>2. Head(events[s]) \in Operation
      BY <1>3 DEF HandleParameterEvent, TypeOK
    <2>3. CASE Head(events[s])[1] = "delete"
      <3>1. Deletes(Head(events[s])[2], s) /\ UNCHANGED joined
        BY <1>3, <2>3 DEF HandleParameterEvent
      <3>2. Head(events[s])[2] \in Path
        BY <2>2, <2>3, Operations
      <3> QED  BY <1>0, <2>1, <3>1, <3>2, DeletesType DEF TypeOK
    <2>4. CASE Head(events[s])[1] # "delete"
      <3>1. Updates(Head(events[s]), s)
        BY <1>3, <2>4 DEF HandleParameterEvent
      <3>2. \E p \in Path : Head(events[s]) \in Changes(p)
        BY <2>2, <2>4, Operations
      <3> QED  BY <2>1, <3>1, <3>2, UpdatesType DEF TypeOK
    <2> QED  BY <2>3, <2>4
  <1>4. CASE ProcessSets(s)
    <2>1. PICK p \in Path : \E op \in Changes(p) : ServesSet(s, op)
      BY <1>4 DEF ProcessSets
    <2>0. PICK op \in Changes(p) : ServesSet(s, op)
      BY <2>1
    <2>2. SetParameter(tree[s], op) \in Tree /\ op \in Operation
      BY <1>0, ChangeTree DEF TypeOK
    <2>3. events' \in [StageZero -> Seq(Operation)]
      BY <2>0, <2>2 DEF ServesSet, Tells, TypeOK
    <2> QED  BY <1>0, <1>4, <2>0, <2>2, <2>3, AsksType DEF ProcessSets, ServesSet, TypeOK
  <1>5. CASE ProcessDeletes(s)
    <2>1. PICK p \in Path : ServesDelete(s, p)
      BY <1>5 DEF ProcessDeletes
    <2>2. Erased(tree[s], p) \in Tree /\ <<"delete", p>> \in Operation
      BY <1>0, ErasedTree DEF TypeOK, Operation
    <2>3. events' \in [StageZero -> Seq(Operation)]
      <3>1. events' = events \/ events' = [events EXCEPT ![s] = Append(@, <<"delete", p>>)]
        BY <2>1 DEF ServesDelete, Tells
      <3>2. events[s] \in Seq(Operation)
        BY DEF TypeOK
      <3>3. Append(events[s], <<"delete", p>>) \in Seq(Operation)
        BY <2>2, <3>2
      <3> QED  BY <3>1, <3>3 DEF TypeOK
    <2> QED  BY <1>0, <1>5, <2>1, <2>2, <2>3, AsksType DEF ProcessDeletes, ServesDelete, TypeOK
  <1>6. CASE ProcessReads(s)
    BY <1>0, <1>6, LookupTree, AsksType DEF ProcessReads, ServesGet, TypeOK
  <1> QED  BY <1>1, <1>2, <1>3, <1>4, <1>5, <1>6

\* Whatever clients and processes set, delete, read and upload, and whenever
\* computes come and go, the nodes of every server form a tree.
THEOREM TypeCorrect == Spec => []TypeOK
  <1>1. Init => TypeOK
    BY EmptyTree, PathAssumption DEF Init, TypeOK, Deletion, NoDelete
  <1>2. TypeOK /\ [Next]_vars => TypeOK'
    BY ClientsType, PropagationType, ServersType DEF Next, TypeOK, vars
  <1> QED  BY <1>1, <1>2, PTL DEF Spec

----------------------------------------------------------------------------
(* Searches.                                                               *)

LEMMA LookupKeepsAlive ==
  ASSUME NEW t, NEW p, NEW q
  PROVE  Alive(Lookup(t, p), q) <=> Alive(t, q)
  BY DEF Alive, Lookup

LEMMA LookupKeepsFound ==
  ASSUME NEW t, NEW p, NEW q
  PROVE  Found(Lookup(t, p), q) <=> Found(t, q)
  BY LookupKeepsAlive DEF Found

\* A search adds null pointers to the tree of one server.
LEMMA SearchKeepsAnswers ==
  ASSUME TypeOK, NEW s \in Server, NEW p \in Path,
         tree' = [tree EXCEPT ![s] = Lookup(@, p)]
  PROVE  \A r \in Server, q \in Path : Found(tree'[r], q) <=> Found(tree[r], q)
  <1> TAKE r \in Server, q \in Path
  <1>1. CASE r = s
    <2>1. tree'[r] = Lookup(tree[r], p)
      BY <1>1 DEF TypeOK
    <2> QED  BY <2>1, LookupKeepsFound
  <1>2. CASE r # s
    BY <1>2 DEF TypeOK
  <1> QED  BY <1>1, <1>2

\* No get of a client and no read of a process changes what a later search of
\* any name finds in any server (Capcom::GetParameters, ParameterServer).
THEOREM ReadsKeep == Spec => ReadsKeepAnswers
  <1> DEFINE Keeps == \A s \in Server, p \in Path : Found(tree'[s], p) <=> Found(tree[s], p)
  <1>1. ASSUME TypeOK, NEW c \in Client, HandleGetParameters(c)
        PROVE  Keeps
    <2>1. CASE UNCHANGED tree
      BY <2>1
    <2>2. CASE \E p \in Path : tree' = [tree EXCEPT ![Capcom] = Lookup(@, p)]
      BY <2>2, <1>1, SearchKeepsAnswers DEF Server
    <2> QED  BY <1>1, <2>1, <2>2 DEF HandleGetParameters
  <1>2. ASSUME TypeOK, NEW s \in StageZero, ProcessReads(s)
        PROVE  Keeps
    <2>1. CASE UNCHANGED tree
      BY <2>1
    <2>2. CASE \E p \in Path : tree' = [tree EXCEPT ![s] = Lookup(@, p)]
      BY <2>2, <1>2, SearchKeepsAnswers DEF Server
    <2> QED  BY <1>2, <2>1, <2>2 DEF ProcessReads, ServesGet
  <1>3. TypeOK => [(\E c \in Client : HandleGetParameters(c))
                       \/ (\E s \in StageZero : ProcessReads(s)) => Keeps]_vars
    BY <1>1, <1>2
  <1> QED  BY <1>3, TypeCorrect, PTL DEF ReadsKeepAnswers

----------------------------------------------------------------------------
(* What kills a server.                                                    *)

\* A server dies in a deletion, in a read, or when it sends all it has, and
\* only when its tree holds a null pointer or a node that lost its children
\* and has no value.
THEOREM OnlyGapsKill == Spec => DiesOfGaps
  <1> DEFINE Gap(s) == \E p \in DOMAIN tree[s] : tree[s][p] = Null \/ Blank(tree[s], p)
             Dead == up \ up'
  <1>1. ASSUME NEW s, NEW p, DeleteCrashes(tree[s], p)
        PROVE  Gap(s)
    BY <1>1 DEF DeleteCrashes
  <1>2. ASSUME NEW s, NEW p, GetCrashes(tree[s], p) \/ GetThrows(tree[s], p)
        PROVE  Gap(s)
    BY <1>2 DEF GetCrashes, GetThrows, Below, Blank, Leaf, Alive
  <1>3. ASSUME NEW p, NEW c, Deletes(p, c), NEW s \in Dead
        PROVE  Gap(s)
    BY <1>3, <1>1 DEF Deletes
  <1>4. ASSUME NEW c \in Source, PropagateDelete(c), NEW s \in Dead
        PROVE  Gap(s)
    BY <1>4, <1>1 DEF PropagateDelete, PropagateTo
  <1>5. ASSUME NEW c, HandleGetParameters(c), NEW s \in Dead
        PROVE  Gap(s)
    BY <1>5, <1>2 DEF HandleGetParameters
  <1>6. ASSUME NEW z, ProcessDeletes(z) \/ ProcessReads(z), NEW s \in Dead
        PROVE  Gap(s)
    BY <1>6, <1>1, <1>2 DEF ProcessDeletes, ServesDelete, ProcessReads, ServesGet
  <1>7. ASSUME NEW z, ConnectUmbilical(z), NEW s \in Dead
        PROVE  Gap(s)
    BY <1>7 DEF ConnectUmbilical, Blank, Leaf, Alive
  <1>8. ASSUME Next, NEW s \in Dead
        PROVE  Gap(s)
    BY <1>3, <1>4, <1>5, <1>6, <1>7, <1>8 DEF Next, HandleSetParameter, HandleDeleteParameters,
       HandleDeletePart, HandleClear, HandleUploadParameters,
       DisconnectUmbilical, HandleParameterEvent, Updates, ProcessSets, ServesSet
  <1>9. [Next]_vars => [\A s \in Server : s \in Dead => Gap(s)]_vars
    BY <1>8
  <1> QED  BY <1>9, PTL DEF Spec, DiesOfGaps

----------------------------------------------------------------------------
(* The copies.  What a tree says of one name is a value, Unset for a node  *)
(* that nobody gave one, or Null for no node.  An operation writes it,     *)
(* erases it, or makes sure that there is a node.                          *)

At(t, q) == IF Alive(t, q) THEN t[q] ELSE Null

Writes(op, q) ==
    \/ op[1] = "set" /\ q = op[2]
    \/ op[1] = "map" /\ q \in DOMAIN op[3]
Erases(op, q) ==
    \/ op[1] = "delete" /\ q = op[2]
    \/ op[1] \in {"set", "delete"} /\ op[2] \in Above[q]
Holds(op, q) ==
    \/ op[1] \in {"set", "map"} /\ q \in Above[op[2]]
    \/ op[1] = "map" /\ q = op[2]

\* What op makes of x.
Applied(op, q, x) ==
    IF Writes(op, q) THEN IF op[1] = "set" THEN op[3] ELSE op[3][q]
    ELSE IF Erases(op, q) THEN Null
    ELSE IF Holds(op, q) /\ x = Null THEN Unset
    ELSE x

\* What op, an event that Capcom has still to handle, has to do with it that
\* a compute says x of q and Capcom y: the compute has the value op wrote;
\* or op erased q, and at most a node without a value is there again; or op
\* made such a node, and Capcom has none.
Accounts(op, q, x, y) ==
    \/ Writes(op, q) /\ x = Applied(op, q, Null) /\ x # Null
    \/ Erases(op, q) /\ (x = Null \/ (x = Unset /\ y # Null))
    \/ Holds(op, q) /\ x = Unset /\ y = Null

\* The two say the same, or an event accounts for it that no later one
\* overrides.
Explained(L, q, x, y) ==
    \/ x = y
    \/ \E k \in DOMAIN L :
        /\ Accounts(L[k], q, x, y)
        /\ \A j \in DOMAIN L : j > k => ~Writes(L[j], q) /\ ~Erases(L[j], q)

\* A deletion of q is on its way to s.
Doomed(s, q) ==
    \E c \in Source :
        /\ s \in deleting[c].left
        /\ deleting[c].path = "all" \/ Erases(<<"delete", deleting[c].path>>, q)

Explains(s) ==
    \A q \in Path :
        /\ Doomed(s, q) => At(tree[Capcom], q) = Null
        /\ ~Doomed(s, q) => Explained(events[s], q, At(tree[s], q), At(tree[Capcom], q))

\* One deletion at a time, or there is no telling what the computes have.
OneByOne == joined \subseteq unsure \/ \A c, d \in Deleting : c = d

Copied ==
    /\ \A s \in StageZero \ joined : events[s] = <<>>
    /\ OneByOne
    /\ Capcom \in up => \A s \in Reached \ unsure : Explains(s)

LEMMA FoundAt ==
  ASSUME NEW t \in Tree, NEW q \in Path
  PROVE  /\ Found(t, q) <=> At(t, q) # Null
         /\ Found(t, q) => At(t, q) = t[q]
  BY TreeParts DEF Found, At, Alive

LEMMA LookupAt ==
  ASSUME NEW t, NEW p, NEW q
  PROVE  At(Lookup(t, p), q) = At(t, q)
  BY DEF At, Alive, Lookup

LEMMA GrownAt ==
  ASSUME NEW t \in Tree, NEW p \in Path, NEW q \in Path
  PROVE  At(Grown(t, p), q) = IF q \in Above[p] \cup {p} /\ At(t, q) = Null THEN Unset ELSE At(t, q)
  <1>1. DOMAIN Grown(t, p) = DOMAIN t \cup Above[p] \cup {p}
    BY GrownTree
  <1> QED  BY <1>1, PathAssumption DEF At, Alive, Grown

LEMMA ErasedAt ==
  ASSUME NEW t \in Tree, NEW p \in Path, NEW q \in Path
  PROVE  At(Erased(t, p), q) = Applied(<<"delete", p>>, q, At(t, q))
  <1> DEFINE op == <<"delete", p>>
  <1>1. ~Writes(op, q) /\ ~Holds(op, q) /\ (Erases(op, q) <=> q = p \/ p \in Above[q])
    BY DEF Writes, Holds, Erases
  <1>2. At(Erased(t, p), q) = IF q = p \/ p \in Above[q] THEN Null ELSE At(t, q)
    BY DEF At, Alive, Erased, Below
  <1> QED  BY <1>1, <1>2 DEF Applied

LEMMA SetAt ==
  ASSUME NEW t \in Tree, NEW p \in Path, NEW op \in Changes(p), NEW q \in Path
  PROVE  At(SetParameter(t, op), q) = Applied(op, q, At(t, q))
  <1> DEFINE g == Grown(t, p)
  <1>1. /\ DOMAIN g = DOMAIN t \cup Above[p] \cup {p}
        /\ At(g, q) = IF q \in Above[p] \cup {p} /\ At(t, q) = Null THEN Unset ELSE At(t, q)
    BY GrownTree, GrownAt
  <1>2. CASE \E v \in Sets[p] : op = <<"set", p, v>>
    <2>1. PICK v \in Sets[p] : op = <<"set", p, v>>
      BY <1>2
    <2>2. v \in Value /\ v # Null
      BY PathAssumption
    <2>3. /\ Writes(op, q) <=> q = p
          /\ Erases(op, q) <=> p \in Above[q]
          /\ Holds(op, q) <=> q \in Above[p]
          /\ op[1] = "set" /\ op[3] = v
      BY <2>1 DEF Writes, Erases, Holds
    <2>4. SetParameter(t, op) = SetValue(t, p, v)
      BY <2>1 DEF SetParameter
    <2>5. /\ DOMAIN SetValue(t, p, v) = DOMAIN g \ Below(t, p)
          /\ \A r \in DOMAIN SetValue(t, p, v) :
                SetValue(t, p, v)[r] = IF r = p THEN v ELSE g[r]
      BY DEF SetValue
    <2>6. p \in DOMAIN SetValue(t, p, v)
      BY <1>1, <2>5, PathAssumption DEF Below
    <2>7. CASE q = p
      BY <2>2, <2>3, <2>4, <2>5, <2>6, <2>7 DEF At, Alive, Applied
    <2>8. CASE q # p /\ p \in Above[q]
      <3>1. q \notin Above[p]
        BY <2>8, PathAssumption
      <3>2. q \notin DOMAIN SetValue(t, p, v)
        BY <1>1, <2>5, <2>8, <3>1 DEF Below
      <3> QED  BY <2>3, <2>4, <2>8, <3>2 DEF At, Alive, Applied
    <2>9. CASE q # p /\ p \notin Above[q]
      <3>1. At(SetParameter(t, op), q) = At(g, q)
        BY <2>4, <2>5, <2>9 DEF At, Alive, Below
      <3> HIDE DEF g
      <3> QED  BY <1>1, <2>3, <2>9, <3>1 DEF Applied
    <2> QED  BY <2>7, <2>8, <2>9
  <1>3. CASE \E m \in Maps(p) : op = <<"map", p, m>>
    <2>1. PICK m \in Maps(p) : op = <<"map", p, m>>
      BY <1>3
    <2>2. /\ \A r \in DOMAIN m : m[r] \in Value /\ m[r] # Null
          /\ \A r \in DOMAIN m : r \in Path /\ Above[r] = Above[p] \cup {p}
      BY PathAssumption DEF Maps, Children
    <2>3. /\ Writes(op, q) <=> q \in DOMAIN m
          /\ ~Erases(op, q)
          /\ Holds(op, q) <=> q \in Above[p] \cup {p}
          /\ op[1] # "set" /\ op[3] = m
      BY <2>1 DEF Writes, Erases, Holds
    <2>4. SetParameter(t, op) = ExpandMap(t, p, m)
      BY <2>1 DEF SetParameter
    <2>5. /\ DOMAIN ExpandMap(t, p, m) = DOMAIN g \cup DOMAIN m
          /\ \A r \in DOMAIN g \cup DOMAIN m :
                ExpandMap(t, p, m)[r] = IF r \in DOMAIN m THEN m[r] ELSE g[r]
      BY DEF ExpandMap
    <2>6. CASE q \in DOMAIN m
      BY <2>2, <2>3, <2>4, <2>5, <2>6 DEF At, Alive, Applied
    <2>7. CASE q \notin DOMAIN m
      <3>1. At(SetParameter(t, op), q) = At(g, q)
        BY <2>4, <2>5, <2>7 DEF At, Alive
      <3> HIDE DEF g
      <3> QED  BY <1>1, <2>3, <2>7, <3>1 DEF Applied
    <2> QED  BY <2>6, <2>7
  <1> QED  BY <1>2, <1>3 DEF Changes

\* Who gets all parameters has the same tree, if nothing is left out.
LEMMA UploadAt ==
  ASSUME NEW t \in Tree, IsFiniteSet(Path), ~Omits(t), NEW q \in Path
  PROVE  At(UploadParameters(GetAllParameters(t)), q) = At(t, q)
  <1> DEFINE all == GetAllParameters(t)
             u == UploadParameters(all)
  <1>1. DOMAIN all = {r \in DOMAIN t : Leaf(t, r)} /\ \A r \in DOMAIN all : all[r] = t[r]
    BY DEF GetAllParameters
  <1>2. /\ DOMAIN u = DOMAIN all \cup UNION {Above[r] : r \in DOMAIN all}
        /\ \A r \in DOMAIN u : u[r] = IF r \in DOMAIN all THEN all[r] ELSE Unset
    BY DEF UploadParameters
  <1>0. SUFFICES At(u, q) = At(t, q)
    OBVIOUS
  <1> HIDE DEF all, u
  <1>3. CASE q \in DOMAIN all
    BY <1>1, <1>2, <1>3 DEF At, Alive, Leaf
  <1>4. CASE q \notin DOMAIN all /\ \E r \in DOMAIN all : q \in Above[r]
    <2>1. q \in DOMAIN u /\ u[q] = Unset
      BY <1>2, <1>4
    <2>2. Alive(t, q)
      BY <1>1, <1>4, TreeParts DEF Alive
    <2>3. Below(t, q) # {} /\ \E r \in Below(t, q) : t[r] # Null
      BY <1>1, <1>4 DEF Below, Leaf, Alive
    <2>4. t[q] = Unset
      BY <2>2, <2>3 DEF Omits, Alive
    <2> QED  BY <2>1, <2>2, <2>4, PathAssumption DEF At, Alive
  <1>5. CASE q \notin DOMAIN all /\ ~\E r \in DOMAIN all : q \in Above[r]
    <2>1. q \notin DOMAIN u
      BY <1>2, <1>5
    <2>2. SUFFICES ASSUME Alive(t, q) PROVE FALSE
      BY <2>1 DEF At, Alive
    <2> DEFINE S == {z \in {q} \cup Below(t, q) : Alive(t, z)}
               N == {Cardinality(Below(t, r)) : r \in S}
    <2>3. \A r \in S : r \in Path /\ IsFiniteSet(Below(t, r)) /\ Cardinality(Below(t, r)) \in Nat
      <3> TAKE r \in S
      <3>1. Below(t, r) \subseteq Path /\ r \in Path
        BY TreeParts DEF Below
      <3>2. IsFiniteSet(Below(t, r))
        BY <3>1, FS_Subset
      <3> QED  BY <3>1, <3>2, FS_CardinalityType
    <2>4. N \in SUBSET Nat /\ N # {}
      BY <2>2, <2>3
    <2>5. \E m \in N : \A k \in N : m <= k
      <3> HIDE DEF N
      <3> QED  BY <2>4, Least
    <2>6. PICK r \in S : \A z \in S : Cardinality(Below(t, r)) <= Cardinality(Below(t, z))
      BY <2>5
    <2>7. r = q \/ q \in Above[r]
      BY <2>6 DEF Below
    <2>8. ASSUME NEW z \in Below(t, r), Alive(t, z) PROVE FALSE
      <3>2. z \in Path /\ z \in DOMAIN t /\ r \in Above[z] /\ Above[r] \subseteq Above[z]
        BY <2>8, TreeParts, PathAssumption DEF Below
      <3>3. z \in S
        BY <2>7, <2>8, <3>2 DEF Below
      <3>4. Below(t, z) \subseteq Below(t, r)
        BY <3>2, TreeParts, PathAssumption DEF Below
      <3>5. z \in Below(t, r) /\ z \notin Below(t, z)
        BY <2>8, <3>2, PathAssumption DEF Below
      <3>6. /\ IsFiniteSet(Below(t, r))
            /\ Cardinality(Below(t, r)) \in Nat /\ Cardinality(Below(t, z)) \in Nat
        BY <2>3, <2>6, <3>3
      <3>7. /\ Cardinality(Below(t, z)) <= Cardinality(Below(t, r))
            /\ Cardinality(Below(t, z)) = Cardinality(Below(t, r)) => Below(t, z) = Below(t, r)
        BY <3>4, <3>6, FS_Subset
      <3>8. Cardinality(Below(t, r)) <= Cardinality(Below(t, z))
        BY <2>6, <3>3
      <3>9. Cardinality(Below(t, z)) = Cardinality(Below(t, r))
        BY <3>6, <3>7, <3>8
      <3> QED  BY <3>5, <3>7, <3>9
    <2>9. Alive(t, r) /\ Below(t, r) = {}
      <3>1. Alive(t, r)
        BY <2>6
      <3>2. \A z \in Below(t, r) : t[z] = Null
        BY <2>8 DEF Alive, Below
      <3> QED  BY <3>1, <3>2 DEF Omits, Alive
    <2>10. r \in DOMAIN all
      BY <1>1, <2>9 DEF Leaf, Alive
    <2> QED  BY <1>5, <2>7, <2>10
  <1> QED  BY <1>3, <1>4, <1>5

----------------------------------------------------------------------------
(* One name: the operations keep what a compute says of it explained.      *)

LEMMA WrittenSet ==
  ASSUME NEW op \in Operation, NEW q, Writes(op, q)
  PROVE  Applied(op, q, Null) # Null
  <1>1. CASE op[1] = "set"
    <2>1. PICK p \in Path : op \in Changes(p)
      BY <1>1, Operations
    <2>2. op[3] \in Sets[p]
      BY <1>1, <2>1 DEF Changes
    <2> QED  BY <1>1, <2>2, PathAssumption DEF Applied
  <1>2. CASE op[1] # "set"
    <2>1. op[1] = "map" /\ q \in DOMAIN op[3]
      BY <1>2 DEF Writes
    <2>2. PICK p \in Path : op \in Changes(p)
      BY <2>1, Operations
    <2>3. op[3] \in Maps(p)
      BY <2>1, <2>2 DEF Changes
    <2>4. PICK C \in SUBSET Children(p) : op[3] \in [C -> Value]
      BY <2>3 DEF Maps
    <2>5. op[3][q] \in Value
      BY <2>1, <2>4
    <2> QED  BY <1>2, <2>5, PathAssumption DEF Applied
  <1> QED  BY <1>1, <1>2

\* A process of the compute makes the change, Capcom will hear of it.
LEMMA ExplainedHere ==
  ASSUME NEW L \in Seq(Operation), NEW q, NEW x, NEW y, Explained(L, q, x, y),
         NEW op \in Operation
  PROVE  Explained(Append(L, op), q, Applied(op, q, x), y)
  <1> DEFINE M == Append(L, op)
             n == Len(L) + 1
             z == Applied(op, q, x)
  <1>1. /\ Len(L) \in Nat /\ DOMAIN L = 1..Len(L) /\ DOMAIN M = 1..n
        /\ \A k \in DOMAIN L : M[k] = L[k] /\ k \in Int
        /\ M[n] = op /\ n \in DOMAIN M /\ n \in Nat
    <2>1. /\ M \in Seq(Operation) /\ Len(M) = n /\ M[n] = op
          /\ \A k \in 1..Len(L) : M[k] = L[k]
      BY AppendProperties
    <2>2. Len(L) \in Nat /\ DOMAIN L = 1..Len(L) /\ DOMAIN M = 1..Len(M)
      BY <2>1, LenProperties
    <2> HIDE DEF M
    <2> QED  BY <2>1, <2>2
  <1> HIDE DEF M
  <1>2. SUFFICES ASSUME z # y PROVE \E k \in DOMAIN M :
                    /\ Accounts(M[k], q, z, y)
                    /\ \A j \in DOMAIN M : j > k => ~Writes(M[j], q) /\ ~Erases(M[j], q)
    BY DEF Explained, M
  <1>3. Unset # Null
    BY PathAssumption
  <1>4. CASE Accounts(op, q, z, y)
    <2>1. \A j \in DOMAIN M : ~(j > n)
      BY <1>1
    <2> QED  BY <1>1, <1>4, <2>1
  <1>5. CASE ~Accounts(op, q, z, y)
    <2>1. ~Writes(op, q)
      <3>1. Writes(op, q) => z = Applied(op, q, Null) /\ z # Null
        BY WrittenSet DEF Applied
      <3> QED  BY <1>5, <3>1 DEF Accounts
    <2>2. ~Erases(op, q)
      BY <1>5, <2>1 DEF Accounts, Applied
    <2>3. z = IF Holds(op, q) /\ x = Null THEN Unset ELSE x
      BY <2>1, <2>2 DEF Applied
    <2>4. z # Unset \/ y # Null \/ ~Holds(op, q)
      BY <1>5 DEF Accounts
    <2> HIDE DEF z
    <2>5. x # y
      BY <1>2, <1>3, <2>3, <2>4
    <2>6. PICK k \in DOMAIN L :
            /\ Accounts(L[k], q, x, y)
            /\ \A j \in DOMAIN L : j > k => ~Writes(L[j], q) /\ ~Erases(L[j], q)
      BY <2>5 DEF Explained
    <2>7. Accounts(L[k], q, z, y)
      BY <1>3, <2>3, <2>4, <2>6 DEF Accounts
    <2>8. k \in DOMAIN M /\ M[k] = L[k]
      BY <1>1
    <2>9. ASSUME NEW j \in DOMAIN M, j > k
          PROVE  ~Writes(M[j], q) /\ ~Erases(M[j], q)
      <3>1. CASE j = n
        BY <1>1, <2>1, <2>2, <3>1
      <3>2. CASE j # n
        <4>1. j \in DOMAIN L
          BY <1>1, <3>2
        <4> QED  BY <1>1, <2>6, <2>9, <4>1
      <3> QED  BY <3>1, <3>2
    <2> QED  BY <2>7, <2>8, <2>9
  <1> QED  BY <1>4, <1>5

\* Capcom makes the change and so does the compute.
LEMMA ExplainedBoth ==
  ASSUME NEW L, NEW q, NEW x, NEW y, Explained(L, q, x, y), NEW op
  PROVE  Explained(L, q, Applied(op, q, x), Applied(op, q, y))
  <1>0. Unset # Null
    BY PathAssumption
  <1>1. CASE Writes(op, q) \/ Erases(op, q)
    <2>1. Applied(op, q, x) = Applied(op, q, y)
      BY <1>1 DEF Applied
    <2> QED  BY <2>1 DEF Explained
  <1>2. CASE ~Writes(op, q) /\ ~Erases(op, q) /\ Holds(op, q)
    <2>1. /\ Applied(op, q, x) = IF x = Null THEN Unset ELSE x
          /\ Applied(op, q, y) = IF y = Null THEN Unset ELSE y
      BY <1>2 DEF Applied
    <2> QED  BY <1>0, <2>1 DEF Explained, Accounts
  <1>3. CASE ~Writes(op, q) /\ ~Erases(op, q) /\ ~Holds(op, q)
    <2>1. Applied(op, q, x) = x /\ Applied(op, q, y) = y
      BY <1>3 DEF Applied
    <2> QED  BY <2>1
  <1> QED  BY <1>1, <1>2, <1>3

\* What remains of an explanation without the first event.
LEMMA ExplainedLater ==
  ASSUME NEW L \in Seq(Operation), L # <<>>, NEW q, NEW x, NEW y, Explained(L, q, x, y)
  PROVE  \/ Explained(Tail(L), q, x, y)
         \/ Accounts(Head(L), q, x, y)
  <1> DEFINE M == Tail(L)
             n == Len(L)
  <1>1. /\ n \in Nat \ {0} /\ DOMAIN L = 1..n /\ DOMAIN M = 1..n - 1 /\ Head(L) = L[1]
        /\ \A k \in 1..n - 1 : M[k] = L[k + 1]
    <2>1. M \in Seq(Operation) /\ Len(M) = n - 1 /\ \A k \in 1..Len(M) : M[k] = L[k + 1]
      BY HeadTailProperties
    <2>2. n \in Nat \ {0}
      BY EmptySeq
    <2>3. DOMAIN L = 1..n /\ DOMAIN M = 1..Len(M) /\ Head(L) = L[1]
      BY <2>1, LenProperties
    <2> HIDE DEF M, n
    <2> QED  BY <2>1, <2>2, <2>3
  <1> HIDE DEF M, n
  <1>2. SUFFICES ASSUME x # y, ~Accounts(L[1], q, x, y)
                 PROVE  Explained(M, q, x, y)
    BY <1>1 DEF Explained, M
  <1>3. PICK k \in DOMAIN L :
          /\ Accounts(L[k], q, x, y)
          /\ \A j \in DOMAIN L : j > k => ~Writes(L[j], q) /\ ~Erases(L[j], q)
    BY <1>2 DEF Explained
  <1>4. k # 1
    BY <1>2, <1>3
  <1>5. k - 1 \in DOMAIN M /\ M[k - 1] = L[k]
    <2>1. k - 1 \in 1..n - 1 /\ (k - 1) + 1 = k
      BY <1>1, <1>4
    <2>2. M[k - 1] = L[(k - 1) + 1]
      BY <1>1, <2>1
    <2> QED  BY <1>1, <2>1, <2>2
  <1>6. ASSUME NEW j \in DOMAIN M, j > k - 1
        PROVE  ~Writes(M[j], q) /\ ~Erases(M[j], q)
    <2>1. j + 1 \in DOMAIN L /\ j + 1 > k /\ M[j] = L[j + 1]
      BY <1>1, <1>6
    <2> QED  BY <1>3, <2>1
  <1> QED  BY <1>3, <1>5, <1>6 DEF Explained

\* Capcom handles an event that changes it and the compute.
LEMMA ExplainedHandled ==
  ASSUME NEW L \in Seq(Operation), L # <<>>, NEW q, NEW x, NEW y, Explained(L, q, x, y)
  PROVE  Explained(Tail(L), q, Applied(Head(L), q, x), Applied(Head(L), q, y))
  <1> DEFINE op == Head(L)
  <1> HIDE DEF op
  <1>1. CASE Explained(Tail(L), q, x, y)
    BY <1>1, ExplainedBoth
  <1>2. CASE Accounts(op, q, x, y)
    <2>1. CASE Writes(op, q) \/ Erases(op, q)
      <3>1. Applied(op, q, x) = Applied(op, q, y)
        BY <2>1 DEF Applied
      <3> QED  BY <3>1 DEF Explained, op
    <2>2. CASE ~Writes(op, q) /\ ~Erases(op, q)
      <3>1. Holds(op, q) /\ x = Unset /\ y = Null
        BY <1>2, <2>2 DEF Accounts
      <3>2. Applied(op, q, x) = Applied(op, q, y)
        BY <2>2, <3>1 DEF Applied
      <3> QED  BY <3>2 DEF Explained, op
    <2> QED  BY <2>1, <2>2
  <1> QED  BY <1>1, <1>2, ExplainedLater DEF op

\* Capcom handles the deletion of what it does not have.
LEMMA ExplainedGone ==
  ASSUME NEW L \in Seq(Operation), L # <<>>, NEW q, NEW x, NEW y, Explained(L, q, x, y),
         NEW p, Head(L) = <<"delete", p>>, Erases(Head(L), q) => y = Null
  PROVE  Explained(Tail(L), q, x, y)
  <1>1. ~Writes(Head(L), q) /\ ~Holds(Head(L), q)
    BY DEF Writes, Holds
  <1>2. CASE Accounts(Head(L), q, x, y)
    <2>1. x = Null /\ y = Null
      BY <1>1, <1>2 DEF Accounts
    <2> QED  BY <2>1 DEF Explained
  <1> QED  BY <1>2, ExplainedLater

----------------------------------------------------------------------------
(* The steps keep every copy explained.                                    *)

\* Nothing is said of a compute that Capcom has left behind.
LEMMA LeftBehind ==
  ASSUME joined' \subseteq unsure', \A s \in StageZero \ joined' : events'[s] = <<>>
  PROVE  Copied'
  BY DEF Copied, OneByOne, Reached

LEMMA NotDoomed ==
  ASSUME TypeOK, Deleting = {}, NEW s, NEW q
  PROVE  ~Doomed(s, q)
  <1>1. NoDelete.left = {}
    BY DEF NoDelete
  <1>2. \A c \in Source : deleting[c].left = {}
    BY <1>1 DEF Deleting
  <1> QED  BY <1>2 DEF Doomed

\* What is on its way stays so, and nothing changes in s or Capcom.
LEMMA StillExplained ==
  ASSUME NEW s, Explains(s), UNCHANGED deleting, events'[s] = events[s],
         \A q \in Path : /\ At(tree'[s], q) = At(tree[s], q)
                         /\ At(tree'[Capcom], q) = At(tree[Capcom], q)
  PROVE  Explains(s)'
  <1> SUFFICES ASSUME NEW q \in Path
               PROVE  /\ Doomed(s, q) => At(tree'[Capcom], q) = Null
                      /\ ~Doomed(s, q) =>
                            Explained(events'[s], q, At(tree'[s], q), At(tree'[Capcom], q))
    BY DEF Explains, Doomed
  <1> QED  BY DEF Explains

LEMMA UpdatesCopies ==
  ASSUME TypeOK, Copied, NEW p \in Path, NEW op \in Changes(p), NEW src \in Source,
         Updates(op, src), Capcom \in up,
         \A s \in StageZero : \/ events'[s] = events[s]
                              \/ events[s] # <<>> /\ op = Head(events[s]) /\ events'[s] = Tail(events[s])
  PROVE  Copied'
  <1>1. /\ tree' = Propagated(op, src) /\ UNCHANGED <<up, joined, deleting>>
        /\ unsure' = IF Deleting = {} THEN unsure ELSE unsure \cup joined
    BY DEF Updates
  <1>2. \A s \in StageZero \ joined' : events'[s] = <<>>
    BY <1>1 DEF Copied
  <1>3. CASE Deleting # {}
    BY <1>1, <1>2, <1>3, LeftBehind
  <1>4. CASE Deleting = {}
    <2>1. OneByOne'
      BY <1>1, <1>4 DEF Copied, OneByOne, Deleting
    <2>2. ASSUME NEW s \in Reached' \ unsure'
          PROVE  Explains(s)'
      <3>1. s \in Reached \ unsure /\ s \in StageZero /\ s \in Server /\ Capcom \in Server
        BY <1>1, <1>4, <2>2 DEF Reached, TypeOK, Server
      <3>2. Explains(s)
        BY <3>1 DEF Copied
      <3>3. tree'[s] = SetParameter(tree[s], op) /\ tree'[Capcom] = SetParameter(tree[Capcom], op)
        BY <1>1, <3>1 DEF Propagated
      <3>4. SUFFICES ASSUME NEW q \in Path
                     PROVE  /\ ~Doomed(s, q)'
                            /\ Explained(events'[s], q, At(tree'[s], q), At(tree'[Capcom], q))
        BY DEF Explains
      <3>5. ~Doomed(s, q) /\ ~Doomed(s, q)'
        BY <1>1, <1>4, NotDoomed DEF Doomed
      <3> DEFINE x == At(tree[s], q)
                 y == At(tree[Capcom], q)
      <3>6. Explained(events[s], q, x, y)
        BY <3>2, <3>5 DEF Explains
      <3>7. At(tree'[s], q) = Applied(op, q, x) /\ At(tree'[Capcom], q) = Applied(op, q, y)
        BY <3>1, <3>3, SetAt DEF TypeOK
      <3>8. events[s] \in Seq(Operation)
        BY <3>1 DEF TypeOK
      <3> HIDE DEF x, y
      <3>9. Explained(events[s], q, Applied(op, q, x), Applied(op, q, y))
        BY <3>6, ExplainedBoth
      <3>10. CASE events'[s] = events[s]
        BY <3>5, <3>7, <3>9, <3>10
      <3>11. CASE events[s] # <<>> /\ op = Head(events[s]) /\ events'[s] = Tail(events[s])
        <4>1. Explained(Tail(events[s]), q, Applied(op, q, x), Applied(op, q, y))
          BY <3>6, <3>8, <3>11, ExplainedHandled
        <4> QED  BY <3>5, <3>7, <3>11, <4>1
      <3> QED  BY <3>1, <3>10, <3>11
    <2> QED  BY <1>2, <2>1, <2>2 DEF Copied
  <1> QED  BY <1>3, <1>4

LEMMA DeletesCopies ==
  ASSUME TypeOK, Copied, NEW p \in Path, NEW src \in Source,
         Deletes(p, src), UNCHANGED joined, Capcom \in up,
         \A s \in StageZero : \/ events'[s] = events[s]
                              \/ /\ events[s] # <<>> /\ <<"delete", p>> = Head(events[s])
                                 /\ events'[s] = Tail(events[s])
  PROVE  Copied'
  <1> DEFINE op == <<"delete", p>>
  <1>1. Capcom \in Server /\ tree[Capcom] \in Tree
    BY DEF Server, TypeOK
  <1>2. \A s \in StageZero \ joined' : events'[s] = <<>>
    BY DEF Copied
  <1>3. ASSUME NEW s \in StageZero, NEW q \in Path,
               Explained(events[s], q, At(tree[s], q), At(tree[Capcom], q)),
               Erases(op, q) => At(tree[Capcom], q) = Null
        PROVE  Explained(events'[s], q, At(tree[s], q), At(tree[Capcom], q))
    <2>1. CASE events'[s] = events[s]
      BY <1>3, <2>1
    <2>2. CASE events[s] # <<>> /\ op = Head(events[s]) /\ events'[s] = Tail(events[s])
      <3>1. events[s] \in Seq(Operation)
        BY DEF TypeOK
      <3> QED  BY <1>3, <2>2, <3>1, ExplainedGone
    <2> QED  BY <2>1, <2>2
  <1>4. ASSUME NEW s \in StageZero, NEW q \in Path,
               Explained(events[s], q, At(tree[s], q), At(tree[Capcom], q)), ~Erases(op, q)
        PROVE  Explained(events'[s], q, At(tree[s], q), At(tree[Capcom], q))
    BY <1>3, <1>4
  <1>5. CASE DeleteCrashes(tree[Capcom], p) /\ up' = up \ {Capcom} /\ UNCHANGED <<deleting, unsure>>
    BY <1>2, <1>5 DEF Copied, OneByOne, Deleting
  <1>6. CASE /\ DeleteWorks(tree[Capcom], p)
             /\ tree' = [tree EXCEPT ![Capcom] = Erased(@, p)]
             /\ deleting' = [deleting EXCEPT ![src] = [path |-> p, left |-> StageZero]]
             /\ unsure' = IF Deleting = {} THEN unsure ELSE unsure \cup joined
             /\ UNCHANGED up
    <2>1. CASE Deleting # {}
      BY <1>2, <1>6, <2>1, LeftBehind
    <2>2. CASE Deleting = {}
      <3>1. deleting \in [Source -> Deletion] /\ \A c \in Source : deleting[c] = NoDelete
        BY <2>2 DEF TypeOK, Deleting
      <3>2. \A c \in Deleting' : c = src
        BY <1>6, <3>1 DEF Deleting
      <3>3. OneByOne'
        BY <3>2 DEF OneByOne
      <3>4. ASSUME NEW s \in Reached' \ unsure'
            PROVE  Explains(s)'
        <4>1. s \in Reached \ unsure /\ s \in StageZero /\ s # Capcom /\ s \in Server
          BY <1>6, <2>2, <3>4, PathAssumption DEF Reached, TypeOK, Server
        <4>2. tree'[s] = tree[s] /\ tree'[Capcom] = Erased(tree[Capcom], p)
          BY <1>1, <1>6, <4>1 DEF TypeOK
        <4>3. SUFFICES ASSUME NEW q \in Path
                       PROVE  /\ Doomed(s, q)' => At(tree'[Capcom], q) = Null
                              /\ ~Doomed(s, q)' =>
                                    Explained(events'[s], q, At(tree'[s], q), At(tree'[Capcom], q))
          BY DEF Explains
        <4>4. Doomed(s, q)' <=> Erases(op, q)
          <5>1. /\ \A c \in Source \ {src} : deleting'[c] = NoDelete
                /\ deleting'[src] = [path |-> p, left |-> StageZero]
            BY <1>6, <3>1
          <5>2. p # "all" /\ src \in Source
            BY PathAssumption
          <5>3. NoDelete.left = {}
            BY DEF NoDelete
          <5>4. /\ \A c \in Source \ {src} : s \notin deleting'[c].left
                /\ s \in deleting'[src].left /\ deleting'[src].path = p
            BY <4>1, <5>1, <5>3
          <5>5. Doomed(s, q)' <=> \E c \in Source :
                    /\ s \in deleting'[c].left
                    /\ deleting'[c].path = "all" \/ Erases(<<"delete", deleting'[c].path>>, q)
            BY DEF Doomed
          <5> QED  BY <5>2, <5>4, <5>5
        <4>5. Explained(events[s], q, At(tree[s], q), At(tree[Capcom], q))
          <5>1. ~Doomed(s, q)
            BY <2>2, NotDoomed
          <5> QED  BY <4>1, <5>1 DEF Copied, Explains
        <4>6. At(tree'[Capcom], q) = Applied(op, q, At(tree[Capcom], q))
          BY <1>1, <4>2, ErasedAt
        <4>7. CASE Erases(op, q)
          <5>1. ~Writes(op, q)
            BY DEF Writes
          <5> QED  BY <4>4, <4>6, <4>7, <5>1 DEF Applied
        <4>8. CASE ~Erases(op, q)
          <5>1. ~Writes(op, q) /\ ~Holds(op, q)
            BY DEF Writes, Holds
          <5>2. At(tree'[Capcom], q) = At(tree[Capcom], q)
            BY <4>6, <4>8, <5>1 DEF Applied
          <5>3. Explained(events'[s], q, At(tree[s], q), At(tree[Capcom], q))
            BY <1>4, <4>1, <4>5, <4>8
          <5> QED  BY <4>2, <4>4, <4>8, <5>2, <5>3
        <4> QED  BY <4>7, <4>8
      <3> QED  BY <1>2, <3>3, <3>4 DEF Copied
    <2> QED  BY <2>1, <2>2
  <1>7. CASE /\ ~DeleteCrashes(tree[Capcom], p) /\ ~DeleteWorks(tree[Capcom], p)
             /\ UNCHANGED <<tree, up, deleting, unsure>>
    <2>1. OneByOne'
      BY <1>7 DEF Copied, OneByOne, Deleting
    <2>2. \A q \in Path : Erases(op, q) => At(tree[Capcom], q) = Null
      <3>1. p \notin DOMAIN tree[Capcom]
        BY <1>1, <1>7, TreeParts DEF DeleteWorks, Alive
      <3>2. \A q \in DOMAIN tree[Capcom] : p \notin Above[q]
        BY <1>1, <3>1, TreeParts
      <3> QED  BY <3>1, <3>2 DEF Erases, At, Alive
    <2>3. ASSUME NEW s \in Reached' \ unsure'
          PROVE  Explains(s)'
      <3>1. s \in Reached \ unsure /\ s \in StageZero
        BY <1>7, <2>3 DEF Reached, TypeOK
      <3>2. Explains(s)
        BY <3>1 DEF Copied
      <3>3. SUFFICES ASSUME NEW q \in Path
                     PROVE  /\ Doomed(s, q)' => At(tree'[Capcom], q) = Null
                            /\ ~Doomed(s, q)' =>
                                  Explained(events'[s], q, At(tree'[s], q), At(tree'[Capcom], q))
        BY DEF Explains
      <3>4. Doomed(s, q)' <=> Doomed(s, q)
        BY <1>7 DEF Doomed
      <3>5. CASE Doomed(s, q)
        BY <1>7, <3>2, <3>4, <3>5 DEF Explains
      <3>6. CASE ~Doomed(s, q)
        <4>1. Explained(events[s], q, At(tree[s], q), At(tree[Capcom], q))
          BY <3>2, <3>6 DEF Explains
        <4>2. Explained(events'[s], q, At(tree[s], q), At(tree[Capcom], q))
          BY <1>3, <2>2, <3>1, <4>1
        <4> QED  BY <1>7, <3>4, <3>6, <4>2
      <3> QED  BY <3>5, <3>6
    <2> QED  BY <1>2, <2>1, <2>3 DEF Copied
  <1> QED  BY <1>5, <1>6, <1>7 DEF Deletes

LEMMA ClientsCopies ==
  ASSUME TypeOK, Copied, NEW c \in Client,
         \/ HandleSetParameter(c) \/ HandleDeleteParameters(c) \/ HandleDeletePart(c)
         \/ HandleClear(c) \/ HandleGetParameters(c) \/ HandleUploadParameters(c)
  PROVE  Copied'
  <1>0. c \in Source /\ Capcom \in Server /\ tree[Capcom] \in Tree
    BY DEF Source, Server, TypeOK
  <1>1. CASE HandleSetParameter(c)
    <2>1. Capcom \in up /\ events' = events /\ \E p \in Path : \E op \in Changes(p) : Updates(op, c)
      BY <1>1 DEF HandleSetParameter
    <2> QED  BY <1>0, <2>1, UpdatesCopies
  <1>2. CASE HandleDeleteParameters(c)
    <2>1. Capcom \in up /\ UNCHANGED <<joined, events>> /\ \E p \in Path : Deletes(p, c)
      BY <1>2 DEF HandleDeleteParameters
    <2> QED  BY <1>0, <2>1, DeletesCopies
  <1>3. CASE HandleDeletePart(c)
    BY <1>3, LeftBehind DEF HandleDeletePart, Copied
  <1>4. CASE HandleClear(c)
    <2>1. /\ tree' = [tree EXCEPT ![Capcom] = Empty]
          /\ deleting' = [deleting EXCEPT ![c] = [path |-> "all", left |-> StageZero]]
          /\ unsure' = IF Deleting = {} THEN unsure ELSE unsure \cup joined
          /\ UNCHANGED <<up, joined, events>>
      BY <1>4 DEF HandleClear
    <2>2. CASE Deleting # {}
      BY <2>1, <2>2, LeftBehind DEF Copied
    <2>3. CASE Deleting = {}
      <3>1. deleting \in [Source -> Deletion] /\ \A d \in Source : deleting[d] = NoDelete
        BY <2>3 DEF TypeOK, Deleting
      <3>2. \A d \in Deleting' : d = c
        BY <2>1, <3>1 DEF Deleting
      <3>3. OneByOne'
        BY <3>2 DEF OneByOne
      <3>4. ASSUME NEW s \in Reached' \ unsure'
            PROVE  Explains(s)'
        <4>1. s \in StageZero
          BY <2>1, <3>4 DEF Reached, TypeOK
        <4>2. SUFFICES ASSUME NEW q \in Path
                       PROVE  Doomed(s, q)' /\ At(tree'[Capcom], q) = Null
          BY DEF Explains
        <4>3. deleting'[c].path = "all" /\ s \in deleting'[c].left
          BY <1>0, <2>1, <3>1, <4>1
        <4>4. Doomed(s, q)'
          BY <1>0, <4>3 DEF Doomed
        <4>5. tree'[Capcom] = Empty
          BY <1>0, <2>1 DEF TypeOK
        <4> QED  BY <4>4, <4>5 DEF At, Alive, Empty
      <3> QED  BY <2>1, <3>3, <3>4 DEF Copied
    <2> QED  BY <2>2, <2>3
  <1>5. CASE HandleGetParameters(c)
    <2>1. UNCHANGED <<joined, events, deleting, unsure>>
      BY <1>5 DEF HandleGetParameters
    <2>2. OneByOne' /\ \A s \in StageZero \ joined' : events'[s] = <<>>
      BY <2>1 DEF Copied, OneByOne, Deleting
    <2>3. CASE up' = up \ {Capcom}
      BY <2>2, <2>3 DEF Copied
    <2>4. CASE \E p \in Path : tree' = [tree EXCEPT ![Capcom] = Lookup(@, p)] /\ UNCHANGED up
      <3>1. PICK p \in Path : tree' = [tree EXCEPT ![Capcom] = Lookup(@, p)]
        BY <2>4
      <3>2. Capcom \in up /\ UNCHANGED up
        BY <1>5, <2>4 DEF HandleGetParameters
      <3>3. ASSUME NEW s \in Reached' \ unsure'
            PROVE  Explains(s)'
        <4>1. s \in Reached \ unsure /\ s \in StageZero /\ s \in Server
          BY <2>1, <3>2, <3>3 DEF Reached, TypeOK, Server
        <4>2. \A q \in Path : /\ At(tree'[s], q) = At(tree[s], q)
                              /\ At(tree'[Capcom], q) = At(tree[Capcom], q)
          BY <1>0, <3>1, <4>1, LookupAt DEF TypeOK
        <4>3. Explains(s)
          BY <3>2, <4>1 DEF Copied
        <4> QED  BY <2>1, <4>2, <4>3, StillExplained
      <3> QED  BY <2>2, <3>3 DEF Copied
    <2> QED  BY <1>5, <2>3, <2>4 DEF HandleGetParameters
  <1>6. CASE HandleUploadParameters(c)
    BY <1>6, LeftBehind DEF HandleUploadParameters, Copied
  <1> QED  BY <1>1, <1>2, <1>3, <1>4, <1>5, <1>6

\* A deletion reaches s, or passes it by.
LEMMA PropagationCopies ==
  ASSUME TypeOK, Copied, NEW c \in Source, NEW s \in StageZero, PropagateTo(s, c)
  PROVE  Copied'
  <1> DEFINE d == deleting[c]
  <1>1. /\ s \in d.left /\ d \in Deletion /\ d # NoDelete /\ Capcom \in up
        /\ UNCHANGED <<joined, events, unsure>>
        /\ deleting' = [deleting EXCEPT ![c] =
              IF d.left = {s} THEN NoDelete ELSE [path |-> d.path, left |-> d.left \ {s}]]
    BY DEF PropagateTo, TypeOK, NoDelete
  <1>2. d.path \in Path \cup {"all"} /\ d.left \subseteq StageZero
    BY <1>1 DEF Deletion
  <1>3. c \in Deleting /\ Deleting' \subseteq Deleting
    BY <1>1 DEF Deleting, TypeOK
  <1>4. OneByOne'
    BY <1>1, <1>3 DEF Copied, OneByOne
  <1>5. deleting'[c].left = d.left \ {s} /\ (deleting'[c].left # {} => deleting'[c].path = d.path)
    <2>1. NoDelete.left = {}
      BY DEF NoDelete
    <2>2. deleting'[c] = IF d.left = {s} THEN NoDelete ELSE [path |-> d.path, left |-> d.left \ {s}]
      BY <1>1 DEF TypeOK
    <2> HIDE DEF d
    <2>3. CASE d.left = {s}
      BY <2>1, <2>2, <2>3
    <2>4. CASE d.left # {s}
      BY <2>2, <2>4
    <2> QED  BY <2>3, <2>4
  <1>6. \A b \in Source \ {c} : deleting'[b] = deleting[b]
    BY <1>1 DEF TypeOK
  <1>7. s \in Server /\ Capcom \in Server /\ s # Capcom /\ tree \in [Server -> Tree]
    BY PathAssumption DEF Server, TypeOK
  <1>8. \A r \in Server \ {s} : tree'[r] = tree[r]
    BY <1>7 DEF PropagateTo
  <1>9. ASSUME NEW r \in Reached' \ unsure'
        PROVE  Explains(r)'
    <2>1. r \in Reached \ unsure /\ r \in StageZero /\ r \in Server /\ r # Capcom
      BY <1>1, <1>9, PathAssumption DEF Reached, PropagateTo, TypeOK, Server
    <2>2. Explains(r)
      BY <1>1, <2>1 DEF Copied
    <2>3. SUFFICES ASSUME NEW q \in Path
                   PROVE  /\ Doomed(r, q)' => At(tree'[Capcom], q) = Null
                          /\ ~Doomed(r, q)' =>
                                Explained(events'[r], q, At(tree'[r], q), At(tree'[Capcom], q))
      BY DEF Explains
    <2>4. tree'[Capcom] = tree[Capcom]
      BY <1>7, <1>8
    <2>5. CASE r # s
      <3>1. \A b \in Source : r \in deleting'[b].left =>
                                  r \in deleting[b].left /\ deleting'[b].path = deleting[b].path
        BY <1>5, <1>6
      <3>2. \A b \in Source : r \in deleting[b].left =>
                                  r \in deleting'[b].left /\ deleting'[b].path = deleting[b].path
        BY <1>5, <1>6, <2>5
      <3>3. Doomed(r, q)' <=> Doomed(r, q)
        BY <3>1, <3>2 DEF Doomed
      <3> QED  BY <1>1, <1>8, <2>1, <2>2, <2>4, <2>5, <3>3 DEF Explains
    <2>6. CASE r = s
      <3>1. \A b \in Source : s \notin deleting'[b].left
        <4>1. \A a, b \in Deleting : a = b
          BY <2>1 DEF Copied, OneByOne, Reached
        <4>2. NoDelete.left = {}
          BY DEF NoDelete
        <4>3. \A b \in Source \ {c} : deleting[b].left = {}
          BY <1>3, <4>1, <4>2 DEF Deleting
        <4> QED  BY <1>5, <1>6, <4>3
      <3>2. ~Doomed(r, q)'
        BY <2>6, <3>1 DEF Doomed
      <3>3. CASE d.path = "all" \/ Erases(<<"delete", d.path>>, q)
        <4>1. At(tree[Capcom], q) = Null
          <5>1. Doomed(s, q)
            BY <1>1, <3>3 DEF Doomed
          <5> QED  BY <2>2, <2>6, <5>1 DEF Explains
        <4>2. At(tree'[s], q) = Null
          <5>1. s \in Reached /\ s \in up'
            BY <1>9, <2>1, <2>6 DEF Reached
          <5>2. CASE d.path = "all"
            <6>1. tree'[s] = Empty
              BY <1>7, <5>1, <5>2 DEF PropagateTo
            <6> QED  BY <6>1 DEF At, Alive, Empty
          <5>3. CASE d.path # "all"
            <6>1. d.path \in Path /\ Erases(<<"delete", d.path>>, q)
              BY <1>2, <3>3, <5>3
            <6>2. CASE DeleteWorks(tree[s], d.path) /\ tree' = [tree EXCEPT ![s] = Erased(@, d.path)]
              <7>1. At(tree'[s], q) = Applied(<<"delete", d.path>>, q, At(tree[s], q))
                BY <1>7, <6>1, <6>2, ErasedAt
              <7>2. ~Writes(<<"delete", d.path>>, q)
                BY DEF Writes
              <7> QED  BY <6>1, <7>1, <7>2 DEF Applied
            <6>3. CASE ~DeleteWorks(tree[s], d.path) /\ tree' = tree
              <7>1. d.path \notin DOMAIN tree[s]
                BY <1>7, <6>3, TreeParts DEF DeleteWorks, Alive
              <7>2. \A z \in DOMAIN tree[s] : d.path \notin Above[z]
                BY <1>7, <7>1, TreeParts
              <7>3. q = d.path \/ d.path \in Above[q]
                BY <6>1 DEF Erases
              <7> QED  BY <6>3, <7>1, <7>2, <7>3 DEF At, Alive
            <6>4. ~DeleteCrashes(tree[s], d.path) \/ up' # up \ {s}
              BY <5>1
            <6> QED  BY <5>1, <5>3, <6>2, <6>3, <6>4 DEF PropagateTo
          <5> QED  BY <5>2, <5>3
        <4> QED  BY <2>4, <2>6, <3>2, <4>1, <4>2 DEF Explained
      <3>4. CASE ~(d.path = "all" \/ Erases(<<"delete", d.path>>, q))
        <4>1. ~Doomed(s, q)
          <5>1. \A a, b \in Deleting : a = b
            BY <2>1 DEF Copied, OneByOne, Reached
          <5>2. NoDelete.left = {}
            BY DEF NoDelete
          <5>3. \A b \in Source \ {c} : deleting[b].left = {}
            BY <1>3, <5>1, <5>2 DEF Deleting
          <5> QED  BY <3>4, <5>3 DEF Doomed
        <4>2. Explained(events[s], q, At(tree[s], q), At(tree[Capcom], q))
          BY <2>2, <2>6, <4>1 DEF Explains
        <4>3. At(tree'[s], q) = At(tree[s], q)
          <5>1. CASE tree' = tree
            BY <5>1
          <5>2. CASE d.path # "all" /\ tree' = [tree EXCEPT ![s] = Erased(@, d.path)]
            <6>1. d.path \in Path
              BY <1>2, <5>2
            <6>2. At(tree'[s], q) = Applied(<<"delete", d.path>>, q, At(tree[s], q))
              BY <1>7, <5>2, <6>1, ErasedAt
            <6>3. ~Writes(<<"delete", d.path>>, q) /\ ~Holds(<<"delete", d.path>>, q)
              BY DEF Writes, Holds
            <6> QED  BY <3>4, <6>2, <6>3 DEF Applied
          <5> QED  BY <3>4, <5>1, <5>2 DEF PropagateTo
        <4> QED  BY <1>1, <2>4, <2>6, <3>2, <4>2, <4>3
      <3> QED  BY <3>3, <3>4
    <2> QED  BY <2>5, <2>6
  <1>10. \A r \in StageZero \ joined' : events'[r] = <<>>
    BY <1>1 DEF Copied
  <1> QED  BY <1>4, <1>9, <1>10 DEF Copied

\* A server that dies is not asked any more.
LEMMA DeadCopies ==
  ASSUME TypeOK, Copied, up' \subseteq up, UNCHANGED <<tree, joined, events, deleting, unsure>>
  PROVE  Copied'
  <1>1. OneByOne' /\ \A s \in StageZero \ joined' : events'[s] = <<>>
    BY DEF Copied, OneByOne, Deleting
  <1>2. ASSUME Capcom \in up', NEW s \in Reached' \ unsure'
        PROVE  Explains(s)'
    <2>1. Capcom \in up /\ s \in Reached \ unsure
      BY <1>2 DEF Reached
    <2>2. Explains(s)
      BY <2>1 DEF Copied
    <2> QED  BY <2>2, StillExplained
  <1> QED  BY <1>1, <1>2 DEF Copied

\* A process of s changes s alone.
LEMMA LocalCopies ==
  ASSUME TypeOK, Copied, NEW s \in StageZero, s \in joined,
         UNCHANGED <<up, joined, deleting, unsure>>,
         \A r \in Server \ {s} : tree'[r] = tree[r],
         \A r \in StageZero \ {s} : events'[r] = events[r],
         \A q \in Path : Explained(events[s], q, At(tree[s], q), At(tree[Capcom], q))
                            => Explained(events'[s], q, At(tree'[s], q), At(tree[Capcom], q))
  PROVE  Copied'
  <1>1. OneByOne' /\ \A r \in StageZero \ joined' : events'[r] = <<>>
    BY DEF Copied, OneByOne, Deleting
  <1>2. Capcom \in Server /\ s # Capcom
    BY PathAssumption DEF Server
  <1>3. tree'[Capcom] = tree[Capcom]
    BY <1>2
  <1>4. ASSUME Capcom \in up', NEW r \in Reached' \ unsure'
        PROVE  Explains(r)'
    <2>1. Capcom \in up /\ r \in Reached \ unsure /\ r \in StageZero /\ r \in Server
      BY <1>4 DEF Reached, TypeOK, Server
    <2>2. Explains(r)
      BY <2>1 DEF Copied
    <2>3. CASE r # s
      BY <1>3, <2>1, <2>2, <2>3, StillExplained
    <2>4. CASE r = s
      <3>1. SUFFICES ASSUME NEW q \in Path
                     PROVE  /\ Doomed(s, q)' => At(tree'[Capcom], q) = Null
                            /\ ~Doomed(s, q)' =>
                                  Explained(events'[s], q, At(tree'[s], q), At(tree'[Capcom], q))
        BY <2>4 DEF Explains
      <3>2. Doomed(s, q)' <=> Doomed(s, q)
        BY DEF Doomed
      <3> QED  BY <1>3, <2>2, <2>4, <3>2 DEF Explains
    <2> QED  BY <2>3, <2>4
  <1> QED  BY <1>1, <1>4 DEF Copied

LEMMA ServersCopies ==
  ASSUME TypeOK, Copied, IsFiniteSet(Path), NEW s \in StageZero,
         \/ ConnectUmbilical(s) \/ DisconnectUmbilical(s) \/ HandleParameterEvent(s)
         \/ ProcessSets(s) \/ ProcessDeletes(s) \/ ProcessReads(s)
  PROVE  Copied'
  <1>0. /\ s \in Server /\ s \in Source /\ Capcom \in Server /\ s # Capcom
        /\ tree \in [Server -> Tree] /\ events \in [StageZero -> Seq(Operation)]
        /\ events[s] \in Seq(Operation)
    BY PathAssumption DEF Server, Source, TypeOK
  <1>1. CASE ConnectUmbilical(s)
    <2>0. CASE up' = up \ {Capcom} /\ UNCHANGED <<tree, joined, unsure>>
      <3>1. UNCHANGED <<events, deleting>>
        BY <1>1 DEF ConnectUmbilical
      <3> QED  BY <2>0, <3>1, DeadCopies
    <2>1. SUFFICES ASSUME
              /\ Capcom \in up /\ s \in up \ joined /\ joined' = joined \cup {s}
              /\ tree' = [tree EXCEPT ![s] = UploadParameters(GetAllParameters(tree[Capcom]))]
              /\ unsure' = IF Omits(tree[Capcom]) \/ Deleting # {}
                           THEN unsure \cup {s} ELSE unsure \ {s}
              /\ UNCHANGED <<up, events, deleting>>
            PROVE  Copied'
      BY <1>1, <2>0 DEF ConnectUmbilical
    <2>2. \A r \in StageZero \ joined' : events'[r] = <<>>
      BY <2>1 DEF Copied
    <2>3. OneByOne'
      <3>1. CASE Deleting = {}
        BY <2>1, <3>1 DEF OneByOne, Deleting
      <3>2. CASE Deleting # {}
        BY <2>1, <3>2 DEF Copied, OneByOne, Deleting
      <3> QED  BY <3>1, <3>2
    <2>4. ASSUME NEW r \in Reached' \ unsure'
          PROVE  Explains(r)'
      <3>1. r \in StageZero /\ r \in Server
        BY <2>1, <2>4 DEF Reached, TypeOK, Server
      <3>2. tree'[Capcom] = tree[Capcom]
        BY <1>0, <2>1
      <3>3. CASE r # s
        <4>1. r \in Reached \ unsure /\ tree'[r] = tree[r]
          BY <1>0, <2>1, <2>4, <3>1, <3>3 DEF Reached
        <4>2. Explains(r)
          BY <2>1, <4>1 DEF Copied
        <4> QED  BY <2>1, <3>2, <4>1, <4>2, StillExplained
      <3>4. CASE r = s
        <4>1. ~Omits(tree[Capcom]) /\ Deleting = {}
          BY <2>1, <2>4, <3>4
        <4>2. tree'[s] = UploadParameters(GetAllParameters(tree[Capcom]))
          BY <1>0, <2>1
        <4>3. SUFFICES ASSUME NEW q \in Path
                       PROVE  /\ ~Doomed(s, q)'
                              /\ Explained(events'[s], q, At(tree'[s], q), At(tree'[Capcom], q))
          BY <3>4 DEF Explains
        <4>4. ~Doomed(s, q)'
          <5>1. ~Doomed(s, q)
            BY <4>1, NotDoomed
          <5> QED  BY <2>1, <5>1 DEF Doomed
        <4>5. At(tree'[s], q) = At(tree[Capcom], q)
          BY <1>0, <4>1, <4>2, UploadAt
        <4> QED  BY <3>2, <4>4, <4>5 DEF Explained
      <3> QED  BY <3>3, <3>4
    <2> QED  BY <2>2, <2>3, <2>4 DEF Copied
  <1>2. CASE DisconnectUmbilical(s)
    <2>1. /\ joined' = joined \ {s} /\ events' = [events EXCEPT ![s] = <<>>] /\ s \in joined
          /\ UNCHANGED <<tree, up, deleting, unsure>>
      BY <1>2 DEF DisconnectUmbilical
    <2>2. OneByOne'
      BY <2>1 DEF Copied, OneByOne, Deleting
    <2>3. \A r \in StageZero \ joined' : events'[r] = <<>>
      BY <1>0, <2>1 DEF Copied
    <2>4. ASSUME Capcom \in up', NEW r \in Reached' \ unsure'
          PROVE  Explains(r)'
      <3>1. Capcom \in up /\ r \in Reached \ unsure /\ r \in StageZero /\ r # s
        BY <2>1, <2>4 DEF Reached, TypeOK
      <3>2. Explains(r) /\ events'[r] = events[r]
        BY <1>0, <2>1, <3>1 DEF Copied
      <3> QED  BY <2>1, <3>2, StillExplained
    <2> QED  BY <2>2, <2>3, <2>4 DEF Copied
  <1>3. CASE HandleParameterEvent(s)
    <2>1. Capcom \in up /\ events[s] # <<>> /\ events' = [events EXCEPT ![s] = Tail(@)]
      BY <1>3 DEF HandleParameterEvent
    <2>2. /\ \A r \in StageZero \ {s} : events'[r] = events[r]
          /\ events'[s] = Tail(events[s])
      BY <1>0, <2>1
    <2>3. Head(events[s]) \in Operation
      BY <1>0, <2>1, HeadTailProperties
    <2>4. CASE Head(events[s])[1] = "delete"
      <3>1. PICK p \in Path : Head(events[s]) = <<"delete", p>>
        BY <2>3, <2>4 DEF Operation, Changes
      <3>2. Deletes(p, s) /\ UNCHANGED joined
        BY <1>3, <2>4, <3>1 DEF HandleParameterEvent
      <3> QED  BY <1>0, <2>1, <2>2, <3>1, <3>2, DeletesCopies
    <2>5. CASE Head(events[s])[1] # "delete"
      <3>1. PICK p \in Path : Head(events[s]) \in Changes(p)
        BY <2>3, <2>5, Operations
      <3>2. Updates(Head(events[s]), s)
        BY <1>3, <2>5 DEF HandleParameterEvent
      <3> QED  BY <1>0, <2>1, <2>2, <3>1, <3>2, UpdatesCopies
    <2> QED  BY <2>4, <2>5
  <1>4. CASE ProcessSets(s)
    <2>1. s \in joined /\ UNCHANGED <<joined, deleting, unsure>>
          /\ \E p \in Path : \E op \in Changes(p) : ServesSet(s, op)
      BY <1>4 DEF ProcessSets, Serves, Reached
    <2>2. PICK p \in Path : \E op \in Changes(p) : ServesSet(s, op)
      BY <2>1
    <2>3. PICK op \in Changes(p) : ServesSet(s, op)
      BY <2>2
    <2>4. op \in Operation
      BY DEF Operation
    <2>5. /\ tree' = [tree EXCEPT ![s] = SetParameter(@, op)] /\ UNCHANGED up
          /\ events' = [events EXCEPT ![s] = Append(@, op)]
      BY <2>3 DEF ServesSet, Tells
    <2>6. \A q \in Path : At(tree'[s], q) = Applied(op, q, At(tree[s], q))
      BY <1>0, <2>5, SetAt
    <2>7. /\ \A r \in Server \ {s} : tree'[r] = tree[r]
          /\ \A r \in StageZero \ {s} : events'[r] = events[r]
          /\ events'[s] = Append(events[s], op)
      BY <1>0, <2>5
    <2>8. ASSUME NEW q \in Path, Explained(events[s], q, At(tree[s], q), At(tree[Capcom], q))
          PROVE  Explained(events'[s], q, At(tree'[s], q), At(tree[Capcom], q))
      BY <1>0, <2>4, <2>6, <2>7, <2>8, ExplainedHere
    <2> QED  BY <2>1, <2>5, <2>7, <2>8, LocalCopies
  <1>5. CASE ProcessDeletes(s)
    <2>1. s \in joined /\ UNCHANGED <<joined, deleting, unsure>>
          /\ \E p \in Path : ServesDelete(s, p)
      BY <1>5 DEF ProcessDeletes, Serves, Reached
    <2>2. PICK p \in Path : ServesDelete(s, p)
      BY <2>1
    <2>3. CASE up' = up \ {s} /\ UNCHANGED <<tree, events>>
      BY <2>1, <2>3, DeadCopies
    <2>4. CASE /\ tree' = [tree EXCEPT ![s] = Erased(@, p)]
               /\ Tells(s, <<"delete", p>>) /\ UNCHANGED up
      <3> DEFINE op == <<"delete", p>>
      <3>1. op \in Operation
        BY DEF Operation
      <3>2. \A q \in Path : At(tree'[s], q) = Applied(op, q, At(tree[s], q))
        BY <1>0, <2>4, ErasedAt
      <3>3. /\ \A r \in Server \ {s} : tree'[r] = tree[r]
            /\ \A r \in StageZero \ {s} : events'[r] = events[r]
            /\ events'[s] = Append(events[s], op)
        BY <1>0, <2>4 DEF Tells
      <3> HIDE DEF op
      <3>4. ASSUME NEW q \in Path, Explained(events[s], q, At(tree[s], q), At(tree[Capcom], q))
            PROVE  Explained(events'[s], q, At(tree'[s], q), At(tree[Capcom], q))
        BY <1>0, <3>1, <3>2, <3>3, <3>4, ExplainedHere
      <3> QED  BY <2>1, <2>4, <3>3, <3>4, LocalCopies
    <2> QED  BY <2>2, <2>3, <2>4 DEF ServesDelete
  <1>6. CASE ProcessReads(s)
    <2>1. s \in joined /\ UNCHANGED <<joined, events, deleting, unsure>>
          /\ \E p \in Path : ServesGet(s, p)
      BY <1>6 DEF ProcessReads, Serves, Reached
    <2>2. PICK p \in Path : ServesGet(s, p)
      BY <2>1
    <2>3. CASE up' = up \ {s} /\ UNCHANGED tree
      BY <2>1, <2>3, DeadCopies
    <2>4. CASE tree' = [tree EXCEPT ![s] = Lookup(@, p)] /\ UNCHANGED up
      <3>1. \A q \in Path : At(tree'[s], q) = At(tree[s], q)
        BY <1>0, <2>4, LookupAt
      <3>2. /\ \A r \in Server \ {s} : tree'[r] = tree[r]
            /\ \A r \in StageZero : events'[r] = events[r]
        BY <1>0, <2>1, <2>4
      <3> QED  BY <2>1, <2>4, <3>1, <3>2, LocalCopies
    <2> QED  BY <2>2, <2>3, <2>4 DEF ServesGet
  <1> QED  BY <1>1, <1>2, <1>3, <1>4, <1>5, <1>6

\* What a compute that Capcom has not left behind holds under a name is what
\* Capcom holds there, value for value and down to the inner nodes; or an
\* event that Capcom has still to handle accounts for the difference, and no
\* later one overrides it; or the name is about to be deleted.  A system
\* names finitely many parameters: the loader and the requests are finite.
THEOREM CopiesExplained ==
  ASSUME IsFiniteSet(Path)
  PROVE  Spec => [](TypeOK /\ Copied)
  <1>1. Init => Copied
    <2> SUFFICES ASSUME Init PROVE Copied
      OBVIOUS
    <2> QED  BY DEF Init, Copied, OneByOne, Reached
  <1>2. TypeOK /\ Copied /\ [Next]_vars => Copied'
    <2>1. ASSUME TypeOK, Copied, UNCHANGED vars
          PROVE  Copied'
      BY <2>1, DeadCopies DEF vars
    <2> QED  BY <2>1, ClientsCopies, PropagationCopies, ServersCopies DEF Next, PropagateDelete
  <1> QED  BY <1>1, <1>2, TypeCorrect, PTL DEF Spec

\* When no event and no deletion is on its way, every compute that Capcom has
\* kept nothing from has Capcom's nodes and Capcom's values, those of inner
\* nodes too: Capcom carries out its changes everywhere, and the changes of
\* processes in the order of each compute.
THEOREM CopiesComeToAgree ==
  ASSUME IsFiniteSet(Path)
  PROVE  Spec => []CopiesAgree
  <1>1. TypeOK /\ Copied => CopiesAgree
    <2> SUFFICES ASSUME TypeOK, Copied, Settled, NEW s \in Reached \ unsure
                 PROVE  Same(tree[s], tree[Capcom])
      BY DEF CopiesAgree
    <2>1. /\ s \in StageZero /\ tree[s] \in Tree /\ tree[Capcom] \in Tree
          /\ events[s] = <<>> /\ Deleting = {} /\ Explains(s)
      BY DEF Settled, Copied, Reached, TypeOK, Server
    <2>2. SUFFICES ASSUME NEW p \in Path
                   PROVE  /\ Found(tree[s], p) <=> Found(tree[Capcom], p)
                          /\ Found(tree[s], p) => tree[s][p] = tree[Capcom][p]
      BY DEF Same
    <2>3. Explained(<<>>, p, At(tree[s], p), At(tree[Capcom], p))
      <3>1. ~Doomed(s, p)
        BY <2>1, NotDoomed
      <3> QED  BY <2>1, <3>1 DEF Explains
    <2>4. At(tree[s], p) = At(tree[Capcom], p)
      <3>1. DOMAIN <<>> = {}
        OBVIOUS
      <3> QED  BY <2>3, <3>1 DEF Explained
    <2> QED  BY <2>1, <2>4, FoundAt
  <1> QED  BY <1>1, CopiesExplained, PTL

=============================================================================
