--------------------------- MODULE StreamsProofs ---------------------------
(***************************************************************************)
(* Proofs about Streams: a Process object refers to its own pipes.         *)
(***************************************************************************)
EXTENDS Streams, FiniteSetTheorems, FunctionTheorems, TLAPS

USE DEF Fd, UserFd

LEMMA FdFinite == IsFiniteSet(Fd) /\ Fd \subseteq Nat
  BY FS_Interval, StreamsAssumption

\* A finite set of numbers has a member with i - 1 smaller ones.
LEMMA NthExists ==
  ASSUME NEW S \in SUBSET Nat, IsFiniteSet(S), NEW i \in 1..Cardinality(S)
  PROVE  \E n \in S : Cardinality({m \in S : m < n}) = i - 1
  <1> DEFINE Less(n) == {m \in S : m < n}
             c == Cardinality(S)
             T == 0..(c - 1)
             f == [n \in S |-> Cardinality(Less(n))]
  <1>1. c \in Nat /\ IsFiniteSet(T) /\ Cardinality(T) = c
    <2>1. c \in Nat
      BY FS_CardinalityType
    <2>2. 0 \in Int /\ c - 1 \in Int /\ (c - 1) - 0 + 1 = c /\ (0 > c - 1 => c = 0)
      BY <2>1
    <2> HIDE DEF c
    <2>3. IsFiniteSet(T) /\ Cardinality(T) = IF 0 > c - 1 THEN 0 ELSE (c - 1) - 0 + 1
      BY <2>2, FS_Interval
    <2> QED  BY <2>1, <2>2, <2>3
  <1>2. ASSUME NEW n \in S
        PROVE  IsFiniteSet(Less(n)) /\ Cardinality(Less(n)) \in T
    <2>1. Less(n) \subseteq S /\ Less(n) # S
      OBVIOUS
    <2> QED  BY <2>1, <1>1, FS_Subset, FS_CardinalityType
  <1>3. ASSUME NEW m \in S, NEW n \in S, m < n
        PROVE  f[m] < f[n]
    <2>0. m \in Nat /\ n \in Nat /\ S \subseteq Nat
      OBVIOUS
    <2>1. Less(m) \subseteq Less(n) /\ m \in Less(n) /\ m \notin Less(m)
      <3>1. ~(m < m) /\ \A x \in S : x < m => x < n
        BY <1>3, <2>0
      <3> QED  BY <1>3, <3>1, Zenon
    <2> HIDE DEF Less
    <2>2. Cardinality(Less(m)) < Cardinality(Less(n))
      BY <2>1, <1>2, FS_Subset
    <2> QED  BY <2>2
  <1>4. f \in Injection(S, T)
    <2> HIDE DEF f
    <2>1. \A m, n \in S : f[m] = f[n] => m = n
      <3> SUFFICES ASSUME NEW m \in S, NEW n \in S, m # n
                   PROVE  f[m] # f[n]
        OBVIOUS
      <3>1. f[m] \in Int /\ f[n] \in Int
        BY <1>2 DEF f
      <3>2. m < n \/ n < m
        OBVIOUS
      <3> QED  BY <1>3, <3>1, <3>2
    <2>2. f \in [S -> T]
      BY <1>2 DEF f
    <2> QED  BY <2>1, <2>2 DEF Injection, IsInjective
  <1>5. f \in Surjection(S, T)
    BY <1>1, <1>4, FS_Injection
  <1>6. i - 1 \in T
    BY <1>1
  <1> HIDE DEF T, c
  <1>7. PICK n \in S : f[n] = i - 1
    BY <1>5, <1>6 DEF Surjection
  <1> QED  BY <1>7

LEMMA NthIsFree ==
  ASSUME NEW i \in 1..Cardinality(Free)
  PROVE  NthFree(i) \in Free /\ Cardinality({m \in Free : m < NthFree(i)}) = i - 1
  <1>1. Free \in SUBSET Nat /\ IsFiniteSet(Free)
    BY FdFinite, FS_Subset DEF Free
  <1>2. \E n \in Free : Cardinality({m \in Free : m < n}) = i - 1
    BY <1>1, NthExists
  <1> QED  BY <1>2 DEF NthFree

LEMMA RankIs ==
  ASSUME NEW k \in Kind
  PROVE  Rank(k) \in 1..8 /\ Order[Rank(k)] = k
  BY DEF Rank, Kind, Order

Ranks(p) == {j \in 1..8 : Order[j] \in Streams[p]}
Before(p, k) == {j \in 1..Rank(k) - 1 : Order[j] \in Streams[p]}

LEMMA BeforeIs ==
  ASSUME NEW p \in Process, NEW k \in Streams[p]
  PROVE  /\ k \in Kind /\ IsFiniteSet(Before(p, k)) /\ Cardinality(Before(p, k)) \in Nat
         /\ Cardinality(Before(p, k)) + 1 <= Cardinality(Streams[p])
         /\ Cardinality(Streams[p]) \in Nat
  <1>1. k \in Kind /\ Streams[p] \subseteq Kind
    BY StreamsAssumption
  <1>2. IsFiniteSet(1..8) /\ IsFiniteSet(Kind)
    <2>1. IsFiniteSet(1..8)
      <3> 1 \in Int /\ 8 \in Int
        OBVIOUS
      <3> QED  BY FS_Interval
    <2>2. Kind = {Order[i] : i \in 1..8}
      BY DEF Kind, Order
    <2>3. [i \in 1..8 |-> Order[i]] \in Surjection(1..8, Kind)
      BY <2>2 DEF Surjection
    <2> QED  BY <2>1, <2>3, FS_Surjection
  <1>3. IsFiniteSet(Streams[p]) /\ IsFiniteSet(Ranks(p)) /\ Cardinality(Streams[p]) \in Nat
    BY <1>1, <1>2, FS_Subset, FS_CardinalityType DEF Ranks
  <1>4. Cardinality(Ranks(p)) <= Cardinality(Streams[p])
    <2>1. [j \in Ranks(p) |-> Order[j]] \in Injection(Ranks(p), Streams[p])
      BY DEF Ranks, Injection, IsInjective, Order
    <2> QED  BY <2>1, <1>3, FS_Injection
  <1>5. /\ Before(p, k) \subseteq Ranks(p) /\ Rank(k) \in Ranks(p) /\ Rank(k) \notin Before(p, k)
    BY <1>1, RankIs DEF Before, Ranks
  <1>6. /\ IsFiniteSet(Before(p, k)) /\ Cardinality(Before(p, k)) < Cardinality(Ranks(p))
        /\ Cardinality(Before(p, k)) \in Nat /\ Cardinality(Ranks(p)) \in Nat
    BY <1>3, <1>5, FS_Subset, FS_CardinalityType
  <1> QED  BY <1>1, <1>3, <1>4, <1>6

LEMMA PlaceIs ==
  ASSUME NEW p \in Process, NEW k \in Streams[p], NEW s \in {"r", "w"}
  PROVE  /\ Place(p, k, s) \in 1..(2 * Cardinality(Streams[p]))
         /\ Place(p, k, s) = 2 * Cardinality(Before(p, k)) + (IF s = "r" THEN 1 ELSE 2)
  BY BeforeIs DEF Place, Before

LEMMA PlacesDiffer ==
  ASSUME NEW p \in Process, NEW k \in Streams[p], NEW l \in Streams[p],
         NEW s \in {"r", "w"}, NEW t \in {"r", "w"}, Place(p, k, s) = Place(p, l, t)
  PROVE  k = l /\ s = t
  <1>1. ASSUME NEW a \in Streams[p], NEW b \in Streams[p], Rank(a) < Rank(b)
        PROVE  Cardinality(Before(p, a)) < Cardinality(Before(p, b))
    <2>0. a \in Kind /\ b \in Kind
      BY BeforeIs
    <2>1. /\ Before(p, a) \subseteq Before(p, b)
          /\ Rank(a) \in Before(p, b) /\ Rank(a) \notin Before(p, a)
      BY <1>1, <2>0, RankIs DEF Before
    <2> QED  BY <2>1, BeforeIs, FS_Subset
  <1>2. Cardinality(Before(p, k)) = Cardinality(Before(p, l)) /\ s = t
    BY BeforeIs, PlaceIs
  <1>3. Rank(k) = Rank(l)
    <2>1. k \in Kind /\ l \in Kind
      BY BeforeIs
    <2>2. Rank(k) \in Int /\ Rank(l) \in Int
      BY <2>1, RankIs
    <2> QED  BY <1>1, <1>2, <2>2, BeforeIs
  <1>4. k \in Kind /\ l \in Kind
    BY BeforeIs
  <1> QED  BY <1>2, <1>3, <1>4, RankIs

----------------------------------------------------------------------------
(* What a launch builds.                                                   *)

\* Each pipe gets two free descriptors, all different.
LEMMA Built ==
  ASSUME NEW p \in Process, Room(p), NEW x \in BuildStreams(p)
  PROVE  \/ x = <<"given", "r", UserFd>> /\ p \in Given
         \/ /\ x \in Streams[p] \X {"r", "w"} \X Free
            /\ x[1] \in Kind /\ x[1] # "given"
            /\ x[3] = NthFree(Place(p, x[1], x[2]))
  <1>1. CASE x = <<"given", "r", UserFd>> /\ p \in Given
    BY <1>1
  <1>2. CASE \E k \in Streams[p], s \in {"r", "w"} : x = <<k, s, NthFree(Place(p, k, s))>>
    <2>1. PICK k \in Streams[p], s \in {"r", "w"} : x = <<k, s, NthFree(Place(p, k, s))>>
      BY <1>2
    <2>2. Place(p, k, s) \in 1..Cardinality(Free)
      <3>1. IsFiniteSet(Free) /\ Cardinality(Free) \in Nat
        BY FdFinite, FS_Subset, FS_CardinalityType DEF Free
      <3> QED  BY <3>1, PlaceIs, BeforeIs DEF Room
    <2>3. NthFree(Place(p, k, s)) \in Free
      BY <2>2, NthIsFree
    <2>4. k \in Kind /\ "given" \notin Kind
      BY BeforeIs DEF Kind, Order
    <2> QED  BY <2>1, <2>3, <2>4
  <1> QED  BY <1>1, <1>2 DEF BuildStreams

LEMMA BuiltApart ==
  ASSUME NEW p \in Process, Room(p), NEW x \in Pipes(BuildStreams(p)),
         NEW y \in Pipes(BuildStreams(p)), x[3] = y[3]
  PROVE  x = y
  <1>1. \A z \in Pipes(BuildStreams(p)) :
          /\ z \in Streams[p] \X {"r", "w"} \X Free
          /\ z[3] = NthFree(Place(p, z[1], z[2]))
    BY Built DEF Pipes
  <1>2. \A z \in Pipes(BuildStreams(p)) : Place(p, z[1], z[2]) \in 1..Cardinality(Free)
    <2> TAKE z \in Pipes(BuildStreams(p))
    <2>1. z[1] \in Streams[p] /\ z[2] \in {"r", "w"}
      BY <1>1
    <2>2. IsFiniteSet(Free) /\ Cardinality(Free) \in Nat
      BY FdFinite, FS_Subset, FS_CardinalityType DEF Free
    <2> QED  BY <2>1, <2>2, PlaceIs, BeforeIs DEF Room
  <1>3. Place(p, x[1], x[2]) = Place(p, y[1], y[2])
    <2> DEFINE i == Place(p, x[1], x[2])
               j == Place(p, y[1], y[2])
    <2>1. i \in 1..Cardinality(Free) /\ j \in 1..Cardinality(Free) /\ NthFree(i) = NthFree(j)
      BY <1>1, <1>2
    <2> HIDE DEF i, j
    <2>2. Cardinality({m \in Free : m < NthFree(i)}) = i - 1
      BY <2>1, NthIsFree
    <2>3. Cardinality({m \in Free : m < NthFree(j)}) = j - 1
      BY <2>1, NthIsFree
    <2>4. i - 1 = j - 1 /\ i \in Int /\ j \in Int
      BY <2>1, <2>2, <2>3
    <2>5. i = j
      BY <2>4
    <2> QED  BY <2>5 DEF i, j
  <1>4. x[1] = y[1] /\ x[2] = y[2]
    <2>1. x[1] \in Streams[p] /\ y[1] \in Streams[p] /\ x[2] \in {"r", "w"} /\ y[2] \in {"r", "w"}
      BY <1>1
    <2> QED  BY <2>1, <1>3, PlacesDiffer
  <1> QED  BY <1>1, <1>4

Table(p) == Opened(p, BuildStreams(p))

LEMMA OpenedIs ==
  ASSUME NEW p \in Process, Room(p)
  PROVE  /\ DOMAIN Table(p) = DOMAIN fds \cup Descriptors(Pipes(BuildStreams(p)))
         /\ \A n \in DOMAIN fds : Table(p)[n] = fds[n]
         /\ \A x \in Pipes(BuildStreams(p)) :
              /\ x[3] \in Free /\ Table(p)[x[3]] = <<p, x[1], x[2]>>
              /\ x[1] \in Kind /\ x[2] \in {"r", "w"}
  <1> DEFINE o == BuildStreams(p)
             t == Opened(p, o)
  <1>1. DOMAIN t = DOMAIN fds \cup Descriptors(Pipes(o)) /\ \A n \in DOMAIN fds : t[n] = fds[n]
    BY DEF Opened
  <1>2. ASSUME NEW x \in Pipes(o)
        PROVE  x[3] \in Free /\ t[x[3]] = <<p, x[1], x[2]>> /\ x[1] \in Kind /\ x[2] \in {"r", "w"}
    <2>1. x[3] \in Free /\ x[1] \in Kind /\ x[2] \in {"r", "w"}
      BY Built DEF Pipes
    <2>2. (CHOOSE y \in Pipes(o) : y[3] = x[3]) = x
      BY BuiltApart
    <2>3. x[3] \in Descriptors(Pipes(o)) /\ x[3] \notin DOMAIN fds
      BY <2>1 DEF Descriptors, Free
    <2>4. t[x[3]] = LET y == CHOOSE y \in Pipes(o) : y[3] = x[3] IN <<p, y[1], y[2]>>
      BY <2>3 DEF Opened
    <2> QED  BY <2>1, <2>2, <2>4
  <1> QED  BY <1>1, <1>2 DEF Table

----------------------------------------------------------------------------
(* Types.                                                                  *)

Entry == (Kind \cup {"given"}) \X Side \X Fd
Typed(t) == DOMAIN t \subseteq Fd /\ \A n \in DOMAIN t : t[n] \in End \cup {<<"user">>}

LEMMA LaunchTypes ==
  ASSUME TypeOK, NEW p \in Process, Room(p)
  PROVE  /\ BuildStreams(p) \subseteq Entry /\ Redirected(BuildStreams(p)) \subseteq Entry
         /\ Typed(Table(p)) /\ Shared(p) \subseteq Fd
  <1> DEFINE o == BuildStreams(p)
             t == Table(p)
  <1>1. o \subseteq Entry
    <2> SUFFICES ASSUME NEW x \in o
                 PROVE  x \in Entry
      OBVIOUS
    <2>1. CASE x = <<"given", "r", UserFd>>
      BY <2>1, StreamsAssumption DEF Entry, Side
    <2>2. CASE x \in Streams[p] \X {"r", "w"} \X Free /\ x[1] \in Kind
      BY <2>2 DEF Entry, Side, Free
    <2> QED  BY <2>1, <2>2, Built
  <1>2. Redirected(o) \subseteq Entry /\ Shared(p) \subseteq Fd
    BY <1>1, StreamsAssumption DEF Redirected, Shared
  <1>3. /\ DOMAIN t = DOMAIN fds \cup Descriptors(Pipes(o))
        /\ \A n \in DOMAIN fds : t[n] = fds[n]
        /\ \A x \in Pipes(o) :
             x[3] \in Free /\ t[x[3]] = <<p, x[1], x[2]>> /\ x[1] \in Kind /\ x[2] \in {"r", "w"}
    BY OpenedIs
  <1> HIDE DEF o, t
  <1>4. DOMAIN t \subseteq Fd
    BY <1>3 DEF TypeOK, Descriptors, Free
  <1>5. \A n \in DOMAIN t : t[n] \in End \cup {<<"user">>}
    <2> TAKE n \in DOMAIN t
    <2>1. CASE n \in DOMAIN fds
      BY <2>1, <1>3 DEF TypeOK
    <2>2. CASE n \notin DOMAIN fds
      <3>1. PICK x \in Pipes(o) : n = x[3]
        BY <2>2, <1>3 DEF Descriptors
      <3>2. t[n] = <<p, x[1], x[2]>> /\ x[1] \in Kind /\ x[2] \in {"r", "w"}
        BY <3>1, <1>3
      <3> QED  BY <3>2 DEF End
    <2> QED  BY <2>1, <2>2
  <1> QED  BY <1>1, <1>2, <1>4, <1>5 DEF Typed, o, t

LEMMA ClosingTyped ==
  ASSUME NEW t, Typed(t), NEW N
  PROVE  Typed(Closing(t, N))
  BY DEF Closing, Typed

LEMMA ReadersTypes ==
  ASSUME NEW p \in Process, NEW servers \in BOOLEAN
  PROVE  Readers(p, servers) \in SUBSET (Output \X {"begin", "reading", "deaf"})
  BY StreamsAssumption DEF Readers, Output, Input, Kind, Order

LEMMA LaunchesType ==
  ASSUME TypeOK, NEW p \in Process,
         ForkAndExec(p) \/ LaunchFails(p) \/ OutOfDescriptors(p) \/ Spawn(p)
  PROVE  TypeOK'
  <1> DEFINE o == BuildStreams(p)
             Lives == {"none", "alive", "dead", "failed"}
             Reading == SUBSET (Output \X {"begin", "reading", "deaf"})
  <1>1. TypeOK' <=> /\ life' \in [Process -> Lives] /\ known' \subseteq Process /\ Typed(fds')
                    /\ obj' \in [Process -> SUBSET Entry] /\ held' \in [Process -> SUBSET End]
                    /\ reader' \in [Process -> Reading] /\ writing' \in [Process -> SUBSET Input]
                    /\ full' \subseteq Process \X Kind /\ stale' \subseteq Fd
    BY DEF TypeOK, Typed, Entry
  <1>2. /\ life \in [Process -> Lives] /\ known \subseteq Process /\ Typed(fds)
        /\ obj \in [Process -> SUBSET Entry] /\ held \in [Process -> SUBSET End]
        /\ reader \in [Process -> Reading] /\ writing \in [Process -> SUBSET Input]
        /\ full \subseteq Process \X Kind /\ stale \subseteq Fd
    BY DEF TypeOK, Typed, Entry
  <1>3. \A servers \in BOOLEAN : Readers(p, servers) \in Reading
    BY ReadersTypes
  <1> HIDE DEF Lives, Reading
  <1>4. CASE ForkAndExec(p)
    <2>1. /\ o \in SUBSET Entry /\ Redirected(o) \in SUBSET Entry
          /\ Typed(Table(p)) /\ Shared(p) \subseteq Fd
      BY <1>4, LaunchTypes DEF ForkAndExec
    <2>2. /\ obj' = [obj EXCEPT ![p] = Redirected(o)] /\ stale' = stale \cup Shared(p)
          /\ reader' = [reader EXCEPT ![p] = Readers(p, TRUE)]
          /\ writing' = writing /\ full' = full
          /\ fds' = Closing(Table(p), Descriptors(o \ Redirected(o)))
          /\ \/ /\ life' = [life EXCEPT ![p] = "alive"] /\ known' \in {known, known \cup {p}}
                /\ held' = [held EXCEPT ![p] = Inherited(p, Table(p))]
             \/ life' = [life EXCEPT ![p] = "failed"] /\ known' = known /\ held' = held
      BY <1>4 DEF ForkAndExec, AfterFork, Table, ChildRuns, ChildExits
    <2> HIDE DEF o
    <2>3. Inherited(p, Table(p)) \in SUBSET End
      BY <2>1 DEF Inherited, Typed
    <2>4. Typed(fds')
      BY <2>1, <2>2, ClosingTyped
    <2> QED  BY <1>1, <1>2, <1>3, <2>1, <2>2, <2>3, <2>4 DEF Lives
  <1>5. CASE LaunchFails(p)
    <2>1. o \in SUBSET Entry /\ Typed(Table(p)) /\ Shared(p) \subseteq Fd
      BY <1>5, LaunchTypes DEF LaunchFails
    <2>2. /\ obj' = [obj EXCEPT ![p] = o] /\ stale' = stale \cup Shared(p)
          /\ \E servers \in BOOLEAN : reader' = [reader EXCEPT ![p] = Readers(p, servers)]
          /\ UNCHANGED <<known, held, writing, full>>
          /\ fds' = Table(p) /\ life' = [life EXCEPT ![p] = "failed"]
      BY <1>5 DEF LaunchFails, Table
    <2> HIDE DEF o
    <2> QED  BY <1>1, <1>2, <1>3, <2>1, <2>2 DEF Lives
  <1>6. CASE OutOfDescriptors(p)
    BY <1>1, <1>2, <1>6 DEF OutOfDescriptors, Lives
  <1>7. CASE Spawn(p)
    <2>1. o \in SUBSET Entry /\ Typed(Table(p))
      BY <1>7, LaunchTypes DEF Spawn
    <2>2. /\ obj' = [obj EXCEPT ![p] = o] /\ known' = known \cup {p}
          /\ reader' = [reader EXCEPT ![p] = Readers(p, TRUE)]
          /\ UNCHANGED <<stale, writing, full>> /\ fds' = Table(p)
          /\ \/ life' = [life EXCEPT ![p] = "alive"] /\ held' = [held EXCEPT ![p] = KeptOpen(p)]
             \/ life' = [life EXCEPT ![p] = "dead"] /\ held' = held
      BY <1>7 DEF Spawn, SetUp, Table
    <2> HIDE DEF o
    <2>3. KeptOpen(p) \in SUBSET End
      BY StreamsAssumption DEF KeptOpen, Sent, End, ChildSide
    <2> QED  BY <1>1, <1>2, <1>3, <2>1, <2>2, <2>3 DEF Lives
  <1> QED  BY <1>4, <1>5, <1>6, <1>7

LEMMA FirstIsFree ==
  ASSUME Free # {}
  PROVE  NthFree(1) \in Free
  <1>1. IsFiniteSet(Free)
    BY FdFinite, FS_Subset DEF Free
  <1>2. Cardinality(Free) \in Nat /\ Cardinality(Free) # 0
    BY <1>1, FS_CardinalityType, FS_EmptySet
  <1>3. 1 \in 1..Cardinality(Free)
    BY <1>2
  <1> QED  BY <1>3, NthIsFree

LEMMA OthersType ==
  ASSUME TypeOK, NEW p \in Process,
         \/ Exits(p) \/ Forgets(p) \/ Destroys(p)
         \/ ReaderStarts(p) \/ ReaderDeaf(p) \/ CloseFileDescriptor(p)
         \/ \E k \in Served : ReaderEnds(p, k)
         \/ \E k \in Written : WriteBegins(p, k) \/ WriteEnds(p, k) \/ Reads(p, k)
  PROVE  TypeOK'
  <1>0. "out" \in Output /\ "out" \in Kind
    BY DEF Output, Kind, Order, Input
  <1>1. CASE Exits(p)
    BY <1>1 DEF Exits, TypeOK
  <1>2. CASE Forgets(p)
    BY <1>2 DEF Forgets, TypeOK
  <1>3. CASE Destroys(p)
    BY <1>3 DEF Destroys, TypeOK, Closing
  <1>4. CASE ReaderStarts(p)
    <2>1. PICK n \in DOMAIN fds :
            /\ reader' = [reader EXCEPT ![p] = (@ \ {<<"out", "begin">>}) \cup {<<"out", "reading">>}]
            /\ obj' = [obj EXCEPT ![p] = @ \cup {<<"out", "d", NthFree(1)>>}]
            /\ fds' = [m \in DOMAIN fds \cup {NthFree(1)} |-> IF m \in DOMAIN fds THEN fds[m] ELSE fds[n]]
            /\ stale' = stale \cup (IF n \in stale THEN {NthFree(1)} ELSE {})
            /\ UNCHANGED <<life, known, held, writing, full>>
      BY <1>4 DEF ReaderStarts
    <2>2. NthFree(1) \in Fd
      BY <1>4, FirstIsFree DEF ReaderStarts, Free
    <2>3. <<"out", "d", NthFree(1)>> \in Entry
      BY <1>0, <2>2 DEF Entry, Side
    <2>4. obj' \in [Process -> SUBSET Entry] /\ stale' \subseteq Fd
      BY <2>1, <2>2, <2>3 DEF TypeOK, Entry
    <2>5. reader' \in [Process -> SUBSET (Output \X {"begin", "reading", "deaf"})]
      BY <1>0, <2>1 DEF TypeOK
    <2>6. Typed(fds')
      BY <2>1, <2>2 DEF TypeOK, Typed
    <2> QED  BY <2>1, <2>4, <2>5, <2>6 DEF TypeOK, Typed, Entry
  <1>5. CASE ReaderDeaf(p)
    BY <1>0, <1>5 DEF ReaderDeaf, TypeOK
  <1>6. CASE CloseFileDescriptor(p)
    BY <1>6 DEF CloseFileDescriptor, TypeOK, Closing
  <1>7. ASSUME NEW k \in Served, ReaderEnds(p, k)
        PROVE  TypeOK'
    BY <1>7 DEF ReaderEnds, TypeOK, Closing
  <1>8. ASSUME NEW k \in Written, WriteBegins(p, k) \/ WriteEnds(p, k) \/ Reads(p, k)
        PROVE  TypeOK'
    <2>1. k \in Input /\ k \in Kind
      BY DEF Written, Input, Kind, Order
    <2>2. CASE WriteBegins(p, k)
      BY <2>1, <2>2 DEF WriteBegins, TypeOK
    <2>3. CASE WriteEnds(p, k)
      <3>1. writing' \in [Process -> SUBSET Input] /\ UNCHANGED <<life, known, fds, obj, held, reader, stale>>
        BY <2>3 DEF WriteEnds, TypeOK
      <3>2. full' \subseteq Process \X Kind
        BY <2>3 DEF WriteEnds, TypeOK, End
      <3> QED  BY <3>1, <3>2 DEF TypeOK
    <2>4. CASE Reads(p, k)
      BY <2>4 DEF Reads, TypeOK
    <2> QED  BY <1>8, <2>2, <2>3, <2>4
  <1> QED  BY <1>1, <1>2, <1>3, <1>4, <1>5, <1>6, <1>7, <1>8

LEMMA TypesStay == TypeOK /\ [Next]_vars => TypeOK'
  BY LaunchesType, OthersType DEF Next, TypeOK, vars

\* Whatever is launched, whoever exits and whatever fails, the table and the
\* objects hold descriptors of the pipes there are.
THEOREM TypeCorrect == Spec => []TypeOK
  <1>1. Init => TypeOK
    BY StreamsAssumption DEF Init, TypeOK
  <1>2. TypeOK /\ [Next]_vars => TypeOK'
    BY TypesStay
  <1> QED  BY <1>1, <1>2, PTL DEF Spec

----------------------------------------------------------------------------

(* Whose pipes an object refers to.  The invariant needs that a reader's   *)
(* duplicate and the descriptor it was made of have different numbers.     *)

Apart ==
  \A p \in Process : \A x, y \in obj[p] :
    x[1] = y[1] /\ x[2] = "r" /\ y[2] = "d" /\ x[3] = y[3] => x[3] \in stale

IInv == TypeOK /\ OwnPipes /\ Apart

LEMMA Entries ==
  ASSUME TypeOK, NEW p \in Process, NEW x \in obj[p]
  PROVE  /\ x = <<x[1], x[2], x[3]>> /\ x[2] \in {"r", "w", "d"} /\ x[3] \in Fd
  BY DEF TypeOK, Side

\* What the objects of the others refer to survives a launch.
LEMMA OthersKeep ==
  ASSUME IInv, NEW p \in Process, Room(p), NEW q \in Process, NEW x \in obj[q],
         x[3] \notin stale
  PROVE  x[3] \in DOMAIN Table(p) /\ x[3] \notin Free /\ Table(p)[x[3]] = fds[x[3]] /\ Own(q, x)
  <1>1. Own(q, x)
    BY DEF IInv, OwnPipes
  <1>2. x[3] \in DOMAIN fds
    BY <1>1 DEF Own
  <1> QED  BY <1>1, <1>2, OpenedIs DEF Free

\* What p builds is its own, but for a number its FD stream may name.
LEMMA BuiltOwn ==
  ASSUME NEW p \in Process, Room(p), NEW x \in BuildStreams(p), x[3] \notin Shared(p)
  PROVE  /\ x \in Pipes(BuildStreams(p)) /\ x[2] \in {"r", "w"}
         /\ x[3] \in DOMAIN Table(p) /\ Table(p)[x[3]] = <<p, x[1], x[2]>>
  <1>1. x \in Pipes(BuildStreams(p))
    BY Built DEF Shared, Pipes
  <1>2. x[3] \in Descriptors(Pipes(BuildStreams(p)))
    BY <1>1 DEF Descriptors
  <1> QED  BY <1>1, <1>2, OpenedIs

LEMMA GivenShared ==
  ASSUME NEW p \in Process, Room(p), NEW x \in BuildStreams(p), x \notin Pipes(BuildStreams(p))
  PROVE  x[3] \in Shared(p)
  BY Built DEF Shared, Pipes

LEMMA ForkKeeps ==
  ASSUME IInv, NEW p \in Process, ForkAndExec(p)
  PROVE  OwnPipes' /\ Apart'
  <1> DEFINE o == BuildStreams(p)
             shut == Descriptors(o \ Redirected(o))
  <1>1. Room(p) /\ obj \in [Process -> SUBSET Entry]
    BY DEF ForkAndExec, IInv, TypeOK, Entry
  <1>2. /\ obj' = [obj EXCEPT ![p] = Redirected(o)] /\ stale' = stale \cup Shared(p)
        /\ fds' = Closing(Table(p), shut)
    BY DEF ForkAndExec, AfterFork, Table
  <1>3. \A n \in DOMAIN Table(p) \ shut : n \in DOMAIN fds' /\ fds'[n] = Table(p)[n]
    BY <1>2 DEF Closing
  <1>4. \A n \in shut : n \in Free \/ n \in Shared(p)
    <2> SUFFICES ASSUME NEW y \in o
                 PROVE  y[3] \in Free \/ y[3] \in Shared(p)
      BY DEF Descriptors
    <2> QED  BY <1>1, OpenedIs, GivenShared
  <1>5. Redirected(o) \subseteq o
    BY DEF Redirected
  <1>6. \A x, y \in Pipes(o) : x[3] = y[3] => x = y
    BY <1>1, BuiltApart
  <1>7. ASSUME NEW q \in Process, NEW x \in obj'[q], x[3] \notin stale'
        PROVE  Own(q, x)' /\ (q = p => x[2] # "d")
    <2>1. CASE q = p
      <3>1. x \in Redirected(o) /\ x \in o /\ x[3] \notin Shared(p)
        BY <1>1, <1>2, <1>5, <1>7, <2>1
      <3>2. /\ x \in Pipes(o) /\ x[2] \in {"r", "w"}
            /\ x[3] \in DOMAIN Table(p) /\ Table(p)[x[3]] = <<p, x[1], x[2]>>
        BY <1>1, <3>1, BuiltOwn
      <3>3. x[3] \notin shut
        <4> SUFFICES ASSUME NEW y \in o \ Redirected(o), y[3] = x[3]
                     PROVE  FALSE
          BY DEF Descriptors
        <4>1. y \in Pipes(o)
          BY <1>1, <3>1, GivenShared
        <4> QED  BY <1>6, <3>1, <3>2, <4>1
      <3> QED  BY <1>3, <2>1, <3>2, <3>3 DEF Own
    <2>2. CASE q # p
      <3>1. x \in obj[q] /\ x[3] \notin stale /\ x[3] \notin Shared(p)
        BY <1>1, <1>2, <1>7, <2>2
      <3>2. x[3] \in DOMAIN Table(p) /\ x[3] \notin Free /\ Table(p)[x[3]] = fds[x[3]] /\ Own(q, x)
        BY <1>1, <3>1, OthersKeep
      <3>3. x[3] \in DOMAIN fds' /\ fds'[x[3]] = fds[x[3]]
        BY <1>3, <1>4, <3>1, <3>2
      <3> QED  BY <2>2, <3>2, <3>3 DEF Own
    <2> QED  BY <2>1, <2>2
  <1>8. OwnPipes'
    BY <1>7 DEF OwnPipes
  <1>9. Apart'
    <2> SUFFICES ASSUME NEW q \in Process, NEW x \in obj'[q], NEW y \in obj'[q],
                        x[1] = y[1], x[2] = "r", y[2] = "d", x[3] = y[3], x[3] \notin stale'
                 PROVE  FALSE
      BY DEF Apart
    <2>1. q # p /\ x \in obj[q] /\ y \in obj[q] /\ x[3] \notin stale
      BY <1>1, <1>2, <1>7
    <2> QED  BY <2>1 DEF IInv, Apart
  <1> QED  BY <1>8, <1>9

LEMMA BuildKeeps ==
  ASSUME IInv, NEW p \in Process, Room(p), fds' = Table(p),
         obj' = [obj EXCEPT ![p] = BuildStreams(p)], stale' = stale \cup Shared(p)
  PROVE  OwnPipes' /\ Apart'
  <1>1. obj \in [Process -> SUBSET Entry]
    BY DEF IInv, TypeOK, Entry
  <1>2. ASSUME NEW q \in Process, NEW x \in obj'[q], x[3] \notin stale'
        PROVE  Own(q, x)' /\ (q = p => x[2] # "d")
    <2>1. CASE q = p
      <3>1. x \in BuildStreams(p) /\ x[3] \notin Shared(p)
        BY <1>1, <1>2, <2>1
      <3> QED  BY <2>1, <3>1, BuiltOwn DEF Own
    <2>2. CASE q # p
      <3>1. x \in obj[q] /\ x[3] \notin stale
        BY <1>1, <1>2, <2>2
      <3> QED  BY <2>2, <3>1, OthersKeep DEF Own
    <2> QED  BY <2>1, <2>2
  <1>3. OwnPipes'
    BY <1>2 DEF OwnPipes
  <1>4. Apart'
    <2> SUFFICES ASSUME NEW q \in Process, NEW x \in obj'[q], NEW y \in obj'[q],
                        x[1] = y[1], x[2] = "r", y[2] = "d", x[3] = y[3], x[3] \notin stale'
                 PROVE  FALSE
      BY DEF Apart
    <2>1. q # p /\ x \in obj[q] /\ y \in obj[q] /\ x[3] \notin stale
      BY <1>1, <1>2
    <2> QED  BY <2>1 DEF IInv, Apart
  <1> QED  BY <1>3, <1>4

LEMMA ReaderStartsKeeps ==
  ASSUME IInv, NEW p \in Process, ReaderStarts(p)
  PROVE  OwnPipes' /\ Apart'
  <1>0. NthFree(1) \in Free
    BY FirstIsFree DEF ReaderStarts
  <1>1. PICK f \in Free, n \in DescriptorsOf(p, "out", "r") \cap DOMAIN fds :
          /\ obj' = [obj EXCEPT ![p] = @ \cup {<<"out", "d", f>>}]
          /\ fds' = [m \in DOMAIN fds \cup {f} |-> IF m \in DOMAIN fds THEN fds[m] ELSE fds[n]]
          /\ stale' = stale \cup (IF n \in stale THEN {f} ELSE {})
    BY <1>0 DEF ReaderStarts
  <1>2. f \notin DOMAIN fds /\ obj \in [Process -> SUBSET Entry]
    BY DEF Free, IInv, TypeOK, Entry
  <1>3. PICK e \in obj[p] : e[1] = "out" /\ e[2] = "r" /\ e[3] = n
    BY DEF DescriptorsOf
  <1>4. PICK d : d = <<"out", "d", f>>
    OBVIOUS
  <1>5. \A q \in Process : obj'[q] \subseteq obj[q] \cup (IF q = p THEN {d} ELSE {})
    BY <1>1, <1>2, <1>4
  <1>6. \A m \in DOMAIN fds : m \in DOMAIN fds' /\ fds'[m] = fds[m]
    BY <1>1
  <1>7. f \in DOMAIN fds' /\ fds'[f] = fds[n]
    BY <1>1, <1>2
  <1>8. ASSUME NEW q \in Process, NEW x \in obj[q], x[3] \notin stale'
        PROVE  Own(q, x)' /\ Own(q, x)
    <2>1. Own(q, x)
      BY <1>1, <1>8 DEF IInv, OwnPipes
    <2> QED  BY <2>1, <1>6 DEF Own
  <1>9. ASSUME f \notin stale' PROVE Own(p, d)'
    <2>1. n \notin stale
      BY <1>1, <1>9
    <2>2. Own(p, e)
      BY <1>3, <2>1 DEF IInv, OwnPipes
    <2>3. fds[n] = <<p, "out", "r">>
      BY <1>3, <2>2 DEF Own
    <2>4. f \in DOMAIN fds' /\ fds'[f] = <<p, "out", "r">>
      BY <1>7, <2>3
    <2>5. d[1] = "out" /\ d[2] = "d" /\ d[3] = f
      BY <1>4
    <2> QED  BY <2>4, <2>5 DEF Own
  <1>10. OwnPipes'
    <2> SUFFICES ASSUME NEW q \in Process, NEW x \in obj'[q], x[3] \notin stale'
                 PROVE  Own(q, x)'
      BY DEF OwnPipes
    <2>1. CASE x \in obj[q]
      BY <1>8, <2>1
    <2>2. CASE x \notin obj[q]
      <3>1. q = p /\ x = d
        BY <1>5, <2>2
      <3>2. x[3] = f
        BY <1>4, <3>1
      <3> QED  BY <1>9, <3>1, <3>2
    <2> QED  BY <2>1, <2>2
  <1>11. Apart'
    <2> SUFFICES ASSUME NEW q \in Process, NEW x \in obj'[q], NEW y \in obj'[q],
                        x[1] = y[1], x[2] = "r", y[2] = "d", x[3] = y[3], x[3] \notin stale'
                 PROVE  FALSE
      BY DEF Apart
    <2>1. x \in obj[q] /\ x[3] \notin stale
      BY <1>1, <1>4, <1>5
    <2>2. x[3] # f
      BY <2>1, <1>2 DEF IInv, OwnPipes, Own
    <2>3. y \in obj[q]
      BY <1>4, <1>5, <2>2
    <2> QED  BY <2>1, <2>3 DEF IInv, Apart
  <1> QED  BY <1>10, <1>11

\* An object gives up some of its descriptors, which are closed.
LEMMA GivingUpKeeps ==
  ASSUME IInv, NEW p \in Process, NEW G \in SUBSET obj[p],
         \A x \in obj[p] \ G, y \in G : x[3] = y[3] => x[3] \in stale,
         obj' = [obj EXCEPT ![p] = @ \ G], fds' = Closing(fds, Descriptors(G)), stale' = stale
  PROVE  OwnPipes' /\ Apart'
  <1>1. obj \in [Process -> SUBSET Entry]
    BY DEF IInv, TypeOK, Entry
  <1>2. \A q \in Process : obj'[q] \subseteq obj[q] /\ (q = p => obj'[q] = obj[q] \ G)
    BY <1>1
  <1>3. ASSUME NEW q \in Process, NEW x \in obj'[q], x[3] \notin stale
        PROVE  Own(q, x)'
    <2>1. x \in obj[q] /\ Own(q, x)
      BY <1>2, <1>3 DEF IInv, OwnPipes
    <2>2. x[3] \notin Descriptors(G)
      <3> SUFFICES ASSUME NEW y \in G, x[3] = y[3]
                   PROVE  FALSE
        BY DEF Descriptors
      <3>1. Own(p, y)
        BY <1>3 DEF IInv, OwnPipes
      <3>2. q = p
        BY <2>1, <3>1 DEF Own
      <3> QED  BY <1>2, <1>3, <3>2
    <2> QED  BY <2>1, <2>2 DEF Own, Closing
  <1> QED  BY <1>2, <1>3 DEF OwnPipes, Apart, IInv

LEMMA ReaderEndsKeeps ==
  ASSUME IInv, NEW p \in Process, NEW k, ReaderEnds(p, k)
  PROVE  OwnPipes' /\ Apart'
  <1> DEFINE G == IF k = "out" THEN {x \in obj[p] : x[2] = "d"} ELSE {}
  <1>1. /\ obj' = [obj EXCEPT ![p] = @ \ G] /\ fds' = Closing(fds, Descriptors(G)) /\ stale' = stale
    BY DEF ReaderEnds
  <1>2. ASSUME NEW x \in obj[p] \ G, NEW y \in G, x[3] = y[3], x[3] \notin stale
        PROVE  FALSE
    <2>1. y \in obj[p] /\ y[2] = "d" /\ x[2] # "d"
      BY <1>2
    <2>2. Own(p, x) /\ Own(p, y)
      BY <1>2, <2>1 DEF IInv, OwnPipes
    <2>3. x[1] = y[1] /\ x[2] = "r"
      BY <1>2, <2>1, <2>2 DEF Own
    <2> QED  BY <1>2, <2>1, <2>3 DEF IInv, Apart
  <1>3. G \in SUBSET obj[p]
    OBVIOUS
  <1> HIDE DEF G
  <1> QED  BY <1>1, <1>2, <1>3, GivingUpKeeps

LEMMA CloseKeeps ==
  ASSUME IInv, NEW p \in Process, CloseFileDescriptor(p)
  PROVE  OwnPipes' /\ Apart'
  BY DEF CloseFileDescriptor, IInv, OwnPipes, Apart, Own, Closing

LEMMA NextKeeps ==
  ASSUME IInv, [Next]_vars
  PROVE  OwnPipes' /\ Apart'
  <1>1. CASE UNCHANGED <<fds, obj, stale>>
    BY <1>1 DEF IInv, OwnPipes, Apart, Own
  <1>2. ASSUME NEW p \in Process, ForkAndExec(p)
        PROVE  OwnPipes' /\ Apart'
    BY <1>2, ForkKeeps
  <1>3. ASSUME NEW p \in Process, LaunchFails(p)
        PROVE  OwnPipes' /\ Apart'
    BY <1>3, BuildKeeps DEF LaunchFails, Table
  <1>4. ASSUME NEW p \in Process, Spawn(p)
        PROVE  OwnPipes' /\ Apart'
    <2>1. Shared(p) = {}
      BY <1>4, StreamsAssumption DEF Spawn, Shared
    <2> QED  BY <1>4, <2>1, BuildKeeps DEF Spawn, Table
  <1>5. ASSUME NEW p \in Process, Destroys(p)
        PROVE  OwnPipes' /\ Apart'
    <2>1. obj' = [obj EXCEPT ![p] = @ \ obj[p]]
      BY <1>5 DEF Destroys
    <2> QED  BY <1>5, <2>1, GivingUpKeeps DEF Destroys
  <1>6. ASSUME NEW p \in Process, NEW k, WriteBegins(p, k) \/ WriteEnds(p, k) \/ Reads(p, k)
        PROVE  UNCHANGED <<fds, obj, stale>>
    BY <1>6 DEF WriteBegins, WriteEnds, Reads
  <1>7. ASSUME NEW p \in Process, OutOfDescriptors(p) \/ Exits(p) \/ Forgets(p) \/ ReaderDeaf(p)
        PROVE  UNCHANGED <<fds, obj, stale>>
    BY <1>7 DEF OutOfDescriptors, Exits, Forgets, ReaderDeaf
  <1>8. CASE UNCHANGED vars
    BY <1>1, <1>8 DEF vars
  <1>9. CASE Next
    BY <1>1, <1>2, <1>3, <1>4, <1>5, <1>6, <1>7, <1>9, ReaderStartsKeeps, ReaderEndsKeeps, CloseKeeps
       DEF Next
  <1> QED  BY <1>8, <1>9

\* In every order of launches, failures, exits and closes, each descriptor of
\* a Process object is an end of a pipe of that process, unless its number
\* was closed without the object (Process::CloseFileDescriptor, FD streams).
THEOREM ObjectsOwnTheirPipes == Spec => []OwnPipes
  <1>1. Init => IInv
    BY StreamsAssumption DEF Init, IInv, TypeOK, OwnPipes, Apart
  <1>2. IInv /\ [Next]_vars => IInv'
    BY NextKeeps, TypesStay DEF IInv
  <1>3. IInv => OwnPipes
    BY DEF IInv
  <1> QED  BY <1>1, <1>2, <1>3, PTL DEF Spec

----------------------------------------------------------------------------
(* Who can write to the output pipes of a static process.  The invariant   *)
(* needs that nobody has an end of a pipe that is not there yet.           *)

Fresh ==
  \A p \in Process : life[p] = "none" => \A k \in Kind, s \in {"r", "w"} : ~Open(<<p, k, s>>)

WInv == TypeOK /\ WritesAlone /\ Fresh

\* What StageZero has open after a launch.
LEMMA TableHolds ==
  ASSUME NEW p \in Process, Room(p), NEW n \in DOMAIN Table(p)
  PROVE  \/ n \in DOMAIN fds /\ Table(p)[n] = fds[n]
         \/ \E x \in Pipes(BuildStreams(p)) : n = x[3] /\ Table(p)[n] = <<p, x[1], x[2]>>
  <1>1. CASE n \in DOMAIN fds
    BY <1>1, OpenedIs
  <1>2. CASE n \notin DOMAIN fds
    <2>1. DOMAIN Table(p) = DOMAIN fds \cup Descriptors(Pipes(BuildStreams(p)))
      BY OpenedIs
    <2>2. n \in Descriptors(Pipes(BuildStreams(p)))
      BY <1>2, <2>1
    <2>3. PICK x \in Pipes(BuildStreams(p)) : n = x[3]
      BY <2>2 DEF Descriptors
    <2> QED  BY <2>3, OpenedIs
  <1> QED  BY <1>1, <1>2

LEMMA NoLaunchKeeps ==
  ASSUME WInv,
         \A e \in End : HeldByStageZero(e)' => HeldByStageZero(e),
         \A q \in Process : /\ held'[q] \subseteq held[q]
                            /\ life'[q] = "none" => life[q] = "none"
                            /\ life[q] = "failed" => life'[q] = "failed"
  PROVE  WritesAlone' /\ Fresh'
  <1>1. \A p \in Process, k \in Kind, s \in {"r", "w"} : <<p, k, s>> \in End
    BY DEF End
  <1>2. \A p \in Process, k \in Output : <<p, k, "w">> \in End
    BY DEF End, Output
  <1>3. WritesAlone'
    BY <1>2 DEF WritesAlone, WInv
  <1>4. Fresh'
    BY <1>1 DEF Fresh, WInv, Open
  <1> QED  BY <1>3, <1>4

LEMMA LaunchKeeps ==
  ASSUME WInv, NEW p \in Process, life[p] = "none", life'[p] # "none",
         \A e \in End : HeldByStageZero(e)' => HeldByStageZero(e) \/ e[1] = p,
         \A q \in Process \ {p} : held'[q] = held[q] /\ life'[q] = life[q],
         \A e \in held'[p] : e \in held[p] \/ e[1] = p \/ HeldByStageZero(e),
         p \notin Virtual /\ life'[p] # "failed" => \A k \in Output : ~HeldByStageZero(<<p, k, "w">>)'
  PROVE  WritesAlone' /\ Fresh'
  <1>1. \A q \in Process, k \in Kind, s \in {"r", "w"} : <<q, k, s>> \in End /\ <<q, k, s>>[1] = q
    BY DEF End
  <1>2. Output \subseteq Kind
    BY DEF Output
  <1>3. ASSUME NEW r \in Process \ Virtual, NEW k \in Output, life'[r] # "failed"
        PROVE  /\ ~HeldByStageZero(<<r, k, "w">>)'
               /\ \A q \in Process \ {r} : <<r, k, "w">> \notin held'[q]
    <2>1. CASE r = p
      <3>1. \A q \in Process \ {p} : <<p, k, "w">> \notin held[q]
        BY <1>2 DEF WInv, Fresh, Open
      <3> QED  BY <1>3, <2>1, <3>1
    <2>2. CASE r # p
      <3>1. /\ ~HeldByStageZero(<<r, k, "w">>)
            /\ \A q \in Process \ {r} : <<r, k, "w">> \notin held[q]
        BY <1>3, <2>2 DEF WInv, WritesAlone
      <3>2. <<r, k, "w">> \in End /\ <<r, k, "w">>[1] # p
        BY <1>1, <1>2, <2>2
      <3> QED  BY <3>1, <3>2
    <2> QED  BY <2>1, <2>2
  <1>4. WritesAlone'
    BY <1>3 DEF WritesAlone
  <1>5. ASSUME NEW r \in Process, life'[r] = "none", NEW k \in Kind, NEW s \in {"r", "w"}
        PROVE  ~Open(<<r, k, s>>)'
    <2>1. r # p /\ life[r] = "none"
      BY <1>5
    <2>2. ~HeldByStageZero(<<r, k, s>>) /\ \A q \in Process : <<r, k, s>> \notin held[q]
      BY <2>1 DEF WInv, Fresh, Open
    <2>3. <<r, k, s>> \in End /\ <<r, k, s>>[1] # p
      BY <1>1, <2>1
    <2> QED  BY <2>2, <2>3 DEF Open
  <1>6. Fresh'
    BY <1>5 DEF Fresh
  <1> QED  BY <1>4, <1>6

LEMMA TableEnds ==
  ASSUME NEW p \in Process, Room(p), NEW e, NEW n \in DOMAIN Table(p), Table(p)[n] = e
  PROVE  HeldByStageZero(e) \/ e[1] = p
  BY TableHolds DEF HeldByStageZero

LEMMA ForkAlone ==
  ASSUME WInv, NEW p \in Process, ForkAndExec(p)
  PROVE  WritesAlone' /\ Fresh'
  <1> DEFINE o == BuildStreams(p)
             shut == Descriptors(o \ Redirected(o))
  <1>1. /\ Room(p) /\ life[p] = "none" /\ p \notin Virtual
        /\ life \in [Process -> {"none", "alive", "dead", "failed"}] /\ held \in [Process -> SUBSET End]
    BY DEF ForkAndExec, WInv, TypeOK
  <1>2. fds' = Closing(Table(p), shut)
    BY DEF ForkAndExec, AfterFork, Table
  <1>3. \/ life' = [life EXCEPT ![p] = "alive"] /\ held' = [held EXCEPT ![p] = Inherited(p, Table(p))]
        \/ life' = [life EXCEPT ![p] = "failed"] /\ held' = held
    BY DEF ForkAndExec, ChildRuns, ChildExits, Table
  <1>4. \A n \in DOMAIN fds' : n \in DOMAIN Table(p) /\ n \notin shut /\ fds'[n] = Table(p)[n]
    BY <1>2 DEF Closing
  <1>5. \A e \in End : HeldByStageZero(e)' => HeldByStageZero(e) \/ e[1] = p
    <2> SUFFICES ASSUME NEW e \in End, NEW n \in DOMAIN fds', fds'[n] = e
                 PROVE  HeldByStageZero(e) \/ e[1] = p
      BY DEF HeldByStageZero
    <2> QED  BY <1>1, <1>4, TableEnds
  <1>6. \A e \in held'[p] : e \in held[p] \/ e[1] = p \/ HeldByStageZero(e)
    <2>1. CASE held' = held
      BY <2>1
    <2>2. CASE held' = [held EXCEPT ![p] = Inherited(p, Table(p))]
      <3> SUFFICES ASSUME NEW e \in held'[p]
                   PROVE  e[1] = p \/ HeldByStageZero(e)
        OBVIOUS
      <3>1. \E n \in DOMAIN Table(p) : Table(p)[n] = e
        BY <1>1, <2>2 DEF Inherited
      <3> QED  BY <1>1, <3>1, TableEnds
    <2> QED  BY <1>3, <2>1, <2>2
  <1>7. \A k \in Output : ~HeldByStageZero(<<p, k, "w">>)'
    <2> SUFFICES ASSUME NEW k \in Output, NEW n \in DOMAIN fds', fds'[n] = <<p, k, "w">>
                 PROVE  FALSE
      BY DEF HeldByStageZero
    <2>1. n \in DOMAIN Table(p) /\ Table(p)[n] = <<p, k, "w">> /\ n \notin shut
      BY <1>4
    <2>2. k \in Kind /\ k \notin Input /\ k # "events"
      BY DEF Output, Input
    <2>3. CASE n \in DOMAIN fds /\ fds[n] = <<p, k, "w">>
      BY <1>1, <2>2, <2>3 DEF WInv, Fresh, Open, HeldByStageZero
    <2>4. ASSUME NEW x \in Pipes(o), n = x[3], Table(p)[n] = <<p, x[1], x[2]>>
          PROVE  FALSE
      <3>1. x[1] = k /\ x[2] = "w" /\ x \in o
        BY <2>1, <2>4 DEF Pipes
      <3>2. x \notin Redirected(o)
        BY <2>2, <3>1 DEF Redirected, ParentSide
      <3> QED  BY <2>1, <2>4, <3>1, <3>2 DEF Descriptors
    <2> QED  BY <1>1, <2>1, <2>3, <2>4, TableHolds
  <1>8. \A q \in Process \ {p} : held'[q] = held[q] /\ life'[q] = life[q]
    BY <1>1, <1>3
  <1>9. life'[p] # "none"
    BY <1>1, <1>3
  <1> QED  BY <1>1, <1>5, <1>6, <1>7, <1>8, <1>9, LaunchKeeps

\* A launch that leaves both ends of the pipes with StageZero: it fails, or
\* is that of a virtual process.
LEMMA BuildAlone ==
  ASSUME WInv, NEW p \in Process, Room(p), life[p] = "none", fds' = Table(p),
         \/ life' = [life EXCEPT ![p] = "failed"] /\ held' = held
         \/ /\ p \in Virtual /\ life' \in {[life EXCEPT ![p] = "alive"], [life EXCEPT ![p] = "dead"]}
            /\ held' \in {held, [held EXCEPT ![p] = KeptOpen(p)]}
  PROVE  WritesAlone' /\ Fresh'
  <1>1. /\ life \in [Process -> {"none", "alive", "dead", "failed"}] /\ held \in [Process -> SUBSET End]
    BY DEF WInv, TypeOK
  <1>2. \A e \in End : HeldByStageZero(e)' => HeldByStageZero(e) \/ e[1] = p
    <2> SUFFICES ASSUME NEW e \in End, NEW n \in DOMAIN Table(p), Table(p)[n] = e
                 PROVE  HeldByStageZero(e) \/ e[1] = p
      BY DEF HeldByStageZero
    <2> QED  BY TableEnds
  <1>3. \A e \in KeptOpen(p) : e[1] = p
    BY DEF KeptOpen, Sent
  <1>4. \A e \in held'[p] : e \in held[p] \/ e[1] = p
    BY <1>1, <1>3
  <1>5. \A q \in Process \ {p} : held'[q] = held[q] /\ life'[q] = life[q]
    BY <1>1
  <1>6. life'[p] # "none" /\ (p \notin Virtual => life'[p] = "failed")
    BY <1>1
  <1> QED  BY <1>2, <1>4, <1>5, <1>6, LaunchKeeps

LEMMA OthersAlone ==
  ASSUME WInv, NEW p \in Process,
         \/ OutOfDescriptors(p) \/ Exits(p) \/ Forgets(p) \/ Destroys(p)
         \/ ReaderStarts(p) \/ ReaderDeaf(p) \/ CloseFileDescriptor(p)
         \/ \E k \in Served : ReaderEnds(p, k)
         \/ \E k \in Written : WriteBegins(p, k) \/ WriteEnds(p, k) \/ Reads(p, k)
  PROVE  WritesAlone' /\ Fresh'
  <1> DEFINE Fewer == \A n \in DOMAIN fds' : \E m \in DOMAIN fds : fds'[n] = fds[m]
             Lives == /\ \A q \in Process : held'[q] \subseteq held[q]
                      /\ \A q \in Process : life'[q] = "none" => life[q] = "none"
                      /\ \A q \in Process : life[q] = "failed" => life'[q] = "failed"
  <1>0. /\ life \in [Process -> {"none", "alive", "dead", "failed"}] /\ held \in [Process -> SUBSET End]
    BY DEF WInv, TypeOK
  <1>1. CASE OutOfDescriptors(p)
    <2>1. Fewer /\ Lives
      BY <1>0, <1>1 DEF OutOfDescriptors
    <2> QED  BY <2>1, NoLaunchKeeps DEF HeldByStageZero
  <1>2. CASE Exits(p)
    <2>1. Fewer /\ Lives
      BY <1>0, <1>2 DEF Exits
    <2> QED  BY <2>1, NoLaunchKeeps DEF HeldByStageZero
  <1>3. CASE Destroys(p) \/ CloseFileDescriptor(p) \/ \E k \in Served : ReaderEnds(p, k)
    <2>1. Fewer
      BY <1>3 DEF Destroys, CloseFileDescriptor, ReaderEnds, Closing
    <2>2. held' = held /\ life' = life
      BY <1>3 DEF Destroys, CloseFileDescriptor, ReaderEnds
    <2> QED  BY <2>1, <2>2, NoLaunchKeeps DEF HeldByStageZero
  <1>4. CASE ReaderStarts(p)
    <2>1. Fewer /\ held' = held /\ life' = life
      BY <1>4 DEF ReaderStarts
    <2> QED  BY <2>1, NoLaunchKeeps DEF HeldByStageZero
  <1>5. CASE Forgets(p) \/ ReaderDeaf(p)
             \/ \E k \in Written : WriteBegins(p, k) \/ WriteEnds(p, k) \/ Reads(p, k)
    <2>1. UNCHANGED <<life, fds, held>>
      BY <1>5 DEF Forgets, ReaderDeaf, WriteBegins, WriteEnds, Reads
    <2> QED  BY <2>1, NoLaunchKeeps DEF HeldByStageZero
  <1> QED  BY <1>1, <1>2, <1>3, <1>4, <1>5

\* Nobody but a static process ever holds an end with which its output,
\* startup notification, parameter requests or telemetry could be written, so
\* a reader of StageZero sees the end of the data when that process is dead
\* (ForkAndExec closes the child's ends before StageZero forks another).
THEOREM OutputWrittenAlone == Spec => []WritesAlone
  <1>1. Init => WInv
    <2>1. Init => TypeOK
      BY StreamsAssumption DEF Init, TypeOK
    <2>2. ASSUME Init, NEW p, NEW k, NEW s
          PROVE  ~Open(<<p, k, s>>)
      BY <2>2 DEF Init, Open, HeldByStageZero
    <2> QED  BY <2>1, <2>2 DEF WInv, WritesAlone, Fresh, Open
  <1>2. WInv /\ [Next]_vars => WInv'
    <2> SUFFICES ASSUME WInv, [Next]_vars
                 PROVE  WInv'
      OBVIOUS
    <2>1. CASE UNCHANGED vars
      BY <2>1 DEF vars, WInv, TypeOK, WritesAlone, Fresh, Open, HeldByStageZero
    <2>2. ASSUME NEW p \in Process, ForkAndExec(p)
          PROVE  WritesAlone' /\ Fresh'
      BY <2>2, ForkAlone
    <2>3. ASSUME NEW p \in Process, LaunchFails(p)
          PROVE  WritesAlone' /\ Fresh'
      BY <2>3, BuildAlone DEF LaunchFails, Table
    <2>4. ASSUME NEW p \in Process, Spawn(p)
          PROVE  WritesAlone' /\ Fresh'
      BY <2>4, BuildAlone DEF Spawn, SetUp, Table
    <2>5. CASE Next
      BY <2>2, <2>3, <2>4, <2>5, OthersAlone, TypesStay DEF Next, WInv
    <2> QED  BY <2>1, <2>5
  <1>3. WInv => WritesAlone
    BY DEF WInv
  <1> QED  BY <1>1, <1>2, <1>3, PTL DEF Spec
=============================================================================
