---------------------------- MODULE FlightProofs ----------------------------
(***************************************************************************)
(* Proofs about FlightDirector.  Its search for loops is correct: what it  *)
(* has visited when it finds none is closed under the deps and holds all   *)
(* the root needs, but not the root (Found).  What it starts stays active, *)
(* because a number that keeps an autostart active is never given to the   *)
(* connection on which its clients stop things (Kept).                     *)
(***************************************************************************)
EXTENDS Flight, WellFoundedInduction, FiniteSetTheorems, SequenceTheorems, TLAPS

-----------------------------------------------------------------------------
(* Induction up to a bound, over a set of numbers.                         *)

\* A set of numbers that is not empty has a least element.
LEMMA Least ==
    ASSUME NEW S \in SUBSET Nat, S # {}
    PROVE  \E m \in S : \A k \in S : m <= k
<1> DEFINE R == OpToRel(<, Nat)
<1>1. IsWellFoundedOn(R, Nat)
    BY NatLessThanWellFounded, Zenon
<1>2. \A k, m \in Nat : k < m => <<k, m>> \in R
    BY DEF OpToRel
<1> HIDE DEF R
<1>3. \E m \in S : \A k \in S : <<k, m>> \notin R
    BY <1>1, WFMin
<1>4. PICK m \in S : \A k \in S : <<k, m>> \notin R
    BY <1>3
<1>5. ASSUME NEW k \in S, k < m PROVE FALSE
    BY <1>2, <1>4, <1>5
<1> QED
    BY <1>5

\* A set that holds 0, and n whenever it holds n - 1, holds all up to the bound.
LEMMA UpTo ==
    ASSUME NEW n \in Nat, NEW S, 0 \in S, \A k \in 1..n : k - 1 \in S => k \in S
    PROVE  0..n \subseteq S
<1> SUFFICES ASSUME (0..n) \ S # {} PROVE FALSE
    OBVIOUS
<1> DEFINE T == (0..n) \ S
           R == OpToRel(<, Nat)
<1>1. T \subseteq Nat /\ T # {}
    OBVIOUS
<1>2. IsWellFoundedOn(R, Nat)
    BY NatLessThanWellFounded, Zenon
<1>3. \A k, m \in Nat : k < m => <<k, m>> \in R
    BY DEF OpToRel
<1> HIDE DEF T, R
<1>4. PICK m \in T : \A k \in T : <<k, m>> \notin R
    BY <1>1, <1>2, WFMin
<1> USE DEF T
<1>5. m \in 1..n
    BY <1>4
<1>6. m - 1 \in T
    BY <1>4, <1>5
<1>7. m - 1 \in Nat /\ m \in Nat /\ m - 1 < m
    BY <1>5
<1> QED
    BY <1>3, <1>4, <1>6, <1>7

\* f starts with a and goes on with step, up to m.
Goes(f, m, A, a, step) ==
    f \in [0..m -> A] /\ f[0] = a /\ \A k \in 1..m : f[k] = step[f[k - 1]]

\* A function may be defined by recursion.
LEMMA Recursion ==
    ASSUME NEW n \in Nat, NEW A, NEW a \in A, NEW step \in [A -> A]
    PROVE  \E f : Goes(f, n, A, a, step)
<1> DEFINE Is(f, m) == Goes(f, m, A, a, step)
           S == {m \in 0..n : \E f : Is(f, m)}
<1>1. 0 \in S
  <2> DEFINE f == [k \in 0..0 |-> a]
  <2>1. Is(f, 0) /\ 0 \in 0..n
      BY DEF Goes
  <2> HIDE DEF f
  <2> QED
      BY <2>1
<1>2. ASSUME NEW m \in 1..n, m - 1 \in S PROVE m \in S
  <2>1. PICK f : Is(f, m - 1)
      BY <1>2
  <2> DEFINE g == [k \in 0..m |-> IF k = 0 THEN a ELSE step[f[k - 1]]]
  <2>2. \A k \in 0..m : k = 0 \/ k - 1 \in 0..(m - 1)
      OBVIOUS
  <2>3. g \in [0..m -> A] /\ g[0] = a /\ \A k \in 1..m : g[k] = step[f[k - 1]]
      BY <2>1, <2>2 DEF Goes
  <2>4. \A k \in 0..(m - 1) : g[k] = f[k]
    <3>1. \A k \in 0..(m - 1) : k \in 0..m /\ (k = 0 \/ (k \in 1..(m - 1) /\ k \in 1..m))
        OBVIOUS
    <3> HIDE DEF g
    <3> QED
        BY <2>1, <2>3, <3>1 DEF Goes
  <2>5. \A k \in 1..m : k - 1 \in 0..(m - 1)
      OBVIOUS
  <2> HIDE DEF g
  <2>6. Is(g, m)
      BY <2>1, <2>3, <2>4, <2>5 DEF Goes
  <2> QED
      BY <2>6
<1> HIDE DEF S
<1>3. n \in S
    BY <1>1, <1>2, UpTo
<1> QED
    BY <1>3 DEF S

\* What a loop keeps: A[i] holds what there may be after i names.
LEMMA OverKeeps ==
    ASSUME NEW B, NEW names \in Seq(B), NEW f, NEW A, NEW acc \in A[0],
           \A i \in 1..Len(names) : \A x \in A[i - 1] : f[names[i]][x] \in A[i]
    PROVE  Over(f, acc, names) \in A[Len(names)]
<1> SUFFICES ASSUME NEW n \in Nat, n = Len(names)
              PROVE  Over(f, acc, names) \in A[n]
    BY LenProperties
<1> DEFINE Is(g, m) == g = [i \in 0..m |-> IF i = 0 THEN acc ELSE f[names[i]][g[i - 1]]]
           From[i \in 0..n] == IF i = 0 THEN acc ELSE f[names[i]][From[i - 1]]
<1>1. Over(f, acc, names) = From[n]
    BY DEF Over
<1>2. \E g : Is(g, n)
  <2> DEFINE S == {m \in 0..n : \E g : Is(g, m)}
  <2>1. 0 \in S
    <3> DEFINE g == [k \in 0..0 |-> acc]
    <3>1. g = [k \in 0..0 |-> IF k = 0 THEN acc ELSE f[names[k]][g[k - 1]]]
        OBVIOUS
    <3>2. 0 \in 0..n
        OBVIOUS
    <3> QED
        BY <3>1, <3>2, Zenon
  <2>2. ASSUME NEW m \in 1..n, m - 1 \in S PROVE m \in S
    <3>1. PICK h : Is(h, m - 1)
        BY <2>2
    <3> DEFINE g == [k \in 0..m |-> IF k = 0 THEN acc ELSE f[names[k]][h[k - 1]]]
    <3>2. \A k \in 0..(m - 1) : k \in 0..m
        OBVIOUS
    <3>3. \A k \in 0..(m - 1) : h[k] = g[k]
        BY <3>1, <3>2
    <3>4. \A k \in 0..m : k # 0 => h[k - 1] = g[k - 1]
      <4> HIDE DEF g
      <4>1. \A k \in 0..m : k # 0 => k - 1 \in 0..(m - 1)
          OBVIOUS
      <4> QED
          BY <3>3, <4>1
    <3>5. Is(g, m)
        BY <3>4
    <3>6. m \in 0..n
        OBVIOUS
    <3> HIDE DEF g
    <3> QED
        BY <3>5, <3>6
  <2> HIDE DEF S
  <2>3. 0..n \subseteq S
      BY <2>1, <2>2, UpTo
  <2> QED
      BY <2>3, SMTT(30) DEF S
<1>3. Is(From, n)
    BY <1>2, Zenon DEF From
<1> HIDE DEF From
<1> DEFINE T == {m \in 0..n : From[m] \in A[m]}
<1>4. 0 \in T
    BY <1>3
<1>5. ASSUME NEW m \in 1..n, m - 1 \in T PROVE m \in T
  <2>1. m \in 0..n /\ m # 0
      OBVIOUS
  <2>2. From[m] = f[names[m]][From[m - 1]]
      BY <1>3, <2>1
  <2>3. From[m - 1] \in A[m - 1]
      BY <1>5
  <2> QED
      BY <2>1, <2>2, <2>3
<1>6. n \in T
  <2> HIDE DEF T
  <2>1. 0..n \subseteq T
      BY <1>4, <1>5, UpTo, Zenon
  <2>2. n \in 0..n
      OBVIOUS
  <2> QED
      BY <2>1, <2>2, Zenon
<1> QED
    BY <1>1, <1>6

-----------------------------------------------------------------------------
(* The graph.                                                              *)

\* The parts of a graph that was tried.
LEMMA GraphParts ==
    ASSUME graph \in Graphs
    PROVE  /\ graph.subsystem \subseteq Name
           /\ graph.interface \in Seq(Name) /\ graph.autostart \in Seq(Name)
           /\ \A s \in graph.subsystem :
                graph.dep[s] \in Seq(Name) /\ graph.zygotes[s] \in Seq(Name)
BY GraphsAssumption

LEMMA DistinctNames ==
    ASSUME NEW names, Distinct(names)
    PROVE  \A i \in DOMAIN names : names[i] \in graph.subsystem
BY DEF Distinct, ToSet

LEMMA Single ==
    ASSUME NEW S, NEW x \in S
    PROVE  <<x>> \in Seq(S) /\ Len(<<x>>) = 1 /\ <<x>>[1] = x
OBVIOUS

\* Deps are names of subsystems.
LEMMA DepsAreNames ==
    ASSUME graph \in Graphs, WellFormed, NEW s \in graph.subsystem
    PROVE  Deps(s) \in Seq(graph.subsystem)
<1> SUFFICES ASSUME NEW B, B = graph.subsystem
              PROVE  Deps(s) \in Seq(B)
    OBVIOUS
<1> DEFINE first == IF graph.zygotes[s] # <<>> /\ Subspace \in graph.subsystem
                    THEN <<Subspace>> ELSE <<>>
           names == first \o graph.zygotes[s]
           A == [i \in 0..Len(names) |-> Seq(B)]
<1>1. graph.dep[s] \in Seq(B)
  <2>1. graph.dep[s] \in Seq(Name) /\ Distinct(graph.dep[s])
      BY GraphParts DEF WellFormed
  <2> QED
      BY <2>1, DistinctNames
<1>2. names \in Seq(B)
  <2>1. graph.zygotes[s] \in Seq(Name) /\ ToSet(graph.zygotes[s]) \subseteq B
      BY GraphParts DEF WellFormed
  <2>2. graph.zygotes[s] \in Seq(B)
      BY <2>1 DEF ToSet
  <2>3. first = <<>> \/ (first = <<Subspace>> /\ Subspace \in B)
      OBVIOUS
  <2>4. Subspace \in B => <<Subspace>> \in Seq(B)
      BY Single
  <2> HIDE DEF first
  <2>5. first \in Seq(B)
      BY <2>3, <2>4, EmptySeq
  <2> QED
      BY <2>2, <2>5, ConcatProperties
<1> HIDE DEF names
<1>3. Len(names) \in Nat
    BY <1>2
<1>4. graph.dep[s] \in A[0]
    BY <1>1, <1>3
<1>5. ASSUME NEW i \in 1..Len(names), NEW x \in A[i - 1]
      PROVE  AddDep[names[i]][x] \in A[i]
  <2>1. x \in Seq(B) /\ names[i] \in B /\ i \in 0..Len(names)
      BY <1>2, <1>3
  <2>2. x \in Seq(Name) /\ names[i] \in Name
      BY <2>1, GraphParts
  <2>3. AddDep[names[i]][x] = IF Contains(x, names[i]) THEN x ELSE Append(x, names[i])
      BY <2>2 DEF AddDep
  <2>4. Append(x, names[i]) \in Seq(B)
      BY <2>1, AppendProperties
  <2> QED
      BY <2>1, <2>3, <2>4
<1> HIDE DEF A
<1>6. Over(AddDep, graph.dep[s], names) \in A[Len(names)]
    BY <1>2, <1>4, <1>5, OverKeeps
<1>7. Len(names) \in 0..Len(names)
    BY <1>3
<1> QED
    BY <1>6, <1>7 DEF Deps, names, A

-----------------------------------------------------------------------------
(* The search for loops.                                                   *)

\* r is seen after the names S: if no loop is found, all of S is visited, and
\* what was visited meanwhile is not the root and has all its deps visited.
Found(root, seen, S, r) ==
    /\ r \in Seen /\ seen.visited \subseteq r.visited
    /\ ~r.loop =>
        /\ ~seen.loop /\ S \subseteq r.visited
        /\ \A t \in r.visited \ seen.visited : t # root /\ ToSet(Deps(t)) \subseteq r.visited

\* f finds so when at most k names are not visited.
Finds(root, k, f) ==
    \A s \in graph.subsystem : \A seen \in Seen :
        Cardinality(Name \ seen.visited) <= k => Found(root, seen, {s}, f[s][seen])

LEMMA SeenParts ==
    /\ \A x \in Seen : x.visited \in SUBSET Name /\ x.loop \in BOOLEAN
    /\ \A v \in SUBSET Name : \A l \in BOOLEAN : [visited |-> v, loop |-> l] \in Seen
BY DEF Seen

LEMMA FoundMore ==
    ASSUME NEW root, NEW x \in Seen, NEW y \in Seen, NEW z \in Seen, NEW S, NEW T,
           Found(root, x, S, y), Found(root, y, T, z)
    PROVE  Found(root, x, S \cup T, z)
BY SeenParts DEF Found

\* What is not visited gets less.
LEMMA FewerLeft ==
    ASSUME NEW v, NEW w, v \subseteq w
    PROVE  /\ Cardinality(Name \ w) \in Nat /\ Cardinality(Name \ v) \in Nat
           /\ Cardinality(Name \ w) <= Cardinality(Name \ v)
           /\ \A s \in Name : s \notin v /\ s \in w =>
                Cardinality(Name \ w) <= Cardinality(Name \ v) - 1
<1>1. IsFiniteSet(Name \ v) /\ IsFiniteSet(Name \ w)
    BY ConstantsAssumption, FS_Difference
<1>2. Cardinality(Name \ w) \in Nat /\ Cardinality(Name \ v) \in Nat
    BY <1>1, FS_CardinalityType
<1>3. Name \ w \subseteq Name \ v
    OBVIOUS
<1>4. Cardinality(Name \ w) <= Cardinality(Name \ v)
    BY <1>1, <1>3, FS_Subset
<1>5. ASSUME NEW s \in Name, s \notin v, s \in w
      PROVE  Cardinality(Name \ w) <= Cardinality(Name \ v) - 1
  <2>1. Name \ w # Name \ v
      BY <1>5
  <2>2. Cardinality(Name \ w) # Cardinality(Name \ v)
      BY <1>1, <1>3, <2>1, FS_Subset
  <2> QED
      BY <1>2, <1>4, <2>2
<1> QED
    BY <1>2, <1>4, <1>5

\* A loop over names that finds what each of them needs.
LEMMA OverFinds ==
    ASSUME NEW root, NEW k \in Nat, NEW f, Finds(root, k, f),
           NEW here \in Seen, Cardinality(Name \ here.visited) <= k,
           NEW names \in Seq(graph.subsystem)
    PROVE  Found(root, here, ToSet(names), Over(f, here, names))
<1> SUFFICES ASSUME NEW n \in Nat, n = Len(names)
              PROVE  Found(root, here, ToSet(names), Over(f, here, names))
    BY LenProperties
<1> DEFINE First(i) == {names[j] : j \in 1..i}
           A == [i \in 0..n |-> {x \in Seen : Found(root, here, First(i), x)}]
<1>1. here \in A[0]
  <2>1. First(0) = {}
      OBVIOUS
  <2>2. Found(root, here, First(0), here)
      BY <2>1 DEF Found
  <2> QED
      BY <2>2
<1>2. ASSUME NEW i \in 1..n, NEW x \in A[i - 1]
      PROVE  f[names[i]][x] \in A[i]
  <2> DEFINE s == names[i]
             y == f[s][x]
  <2>1. i \in 0..n /\ i - 1 \in 0..n /\ s \in graph.subsystem
      BY LenProperties
  <2>2. x \in Seen /\ Found(root, here, First(i - 1), x)
      BY <2>1
  <2>3. First(i) = First(i - 1) \cup {s}
      OBVIOUS
  <2> HIDE DEF First, s
  <2>4. Cardinality(Name \ x.visited) <= k
    <3>1. here.visited \subseteq x.visited
        BY <2>2 DEF Found
    <3>2. /\ Cardinality(Name \ x.visited) \in Nat /\ Cardinality(Name \ here.visited) \in Nat
          /\ Cardinality(Name \ x.visited) <= Cardinality(Name \ here.visited)
        BY <3>1, FewerLeft
    <3> QED
        BY <3>2
  <2>5. Found(root, x, {s}, y)
      BY <2>1, <2>2, <2>4 DEF Finds
  <2>6. y \in Seen
      BY <2>5 DEF Found
  <2> HIDE DEF y
  <2>7. Found(root, here, First(i), y)
      BY <2>2, <2>3, <2>5, <2>6, FoundMore
  <2>8. y \in {z \in Seen : Found(root, here, First(i), z)}
      BY <2>6, <2>7
  <2> QED
      BY <2>1, <2>8 DEF y, s
<1> HIDE DEF A
<1>3. Over(f, here, names) \in A[n]
    BY <1>1, <1>2, OverKeeps
<1>4. Found(root, here, First(n), Over(f, here, names))
    BY <1>3 DEF A
<1>5. First(n) = ToSet(names)
    BY LenProperties DEF ToSet
<1> QED
    BY <1>4, <1>5

\* CheckForSubsystemLoopsRecurse, when below does the calls below it.
Visit(root, k, below) ==
    [s \in graph.subsystem |-> [seen \in Seen |->
        LET here == [visited |-> seen.visited \cup {s}, loop |-> s = root] IN
        IF k = 0 \/ seen.loop \/ s \in seen.visited THEN seen
        ELSE IF here.loop THEN here ELSE Over(below, here, Deps(s))]]

LEMMA VisitSeen ==
    ASSUME graph \in Graphs, WellFormed, NEW root, NEW k,
           NEW below \in [graph.subsystem -> [Seen -> Seen]]
    PROVE  Visit(root, k, below) \in [graph.subsystem -> [Seen -> Seen]]
<1> SUFFICES ASSUME NEW s \in graph.subsystem, NEW seen \in Seen
              PROVE  LET here == [visited |-> seen.visited \cup {s}, loop |-> s = root] IN
                     here \in Seen /\ Over(below, here, Deps(s)) \in Seen
    BY DEF Visit
<1> DEFINE here == [visited |-> seen.visited \cup {s}, loop |-> s = root]
           names == Deps(s)
           n == Len(names)
           A == [i \in 0..n |-> Seen]
<1>1. here \in Seen
  <2>1. seen.visited \cup {s} \in SUBSET Name
      BY SeenParts, GraphParts
  <2>2. (s = root) \in BOOLEAN
      OBVIOUS
  <2> QED
      BY <2>1, <2>2, SeenParts, Zenon
<1>2. names \in Seq(graph.subsystem) /\ n \in Nat
    BY DepsAreNames, LenProperties
<1> HIDE DEF here, names
<1>3. here \in A[0]
    BY <1>1, <1>2
<1>4. ASSUME NEW i \in 1..n, NEW x \in A[i - 1] PROVE below[names[i]][x] \in A[i]
  <2>1. x \in Seen /\ names[i] \in graph.subsystem /\ i \in 0..n
      BY <1>2, LenProperties
  <2> QED
      BY <2>1
<1> HIDE DEF A
<1>5. Over(below, here, names) \in A[n]
    BY <1>2, <1>3, <1>4, OverKeeps
<1>6. Over(below, here, names) \in Seen
    BY <1>2, <1>5 DEF A
<1> QED
    BY <1>1, <1>6 DEF here, names

\* One call finds when the calls below it do.
LEMMA VisitFinds ==
    ASSUME graph \in Graphs, WellFormed, NEW root, NEW k \in Nat, NEW below,
           k # 0 => Finds(root, k - 1, below)
    PROVE  Finds(root, k, Visit(root, k, below))
<1> SUFFICES ASSUME NEW s \in graph.subsystem, NEW seen \in Seen,
                     Cardinality(Name \ seen.visited) <= k
              PROVE  Found(root, seen, {s}, Visit(root, k, below)[s][seen])
    BY DEF Finds
<1> DEFINE here == [visited |-> seen.visited \cup {s}, loop |-> s = root]
           names == Deps(s)
           r == Over(below, here, names)
<1>0. s \in Name
    BY GraphParts
<1>1. Visit(root, k, below)[s][seen] =
          IF k = 0 \/ seen.loop \/ s \in seen.visited THEN seen
          ELSE IF here.loop THEN here ELSE r
    BY DEF Visit
<1>2. here \in Seen
  <2>1. seen.visited \cup {s} \in SUBSET Name
      BY SeenParts, GraphParts
  <2>2. (s = root) \in BOOLEAN
      OBVIOUS
  <2> QED
      BY <2>1, <2>2, SeenParts, Zenon
<1>3. here.visited = seen.visited \cup {s} /\ (here.loop <=> s = root)
    OBVIOUS
<1>4. names \in Seq(graph.subsystem)
    BY DepsAreNames
<1> HIDE DEF here, names, r
<1>5. CASE seen.loop \/ s \in seen.visited
    BY <1>1, <1>5 DEF Found
<1>6. CASE ~seen.loop /\ s \notin seen.visited
  <2>1. /\ Cardinality(Name \ here.visited) \in Nat /\ Cardinality(Name \ seen.visited) \in Nat
        /\ Cardinality(Name \ here.visited) <= Cardinality(Name \ seen.visited) - 1
      BY <1>0, <1>3, <1>6, FewerLeft
  <2>2. k # 0 /\ k - 1 \in Nat /\ Cardinality(Name \ here.visited) <= k - 1
      BY <2>1
  <2>3. CASE s = root
      BY <1>1, <1>2, <1>3, <1>6, <2>2, <2>3 DEF Found
  <2>4. CASE s # root
    <3>1. Visit(root, k, below)[s][seen] = r
        BY <1>1, <1>3, <1>6, <2>2, <2>4
    <3>2. Found(root, here, ToSet(names), r)
        BY <1>2, <1>4, <2>2, OverFinds DEF r
    <3>3. Found(root, seen, {s}, r)
        BY <1>3, <1>6, <2>4, <3>2 DEF Found, names
    <3> QED
        BY <3>1, <3>3
  <2> QED
      BY <2>3, <2>4
<1> QED
    BY <1>5, <1>6 DEF Seen

\* The whole search: n calls may be below the first.
Calls(root, n, f) == f = [k \in 0..n |-> Visit(root, k, f[k - 1])]

LEMMA SearchCalls ==
    ASSUME graph \in Graphs, WellFormed, NEW root \in graph.subsystem,
           NEW n \in Nat, n = Cardinality(Name)
    PROVE  \E f : /\ Calls(root, n, f)
                  /\ Search(root) = Over(f[n], [visited |-> {}, loop |-> FALSE], Deps(root))
<1> DEFINE A == [graph.subsystem -> [Seen -> Seen]]
           Below[k \in 0..n] == Visit(root, k, Below[k - 1])
           none == [visited |-> {}, loop |-> FALSE]
<1>1. Search(root) = Over(Below[n], none, Deps(root))
    BY DEF Search, Visit
<1>2. \E f : Calls(root, n, f)
  <2> DEFINE a == [s \in graph.subsystem |-> [seen \in Seen |-> seen]]
             step == [F \in A |-> Visit(root, 1, F)]
  <2>1. a \in A /\ step \in [A -> A]
      BY VisitSeen
  <2>2. PICK f : Goes(f, n, A, a, step)
    <3> HIDE DEF a, step, A
    <3> QED
        BY <2>1, Recursion
  <2>3. f[0] = Visit(root, 0, f[0 - 1])
      BY <2>2 DEF Goes, Visit
  <2>4. ASSUME NEW k \in 1..n PROVE f[k] = Visit(root, k, f[k - 1])
    <3>1. f[k - 1] \in A
        BY <2>2 DEF Goes
    <3>2. f[k] = Visit(root, 1, f[k - 1])
        BY <2>2, <3>1 DEF Goes
    <3> QED
        BY <3>2 DEF Visit
  <2>5. \A k \in 0..n : k = 0 \/ k \in 1..n
      OBVIOUS
  <2>6. \A k \in 0..n : f[k] = Visit(root, k, f[k - 1])
      BY <2>3, <2>4, <2>5
  <2>7. Calls(root, n, f)
      BY <2>2, <2>6 DEF Goes, Calls
  <2> QED
      BY <2>7
<1>3. Calls(root, n, Below)
    BY <1>2, Zenon DEF Below, Calls
<1> HIDE DEF Below
<1> QED
    BY <1>1, <1>3

LEMMA SearchFinds ==
    ASSUME graph \in Graphs, WellFormed, NEW root \in graph.subsystem
    PROVE  Found(root, [visited |-> {}, loop |-> FALSE], ToSet(Deps(root)), Search(root))
<1> SUFFICES ASSUME NEW n \in Nat, n = Cardinality(Name)
              PROVE  Found(root, [visited |-> {}, loop |-> FALSE], ToSet(Deps(root)), Search(root))
    BY ConstantsAssumption, FS_CardinalityType
<1> DEFINE none == [visited |-> {}, loop |-> FALSE]
<1>1. PICK f : Calls(root, n, f) /\ Search(root) = Over(f[n], none, Deps(root))
    BY SearchCalls
<1>2. \A k \in 0..n : f[k] = Visit(root, k, f[k - 1])
    BY <1>1 DEF Calls
<1> DEFINE T == {k \in 0..n : Finds(root, k, f[k])}
<1>3. 0 \in T
  <2>1. 0 \in 0..n
      OBVIOUS
  <2>2. Finds(root, 0, Visit(root, 0, f[0 - 1]))
      BY VisitFinds
  <2> QED
      BY <1>2, <2>1, <2>2
<1>4. ASSUME NEW k \in 1..n, k - 1 \in T PROVE k \in T
  <2>1. k \in 0..n /\ k \in Nat
      OBVIOUS
  <2>2. Finds(root, k - 1, f[k - 1])
      BY <1>4
  <2>3. Finds(root, k, Visit(root, k, f[k - 1]))
      BY <2>1, <2>2, VisitFinds
  <2> QED
      BY <1>2, <2>1, <2>3
<1>5. Finds(root, n, f[n])
  <2> HIDE DEF T
  <2>1. 0..n \subseteq T
      BY <1>3, <1>4, UpTo, Zenon
  <2>2. n \in T
      BY <2>1
  <2> QED
      BY <2>2 DEF T
<1>6. none \in Seen /\ none.visited = {}
    BY DEF Seen
<1>7. Cardinality(Name \ none.visited) <= n
    BY <1>6
<1> HIDE DEF none
<1>8. Found(root, none, ToSet(Deps(root)), Over(f[n], none, Deps(root)))
    BY <1>5, <1>6, <1>7, OverFinds, DepsAreNames
<1> QED
    BY <1>1, <1>8 DEF none

\* f reports no loop for the names of V.
Silent(V, f) ==
    \A s \in graph.subsystem \cap V : \A seen \in Seen :
        ~seen.loop => f[s][seen] \in Seen /\ ~f[s][seen].loop

LEMMA OverSilent ==
    ASSUME NEW V, NEW f, Silent(V, f), NEW names \in Seq(graph.subsystem), ToSet(names) \subseteq V,
           NEW seen \in Seen, ~seen.loop
    PROVE  Over(f, seen, names) \in Seen /\ ~Over(f, seen, names).loop
<1> DEFINE n == Len(names)
           S == {x \in Seen : ~x.loop}
           A == [i \in 0..n |-> S]
<1>1. n \in Nat /\ \A i \in 1..n : names[i] \in graph.subsystem /\ names[i] \in V
    BY LenProperties DEF ToSet
<1>2. \A i \in 0..n : A[i] = S
    OBVIOUS
<1>3. seen \in A[0]
    BY <1>1
<1>4. ASSUME NEW i \in 1..n, NEW x \in A[i - 1] PROVE f[names[i]][x] \in A[i]
  <2>1. x \in S /\ A[i] = S
      BY <1>1
  <2> QED
      BY <1>1, <2>1 DEF Silent
<1> HIDE DEF A, n
<1>5. Over(f, seen, names) \in A[n]
    BY <1>3, <1>4, OverKeeps DEF n
<1>6. n \in 0..n
    BY <1>1
<1> QED
    BY <1>2, <1>5, <1>6

LEMMA VisitSilent ==
    ASSUME graph \in Graphs, WellFormed, NEW V, \A t \in V : ToSet(Deps(t)) \subseteq V,
           NEW root, root \notin V, NEW k, NEW below, k # 0 => Silent(V, below)
    PROVE  Silent(V, Visit(root, k, below))
<1> SUFFICES ASSUME NEW s \in graph.subsystem, s \in V, NEW seen \in Seen, ~seen.loop
              PROVE  /\ Visit(root, k, below)[s][seen] \in Seen
                     /\ ~Visit(root, k, below)[s][seen].loop
    BY DEF Silent
<1> DEFINE here == [visited |-> seen.visited \cup {s}, loop |-> s = root]
           names == Deps(s)
           r == Over(below, here, names)
<1>1. Visit(root, k, below)[s][seen] =
          IF k = 0 \/ seen.loop \/ s \in seen.visited THEN seen
          ELSE IF here.loop THEN here ELSE r
    BY DEF Visit
<1>2. here \in Seen /\ ~here.loop
  <2>1. seen.visited \cup {s} \in SUBSET Name
      BY SeenParts, GraphParts
  <2>2. (s = root) \in BOOLEAN /\ s # root
      OBVIOUS
  <2> QED
      BY <2>1, <2>2, SeenParts, Zenon
<1>3. names \in Seq(graph.subsystem) /\ ToSet(names) \subseteq V
    BY DepsAreNames
<1> HIDE DEF here, names, r
<1>4. k # 0 => r \in Seen /\ ~r.loop
    BY <1>2, <1>3, OverSilent DEF r
<1> QED
    BY <1>1, <1>2, <1>4

\* The search reports no loop when root needs nothing outside V.
LEMMA SearchSilent ==
    ASSUME graph \in Graphs, WellFormed, NEW root \in graph.subsystem,
           NEW V, \A t \in V : ToSet(Deps(t)) \subseteq V,
           root \notin V, ToSet(Deps(root)) \subseteq V
    PROVE  ~Search(root).loop
<1> SUFFICES ASSUME NEW n \in Nat, n = Cardinality(Name)
              PROVE  ~Search(root).loop
    BY ConstantsAssumption, FS_CardinalityType
<1> DEFINE none == [visited |-> {}, loop |-> FALSE]
<1>1. PICK f : Calls(root, n, f) /\ Search(root) = Over(f[n], none, Deps(root))
    BY SearchCalls
<1>2. \A k \in 0..n : f[k] = Visit(root, k, f[k - 1])
    BY <1>1 DEF Calls
<1> DEFINE T == {k \in 0..n : Silent(V, f[k])}
<1>3. 0 \in T
  <2>1. 0 \in 0..n
      OBVIOUS
  <2>2. Silent(V, Visit(root, 0, f[0 - 1]))
      BY VisitSilent
  <2> QED
      BY <1>2, <2>1, <2>2
<1>4. ASSUME NEW k \in 1..n, k - 1 \in T PROVE k \in T
  <2>1. k \in 0..n
      OBVIOUS
  <2>2. Silent(V, f[k - 1])
      BY <1>4
  <2>3. Silent(V, Visit(root, k, f[k - 1]))
      BY <2>2, VisitSilent
  <2> QED
      BY <1>2, <2>1, <2>3
<1>5. Silent(V, f[n])
  <2> HIDE DEF T
  <2>1. 0..n \subseteq T
      BY <1>3, <1>4, UpTo, Zenon
  <2>2. n \in T
      BY <2>1
  <2> QED
      BY <2>2 DEF T
<1>6. none \in Seen /\ ~none.loop
    BY DEF Seen
<1> HIDE DEF none
<1> QED
    BY <1>1, <1>5, <1>6, OverSilent, DepsAreNames

\* Going on from S.
Spreads(S, n, f) == f = [k \in 0..n |-> IF k = 0 THEN S ELSE Needs(f[k - 1])]

\* It stays in V, when V holds the deps of what it holds.
LEMMA ReachableSpreads ==
    ASSUME NEW V, NEW S \in SUBSET V, \A t \in V : ToSet(Deps(t)) \subseteq V,
           NEW n \in Nat, n = Cardinality(Name)
    PROVE  \E f : Spreads(S, n, f) /\ Reachable(S) = f[n] /\ \A k \in 0..n : f[k] \subseteq V
<1> DEFINE A == SUBSET V
           step == [X \in A |-> Needs(X)]
           Reach[k \in 0..n] == IF k = 0 THEN S ELSE Needs(Reach[k - 1])
<1>1. Reachable(S) = Reach[n]
    BY DEF Reachable
<1>2. \A X \in A : Needs(X) \in A
    BY DEF Needs
<1>3. \E f : Spreads(S, n, f)
  <2>1. step \in [A -> A] /\ S \in A
      BY <1>2
  <2>2. PICK f : Goes(f, n, A, S, step)
    <3> HIDE DEF step, A
    <3> QED
        BY <2>1, Recursion
  <2>3. ASSUME NEW k \in 1..n PROVE f[k] = Needs(f[k - 1])
    <3>1. f[k - 1] \in A
        BY <2>2 DEF Goes
    <3> QED
        BY <2>2, <3>1 DEF Goes
  <2>4. \A k \in 0..n : k = 0 \/ k \in 1..n
      OBVIOUS
  <2>5. \A k \in 0..n : f[k] = IF k = 0 THEN S ELSE Needs(f[k - 1])
      BY <2>2, <2>3, <2>4 DEF Goes
  <2>6. Spreads(S, n, f)
      BY <2>2, <2>5 DEF Goes, Spreads
  <2> QED
      BY <2>6
<1>4. Spreads(S, n, Reach)
    BY <1>3, Zenon DEF Reach, Spreads
<1> HIDE DEF Reach
<1> DEFINE T == {k \in 0..n : Reach[k] \in A}
<1>5. 0 \in T
    BY <1>4 DEF Spreads
<1>6. ASSUME NEW k \in 1..n, k - 1 \in T PROVE k \in T
  <2>1. k \in 0..n /\ k # 0
      OBVIOUS
  <2>2. Reach[k] = Needs(Reach[k - 1])
      BY <1>4, <2>1 DEF Spreads
  <2>3. Reach[k - 1] \in A
      BY <1>6
  <2> QED
      BY <1>2, <2>1, <2>2, <2>3
<1>7. 0..n \subseteq T
  <2> HIDE DEF T
  <2> QED
      BY <1>5, <1>6, UpTo, Zenon
<1>8. \A k \in 0..n : Reach[k] \subseteq V
    BY <1>7
<1> QED
    BY <1>1, <1>4, <1>8

\* What is reached from S stays in V, too.
LEMMA ReachedWithin ==
    ASSUME NEW V, NEW S \in SUBSET V, \A t \in V : ToSet(Deps(t)) \subseteq V
    PROVE  Reachable(S) \subseteq V
<1> SUFFICES ASSUME NEW n \in Nat, n = Cardinality(Name)
              PROVE  Reachable(S) \subseteq V
    BY ConstantsAssumption, FS_CardinalityType
<1>1. PICK f : Reachable(S) = f[n] /\ \A k \in 0..n : f[k] \subseteq V
    BY ReachableSpreads
<1> QED
    BY <1>1

\* It holds the deps of what it holds: each round adds a name or is the last.
LEMMA ReachableCloses ==
    ASSUME graph \in Graphs, WellFormed, NEW S \in SUBSET graph.subsystem
    PROVE  S \subseteq Reachable(S) /\ \A t \in Reachable(S) : ToSet(Deps(t)) \subseteq Reachable(S)
<1> SUFFICES ASSUME NEW n \in Nat, n = Cardinality(Name)
              PROVE  /\ S \subseteq Reachable(S)
                     /\ \A t \in Reachable(S) : ToSet(Deps(t)) \subseteq Reachable(S)
    BY ConstantsAssumption, FS_CardinalityType
<1> DEFINE B == graph.subsystem
           Done(X) == \A t \in X : ToSet(Deps(t)) \subseteq X
<1>1. \A t \in B : ToSet(Deps(t)) \subseteq B
  <2> TAKE t \in B
  <2>1. Deps(t) \in Seq(B)
      BY DepsAreNames
  <2> QED
      BY <2>1, LenProperties DEF ToSet
<1>2. B \subseteq Name /\ IsFiniteSet(B) /\ Cardinality(B) <= n /\ Cardinality(B) \in Nat
    BY GraphParts, ConstantsAssumption, FS_Subset, FS_CardinalityType
<1> HIDE DEF B
<1>3. PICK f : Spreads(S, n, f) /\ Reachable(S) = f[n] /\ \A k \in 0..n : f[k] \subseteq B
  <2>1. S \in SUBSET B
      BY DEF B
  <2> QED
      BY <1>1, <2>1, ReachableSpreads
<1>4. /\ f[0] = S /\ \A k \in 1..n : f[k] = Needs(f[k - 1])
  <2>1. 0 \in 0..n /\ \A k \in 1..n : k \in 0..n /\ k # 0
      OBVIOUS
  <2> QED
      BY <1>3, <2>1 DEF Spreads
<1>5. ASSUME NEW X \in SUBSET B
      PROVE  /\ X \subseteq Needs(X) /\ (Done(X) => Needs(X) = X)
             /\ IsFiniteSet(X) /\ Cardinality(X) \in Nat
             /\ Needs(X) \subseteq B => Cardinality(X) <= Cardinality(Needs(X)) /\
                   (Cardinality(X) = Cardinality(Needs(X)) => Done(X))
  <2>1. X \subseteq Needs(X) /\ (Needs(X) = X <=> Done(X))
      BY DEF Needs
  <2>2. IsFiniteSet(X) /\ Cardinality(X) \in Nat
      BY <1>2, FS_Subset, FS_CardinalityType
  <2>3. ASSUME Needs(X) \subseteq B
        PROVE  Cardinality(X) <= Cardinality(Needs(X)) /\
                   (Cardinality(X) = Cardinality(Needs(X)) => Needs(X) = X)
    <3>1. IsFiniteSet(Needs(X))
        BY <1>2, <2>3, FS_Subset
    <3> QED
        BY <2>1, <3>1, FS_Subset
  <2> QED
      BY <2>1, <2>2, <2>3
<1> DEFINE T == {k \in 0..n : S \subseteq f[k] /\ (Done(f[k]) \/ Cardinality(f[k]) >= k)}
<1>6. 0 \in T
  <2>1. 0 \in 0..n /\ S \subseteq f[0] /\ f[0] \in SUBSET B
      BY <1>3, <1>4
  <2>2. Cardinality(f[0]) \in Nat
      BY <1>5, <2>1
  <2> QED
      BY <2>1, <2>2
<1>7. ASSUME NEW k \in 1..n, k - 1 \in T PROVE k \in T
  <2> DEFINE X == f[k - 1]
  <2>1. k \in 0..n /\ k - 1 \in 0..n /\ f[k] = Needs(X) /\ X \in SUBSET B /\ f[k] \in SUBSET B
      BY <1>3, <1>4
  <2>2. S \subseteq X /\ (Done(X) \/ Cardinality(X) >= k - 1)
      BY <1>7
  <2> HIDE DEF X, Done
  <2>3. CASE Done(X)
      BY <1>5, <2>1, <2>2, <2>3
  <2>4. CASE ~Done(X)
    <3>1. /\ Cardinality(X) \in Nat /\ Cardinality(f[k]) \in Nat
          /\ Cardinality(X) <= Cardinality(f[k]) /\ Cardinality(X) # Cardinality(f[k])
          /\ S \subseteq f[k]
        BY <1>5, <2>1, <2>2, <2>4
    <3>2. Cardinality(f[k]) >= k
        BY <2>2, <2>4, <3>1
    <3> QED
        BY <2>1, <3>1, <3>2
  <2> QED
      BY <2>3, <2>4
<1>8. n \in T
  <2> HIDE DEF T
  <2>1. 0..n \subseteq T
      BY <1>6, <1>7, UpTo, Zenon
  <2> QED
      BY <2>1
<1>9. S \subseteq f[n] /\ (Done(f[n]) \/ Cardinality(f[n]) >= n) /\ f[n] \subseteq B
    BY <1>3, <1>8
<1>10. Done(f[n])
  <2>1. CASE Done(f[n])
      BY <2>1
  <2>2. CASE Cardinality(f[n]) >= n
    <3>1. Cardinality(f[n]) \in Nat /\ Cardinality(f[n]) <= Cardinality(B)
        BY <1>2, <1>5, <1>9, FS_Subset
    <3>2. Cardinality(f[n]) = Cardinality(B)
        BY <1>2, <2>2, <3>1
    <3>3. f[n] = B
        BY <1>2, <1>9, <3>2, FS_Subset
    <3> QED
        BY <1>1, <3>3
  <2> QED
      BY <1>9, <2>1, <2>2
<1> QED
    BY <1>3, <1>9, <1>10

\* The graph that is served.
Checked == graph \in Graphs /\ WellFormed /\ ~CheckForSubsystemLoops

\* What the search from s visits.
Visited(s) == Search(s).visited

LEMMA VisitedWithout ==
    ASSUME Checked, NEW s \in graph.subsystem
    PROVE  /\ s \notin Visited(s) /\ ToSet(Deps(s)) \subseteq Visited(s)
           /\ \A t \in Visited(s) : ToSet(Deps(t)) \subseteq Visited(s)
<1> DEFINE none == [visited |-> {}, loop |-> FALSE]
<1>1. ~Search(s).loop
    BY DEF CheckForSubsystemLoops, Checked
<1>2. Found(s, none, ToSet(Deps(s)), Search(s))
    BY SearchFinds DEF Checked
<1>3. none.visited = {}
    OBVIOUS
<1> HIDE DEF none
<1> QED
    BY <1>1, <1>2, <1>3 DEF Found, Visited

\* Around each subsystem there is a set that holds all it needs, but not itself.
Loopless ==
    \E V \in [graph.subsystem -> SUBSET Name] : \A s \in graph.subsystem :
        /\ s \notin V[s] /\ ToSet(Deps(s)) \subseteq V[s]
        /\ \A t \in V[s] : ToSet(Deps(t)) \subseteq V[s]

LEMMA CheckedLoopless ==
    ASSUME Checked
    PROVE  Loopless
<1> DEFINE none == [visited |-> {}, loop |-> FALSE]
           V == [s \in graph.subsystem |-> Visited(s)]
<1>1. ASSUME NEW s \in graph.subsystem PROVE Visited(s) \in SUBSET Name
  <2>1. Search(s) \in Seen
      BY SearchFinds DEF Found, Checked
  <2> QED
      BY <2>1, SeenParts DEF Visited
<1>2. V \in [graph.subsystem -> SUBSET Name] /\ \A s \in graph.subsystem : V[s] = Visited(s)
    BY <1>1
<1> HIDE DEF V
<1> QED
    BY <1>2, VisitedWithout DEF Loopless

\* FlightDirector finds every loop: in a graph that passes the check no
\* subsystem needs itself.
LEMMA NoLoops ==
    ASSUME Loopless, NEW s \in graph.subsystem
    PROVE  s \notin Reachable(ToSet(Deps(s)))
<1>1. PICK V \in [graph.subsystem -> SUBSET Name] : \A r \in graph.subsystem :
          /\ r \notin V[r] /\ ToSet(Deps(r)) \subseteq V[r]
          /\ \A t \in V[r] : ToSet(Deps(t)) \subseteq V[r]
    BY DEF Loopless
<1>2. Reachable(ToSet(Deps(s))) \subseteq V[s]
    BY <1>1, ReachedWithin
<1> QED
    BY <1>1, <1>2

\* Nor is a graph refused in which no subsystem needs itself.
LEMMA LooplessPasses ==
    ASSUME graph \in Graphs, WellFormed, Loopless
    PROVE  ~CheckForSubsystemLoops
<1>1. PICK V \in [graph.subsystem -> SUBSET Name] : \A r \in graph.subsystem :
          /\ r \notin V[r] /\ ToSet(Deps(r)) \subseteq V[r]
          /\ \A t \in V[r] : ToSet(Deps(t)) \subseteq V[r]
    BY DEF Loopless
<1>2. ASSUME NEW s \in graph.subsystem PROVE ~Search(s).loop
  <2> DEFINE W == V[s]
  <2>1. /\ s \notin W /\ ToSet(Deps(s)) \subseteq W
        /\ \A t \in W : ToSet(Deps(t)) \subseteq W
      BY <1>1
  <2> HIDE DEF W
  <2> QED
      BY <2>1, SearchSilent
<1> QED
    BY <1>2 DEF CheckForSubsystemLoops

LEMMA LooplessOrLoop ==
    ASSUME graph \in Graphs, WellFormed, ~Loopless
    PROVE  \E s \in graph.subsystem : s \in Reachable(ToSet(Deps(s)))
<1> SUFFICES ASSUME \A s \in graph.subsystem : s \notin Reachable(ToSet(Deps(s)))
              PROVE  FALSE
    OBVIOUS
<1> DEFINE V == [s \in graph.subsystem |-> Reachable(ToSet(Deps(s)))]
<1>1. ASSUME NEW s \in graph.subsystem
      PROVE  /\ V[s] \in SUBSET Name /\ s \notin V[s] /\ ToSet(Deps(s)) \subseteq V[s]
             /\ \A t \in V[s] : ToSet(Deps(t)) \subseteq V[s]
  <2> DEFINE B == graph.subsystem
             S == ToSet(Deps(s))
  <2>1. \A t \in B : ToSet(Deps(t)) \subseteq B
    <3> TAKE t \in B
    <3>1. Deps(t) \in Seq(B)
        BY DepsAreNames
    <3> QED
        BY <3>1, LenProperties DEF ToSet
  <2>2. S \in SUBSET B /\ B \subseteq Name
      BY <2>1, GraphParts
  <2>3. S \subseteq Reachable(S) /\ \A t \in Reachable(S) : ToSet(Deps(t)) \subseteq Reachable(S)
    <3> HIDE DEF S
    <3> QED
        BY <2>2, ReachableCloses
  <2>4. Reachable(S) \subseteq B
    <3> HIDE DEF S, B
    <3> QED
        BY <2>1, <2>2, ReachedWithin
  <2> QED
      BY <2>2, <2>3, <2>4
<1>2. V \in [graph.subsystem -> SUBSET Name]
    BY <1>1
<1> HIDE DEF V
<1> QED
    BY <1>1, <1>2 DEF Loopless

\* CheckForSubsystemLoops is right about every graph that LoadSubsystemGraph
\* accepts: there is a loop exactly if some subsystem needs itself, directly or
\* not, although the search shares what it visited between the branches.
THEOREM ChecksLoops ==
    ASSUME graph \in Graphs, WellFormed
    PROVE  CheckForSubsystemLoops <=> \E s \in graph.subsystem : s \in Reachable(ToSet(Deps(s)))
<1>1. ASSUME CheckForSubsystemLoops PROVE ~Loopless
    BY <1>1, LooplessPasses
<1>2. ASSUME ~CheckForSubsystemLoops PROVE Loopless
    BY <1>2, CheckedLoopless DEF Checked
<1> QED
    BY <1>1, <1>2, LooplessOrLoop, NoLoops

\* Nothing about the graph changes.
LEMMA GraphStays ==
    ASSUME graph' = graph
    PROVE  /\ \A s : Deps(s)' = Deps(s)
           /\ WellFormed' = WellFormed /\ Loopless' = Loopless
<1>1. \A s : Deps(s)' = Deps(s)
    BY DEF Deps
<1>2. WellFormed' = WellFormed
    BY DEF WellFormed, Distinct
<1>3. Loopless' = Loopless
    BY <1>1 DEF Loopless
<1> QED
    BY <1>1, <1>2, <1>3

-----------------------------------------------------------------------------
(* The order in which subsystems are added.                                *)

Before(vec, i) == {vec[j] : j \in 1..(i - 1)}

\* Each subsystem comes once, after all its deps.
Sorted(vec) ==
    \A i \in 1..Len(vec) : ToSet(Deps(vec[i])) \subseteq Before(vec, i) /\ vec[i] \notin Before(vec, i)

\* r is vec with the subsystems S added and more that all of P need.
Listed(P, vec, S, r) ==
    /\ r \in Seq(graph.subsystem) /\ Sorted(r)
    /\ ToSet(vec) \cup S \subseteq ToSet(r)
    /\ \A t \in ToSet(r) : t \in ToSet(vec) \/ \A p \in P : t \in Visited(p)

\* f does so for a call whose callers are P, when at most k others are left.
Lists(k, f) ==
    \A s \in graph.subsystem : \A vec \in Seq(graph.subsystem) : \A P \in SUBSET graph.subsystem :
        Sorted(vec) /\ Cardinality(Name \ P) <= k /\ (\A p \in P : s \in Visited(p)) =>
            Listed(P, vec, {s}, f[s][vec])

LEMMA ListedMore ==
    ASSUME NEW P, NEW a, NEW b, NEW c, NEW S, NEW T, Listed(P, a, S, b), Listed(P, b, T, c)
    PROVE  Listed(P, a, S \cup T, c)
BY DEF Listed

LEMMA SortedAppend ==
    ASSUME NEW B, NEW vec \in Seq(B), NEW s \in B, Sorted(vec), s \notin ToSet(vec),
           ToSet(Deps(s)) \subseteq ToSet(vec)
    PROVE  /\ Append(vec, s) \in Seq(B) /\ Sorted(Append(vec, s))
           /\ ToSet(Append(vec, s)) = ToSet(vec) \cup {s}
<1> DEFINE r == Append(vec, s)
           n == Len(vec)
<1>1. /\ r \in Seq(B) /\ Len(r) = n + 1 /\ n \in Nat /\ r[n + 1] = s
      /\ \A i \in 1..n : r[i] = vec[i]
    BY AppendProperties, LenProperties
<1>2. DOMAIN vec = 1..n /\ DOMAIN r = 1..(n + 1)
    BY <1>1, LenProperties
<1> HIDE DEF r, n
<1>3. ToSet(vec) = {vec[i] : i \in 1..n} /\ ToSet(r) = {r[i] : i \in 1..(n + 1)}
    BY <1>2 DEF ToSet
<1>4. \A i \in 1..(n + 1) : i \in 1..n \/ i = n + 1
    BY <1>1
<1>5. 1..n \subseteq 1..(n + 1) /\ n + 1 \in 1..(n + 1)
    BY <1>1
<1>6. ToSet(r) = ToSet(vec) \cup {s}
    BY <1>1, <1>3, <1>4, <1>5
<1>7. ASSUME NEW i \in 1..n PROVE Before(r, i) = Before(vec, i) /\ r[i] = vec[i]
  <2>1. \A j \in 1..(i - 1) : j \in 1..n
      BY <1>1
  <2> QED
      BY <1>1, <2>1 DEF Before
<1>8. Before(r, n + 1) = ToSet(vec)
  <2>1. (n + 1) - 1 = n
      BY <1>1
  <2> QED
      BY <1>1, <1>3, <2>1 DEF Before
<1>9. \A i \in 1..n : ToSet(Deps(vec[i])) \subseteq Before(vec, i) /\ vec[i] \notin Before(vec, i)
    BY DEF Sorted, n
<1>10. ASSUME NEW i \in 1..Len(r)
       PROVE  ToSet(Deps(r[i])) \subseteq Before(r, i) /\ r[i] \notin Before(r, i)
  <2>1. CASE i \in 1..n
      BY <1>7, <1>9, <2>1
  <2>2. CASE i = n + 1
      BY <1>1, <1>8, <2>2
  <2> QED
      BY <1>1, <1>4, <2>1, <2>2
<1>11. Sorted(r)
    BY <1>10 DEF Sorted
<1> QED
    BY <1>1, <1>6, <1>11 DEF r

LEMMA OverLists ==
    ASSUME NEW k \in Nat, NEW f, Lists(k, f), NEW P \in SUBSET graph.subsystem,
           Cardinality(Name \ P) <= k,
           NEW names \in Seq(graph.subsystem), \A p \in P : ToSet(names) \subseteq Visited(p),
           NEW vec \in Seq(graph.subsystem), Sorted(vec)
    PROVE  Listed(P, vec, ToSet(names), Over(f, vec, names))
<1> SUFFICES ASSUME NEW n \in Nat, n = Len(names)
              PROVE  Listed(P, vec, ToSet(names), Over(f, vec, names))
    BY LenProperties
<1> DEFINE First(i) == {names[j] : j \in 1..i}
           A == [i \in 0..n |-> {x \in Seq(graph.subsystem) : Listed(P, vec, First(i), x)}]
<1>1. vec \in A[0]
  <2>1. First(0) = {}
      OBVIOUS
  <2>2. Listed(P, vec, First(0), vec)
      BY <2>1 DEF Listed
  <2> HIDE DEF First
  <2>3. vec \in {x \in Seq(graph.subsystem) : Listed(P, vec, First(0), x)} /\ 0 \in 0..n
      BY <2>2
  <2> QED
      BY <2>3
<1>2. ASSUME NEW i \in 1..n, NEW x \in A[i - 1]
      PROVE  f[names[i]][x] \in A[i]
  <2> DEFINE s == names[i]
             y == f[s][x]
  <2>1. i \in 0..n /\ i - 1 \in 0..n /\ s \in graph.subsystem
      BY LenProperties
  <2>2. x \in Seq(graph.subsystem) /\ Listed(P, vec, First(i - 1), x)
      BY <2>1
  <2>3. First(i) = First(i - 1) \cup {s}
      OBVIOUS
  <2>4. s \in ToSet(names)
      BY LenProperties DEF ToSet
  <2> HIDE DEF First, s
  <2>5. Sorted(x)
      BY <2>2 DEF Listed
  <2>6. Listed(P, x, {s}, y)
      BY <2>1, <2>2, <2>4, <2>5 DEF Lists
  <2>7. y \in Seq(graph.subsystem)
      BY <2>6 DEF Listed
  <2> HIDE DEF y
  <2>8. Listed(P, vec, First(i), y)
      BY <2>2, <2>3, <2>6, ListedMore
  <2>9. y \in {z \in Seq(graph.subsystem) : Listed(P, vec, First(i), z)}
      BY <2>7, <2>8
  <2> QED
      BY <2>1, <2>9 DEF y, s
<1> HIDE DEF A
<1>3. Over(f, vec, names) \in A[n]
    BY <1>1, <1>2, OverKeeps
<1>4. Listed(P, vec, First(n), Over(f, vec, names))
  <2>1. n \in 0..n
      BY LenProperties
  <2>2. A[n] = {z \in Seq(graph.subsystem) : Listed(P, vec, First(n), z)}
      BY <2>1, Zenon DEF A
  <2> QED
      BY <1>3, <2>2, Zenon
<1>5. First(n) = ToSet(names)
    BY LenProperties DEF ToSet
<1> QED
    BY <1>4, <1>5

\* FlattenSubsystemGraph, when below does the calls below it.
Push(k, below) ==
    [s \in graph.subsystem |-> [vec \in Seq(Name) |->
        IF k = 0 \/ Contains(vec, s) THEN vec ELSE Append(Over(below, vec, Deps(s)), s)]]

LEMMA PushType ==
    ASSUME Checked, NEW k, NEW below \in [graph.subsystem -> [Seq(Name) -> Seq(Name)]]
    PROVE  Push(k, below) \in [graph.subsystem -> [Seq(Name) -> Seq(Name)]]
<1> SUFFICES ASSUME NEW s \in graph.subsystem, NEW vec \in Seq(Name)
              PROVE  Append(Over(below, vec, Deps(s)), s) \in Seq(Name)
    BY DEF Push
<1> DEFINE names == Deps(s)
           n == Len(names)
           r == Over(below, vec, names)
           A == [i \in 0..n |-> Seq(Name)]
<1>1. names \in Seq(graph.subsystem) /\ n \in Nat
    BY DepsAreNames, LenProperties DEF Checked
<1> HIDE DEF names
<1>2. vec \in A[0]
    BY <1>1
<1>3. ASSUME NEW i \in 1..n, NEW x \in A[i - 1] PROVE below[names[i]][x] \in A[i]
  <2>1. x \in Seq(Name) /\ names[i] \in graph.subsystem /\ i \in 0..n
      BY <1>1, LenProperties
  <2> QED
      BY <2>1
<1> HIDE DEF A
<1>4. r \in A[n]
    BY <1>1, <1>2, <1>3, OverKeeps
<1>5. r \in Seq(Name) /\ s \in Name
    BY <1>1, <1>4, GraphParts DEF A, Checked
<1> HIDE DEF r
<1>6. Append(r, s) \in Seq(Name)
    BY <1>5, AppendProperties
<1> QED
    BY <1>6 DEF r, names

\* One call lists when the calls below it do: the subsystem is none of the
\* callers, because there are no loops.
LEMMA PushLists ==
    ASSUME Checked, NEW k \in Nat, NEW below, k # 0 => Lists(k - 1, below)
    PROVE  Lists(k, Push(k, below))
<1> SUFFICES ASSUME NEW s \in graph.subsystem, NEW vec \in Seq(graph.subsystem),
                     NEW P \in SUBSET graph.subsystem, Sorted(vec),
                     Cardinality(Name \ P) <= k, \A p \in P : s \in Visited(p)
              PROVE  Listed(P, vec, {s}, Push(k, below)[s][vec])
    BY DEF Lists
<1> DEFINE Q == P \cup {s}
           names == Deps(s)
           r == Over(below, vec, names)
<1>1. s \notin P /\ s \in Name /\ graph.subsystem \subseteq Name
    BY VisitedWithout, GraphParts DEF Checked
<1>2. /\ Cardinality(Name \ Q) \in Nat /\ Cardinality(Name \ P) \in Nat
      /\ Cardinality(Name \ Q) <= Cardinality(Name \ P) - 1
    BY <1>1, FewerLeft
<1>3. k # 0 /\ k - 1 \in Nat /\ Cardinality(Name \ Q) <= k - 1
    BY <1>2
<1>4. vec \in Seq(Name)
    BY <1>1, SeqMonotonic
<1>5. Push(k, below)[s][vec] = IF Contains(vec, s) THEN vec ELSE Append(r, s)
    BY <1>3, <1>4 DEF Push
<1>6. Contains(vec, s) <=> s \in ToSet(vec)
    BY LenProperties DEF Contains, ToSet
<1>7. CASE s \in ToSet(vec)
    BY <1>5, <1>6, <1>7 DEF Listed
<1>8. CASE s \notin ToSet(vec)
  <2>1. names \in Seq(graph.subsystem)
      BY DepsAreNames DEF Checked
  <2>2. ToSet(names) \subseteq Visited(s) /\ s \notin Visited(s)
      BY VisitedWithout
  <2>3. \A p \in Q : ToSet(names) \subseteq Visited(p)
      BY VisitedWithout
  <2> HIDE DEF names
  <2>4. Q \in SUBSET graph.subsystem
      OBVIOUS
  <2> HIDE DEF Q
  <2>5. Listed(Q, vec, ToSet(names), r)
      BY <1>3, <2>1, <2>3, <2>4, OverLists
  <2> HIDE DEF r
  <2>6. P \subseteq Q /\ s \in Q
      BY DEF Q
  <2>7. \A t \in ToSet(r) : t \in ToSet(vec) \/ (t \in Visited(s) /\ \A p \in P : t \in Visited(p))
      BY <2>5, <2>6 DEF Listed
  <2>8. s \notin ToSet(r)
      BY <1>8, <2>2, <2>7
  <2>9. /\ r \in Seq(graph.subsystem) /\ Sorted(r) /\ ToSet(names) \subseteq ToSet(r)
        /\ ToSet(vec) \subseteq ToSet(r)
      BY <2>5 DEF Listed
  <2>10. /\ Append(r, s) \in Seq(graph.subsystem) /\ Sorted(Append(r, s))
         /\ ToSet(Append(r, s)) = ToSet(r) \cup {s}
      BY <2>8, <2>9, SortedAppend DEF names
  <2>11. Listed(P, vec, {s}, Append(r, s))
      BY <2>7, <2>9, <2>10 DEF Listed
  <2> QED
      BY <1>5, <1>6, <1>8, <2>11 DEF r, names
<1> QED
    BY <1>7, <1>8

\* What FlightDirector adds: the interfaces and all they need, each once and
\* after its deps.
LEMMA FlattenedSorted ==
    ASSUME Checked, NEW order \in Seq(graph.subsystem)
    PROVE  /\ Flattened(order) \in Seq(graph.subsystem) /\ Sorted(Flattened(order))
           /\ ToSet(order) \subseteq ToSet(Flattened(order))
<1> SUFFICES ASSUME NEW n \in Nat, n = Cardinality(Name)
              PROVE  /\ Flattened(order) \in Seq(graph.subsystem) /\ Sorted(Flattened(order))
                     /\ ToSet(order) \subseteq ToSet(Flattened(order))
    BY ConstantsAssumption, FS_CardinalityType
<1> DEFINE A == [graph.subsystem -> [Seq(Name) -> Seq(Name)]]
           Is(f) == f = [k \in 0..n |-> Push(k, f[k - 1])]
<1>1. Flatten = CHOOSE f : Is(f)
    BY DEF Flatten, Push
<1>2. \E f : Is(f)
  <2> DEFINE a == [s \in graph.subsystem |-> [vec \in Seq(Name) |-> vec]]
             step == [F \in A |-> Push(1, F)]
  <2>1. a \in A /\ step \in [A -> A]
      BY PushType
  <2>2. PICK f : Goes(f, n, A, a, step)
    <3> HIDE DEF a, step, A
    <3> QED
        BY <2>1, Recursion
  <2>3. f[0] = Push(0, f[0 - 1])
      BY <2>2 DEF Goes, Push
  <2>4. ASSUME NEW k \in 1..n PROVE f[k] = Push(k, f[k - 1])
    <3>1. f[k - 1] \in A
        BY <2>2 DEF Goes
    <3>2. f[k] = Push(1, f[k - 1])
        BY <2>2, <3>1 DEF Goes
    <3> QED
        BY <3>2 DEF Push
  <2>5. \A k \in 0..n : k = 0 \/ k \in 1..n
      OBVIOUS
  <2>6. \A k \in 0..n : f[k] = Push(k, f[k - 1])
      BY <2>3, <2>4, <2>5
  <2>7. Is(f)
      BY <2>2, <2>6 DEF Goes
  <2> QED
      BY <2>7
<1>3. Is(Flatten)
    BY <1>1, <1>2, Zenon
<1> DEFINE T == {k \in 0..n : Lists(k, Flatten[k])}
<1>4. 0 \in T
  <2>1. 0 \in 0..n
      OBVIOUS
  <2>2. Flatten[0] = Push(0, Flatten[0 - 1])
      BY <1>3, <2>1
  <2>3. Lists(0, Push(0, Flatten[0 - 1]))
      BY PushLists
  <2> QED
      BY <2>1, <2>2, <2>3
<1>5. ASSUME NEW k \in 1..n, k - 1 \in T PROVE k \in T
  <2>1. k \in 0..n /\ k \in Nat
      OBVIOUS
  <2>2. Flatten[k] = Push(k, Flatten[k - 1])
      BY <1>3, <2>1
  <2>3. Lists(k - 1, Flatten[k - 1])
      BY <1>5
  <2>4. Lists(k, Push(k, Flatten[k - 1]))
      BY <2>1, <2>3, PushLists
  <2> QED
      BY <2>1, <2>2, <2>4
<1>6. Lists(n, Flatten[n])
  <2> HIDE DEF T
  <2>0. 0..n \subseteq T
      BY <1>4, <1>5, UpTo, Zenon
  <2>1. n \in T
      BY <2>0
  <2> QED
      BY <2>1 DEF T
<1> DEFINE nobody == {}
<1>7. nobody \in SUBSET graph.subsystem /\ Cardinality(Name \ nobody) <= n
  <2>1. Name \ nobody = Name
      OBVIOUS
  <2> QED
      BY <2>1
<1>8. \A p \in nobody : ToSet(order) \subseteq Visited(p)
    OBVIOUS
<1> HIDE DEF nobody
<1>9. <<>> \in Seq(graph.subsystem) /\ Sorted(<<>>)
    BY DEF Sorted
<1>10. Listed(nobody, <<>>, ToSet(order), Over(Flatten[n], <<>>, order))
    BY <1>6, <1>7, <1>8, <1>9, OverLists
<1> QED
    BY <1>10 DEF Listed, Flattened

-----------------------------------------------------------------------------
(* The clients of Capcom.                                                  *)

Request == [op : {"add", "start", "stop"}, sub : Name]
Connection ==
    [owner : {"auto", "main"} \cup Outsider, up : BOOLEAN, requests : Seq(Request), answers : Nat]

Ours == {i \in DOMAIN conn : conn[i].owner \in {"auto", "main"}}
Theirs == {i \in DOMAIN conn : conn[i].owner \in Outsider}
MaxNumber == 2 * MaxLives + Cardinality(Outsider)

\* Types, with the connections as records.
Types ==
    /\ graph \in Graphs /\ phase \in {"down", "connecting", "serving", "failed"}
    /\ lives \in 0..MaxLives /\ left \in 0..MaxCommands /\ kept \cup known \subseteq Name
    /\ todo \in Seq([op : {"add", "start"}, sub : Name])
    /\ waiting \in [{"setup"} \cup Handler -> {"no", "auto", "main"}]
    /\ active \in [Name -> [words : Nat, bits : SUBSET Nat]]

\* Each life of FlightDirector makes two connections, of which the second
\* comes with the graph; another client has one at a time, and stays.
Connections ==
    /\ DOMAIN conn \subseteq 0..MaxNumber
    /\ \A i \in DOMAIN conn : conn[i] \in Connection
    /\ Cardinality(Ours) <= IF phase = "connecting" THEN 2 * lives - 1 ELSE 2 * lives
    /\ \A i \in Theirs : conn[i].up
    /\ \A i, j \in Theirs : conn[i].owner = conn[j].owner => i = j

\* The graph that is served has passed the check.
Loaded == phase = "serving" => WellFormed /\ Loopless

TInv == Types /\ Connections /\ Loaded

LEMMA ConnectionParts ==
    ASSUME NEW c \in Connection
    PROVE  /\ c.owner \in {"auto", "main"} \cup Outsider /\ c.up \in BOOLEAN
           /\ c.requests \in Seq(Request) /\ c.answers \in Nat
BY DEF Connection

LEMMA Numbers ==
    /\ Cardinality(Outsider) \in Nat /\ MaxNumber \in Nat
    /\ Connections =>
        /\ IsFiniteSet(DOMAIN conn) /\ DOMAIN conn \subseteq Nat
        /\ Cardinality(Ours) \in Nat /\ IsFiniteSet(Ours)
        /\ Cardinality(Theirs) \in Nat /\ IsFiniteSet(Theirs)
<1>1. Cardinality(Outsider) \in Nat
    BY ConstantsAssumption, FS_CardinalityType
<1>2. MaxNumber \in Nat
    BY <1>1, ConstantsAssumption DEF MaxNumber
<1>3. ASSUME Connections PROVE IsFiniteSet(DOMAIN conn) /\ DOMAIN conn \subseteq Nat
  <2>1. IsFiniteSet(0..MaxNumber)
      BY <1>2, FS_Interval
  <2>2. DOMAIN conn \subseteq 0..MaxNumber /\ 0..MaxNumber \subseteq Nat
      BY <1>2, <1>3 DEF Connections
  <2> QED
      BY <2>1, <2>2, FS_Subset
<1>4. ASSUME NEW S \in SUBSET DOMAIN conn, Connections
      PROVE  Cardinality(S) \in Nat /\ IsFiniteSet(S)
    BY <1>3, <1>4, FS_Subset, FS_CardinalityType
<1> QED
    BY <1>1, <1>2, <1>3, <1>4 DEF Ours, Theirs

\* The next number is one after the connections at most.
LEMMA AllocateFree ==
    ASSUME Connections
    PROVE  /\ Allocate \in Nat /\ Allocate \notin DOMAIN conn
           /\ Allocate <= Cardinality(Ours) + Cardinality(Theirs)
<1> DEFINE D == DOMAIN conn
           n == Cardinality(D)
           S == (0..n) \ D
<1>1. IsFiniteSet(D) /\ n \in Nat
    BY Numbers, FS_CardinalityType
<1>2. S # {}
  <2>1. IsFiniteSet(0..n) /\ Cardinality(0..n) = n + 1
      BY <1>1, FS_Interval
  <2>2. SUFFICES ASSUME 0..n \subseteq D PROVE FALSE
      OBVIOUS
  <2>3. n + 1 <= n
      BY <1>1, <2>1, <2>2, FS_Subset
  <2> QED
      BY <1>1, <2>3
<1>3. S \in SUBSET Nat
    BY <1>1
<1> HIDE DEF S
<1>4. \E m \in S : \A k \in S : m <= k
    BY <1>2, <1>3, Least
<1>5. Allocate \in S
    BY <1>4 DEF Allocate, Min, S
<1>6. Allocate \in 0..n /\ Allocate \notin D
    BY <1>5 DEF S
<1>7. D = Ours \cup Theirs
    BY ConnectionParts DEF Connections, Ours, Theirs
<1>8. Ours \cap Theirs = {}
    BY ConstantsAssumption DEF Ours, Theirs
<1>9. n = Cardinality(Ours) + Cardinality(Theirs)
  <2>1. /\ IsFiniteSet(Ours) /\ IsFiniteSet(Theirs)
        /\ Cardinality(Ours) \in Nat /\ Cardinality(Theirs) \in Nat
      BY Numbers
  <2>2. n = Cardinality(Ours) + Cardinality(Theirs) - Cardinality(Ours \cap Theirs)
      BY <1>7, <2>1, FS_Union
  <2>3. Cardinality(Ours \cap Theirs) = 0
      BY <1>8, FS_EmptySet
  <2> QED
      BY <2>1, <2>2, <2>3
<1> QED
    BY <1>1, <1>6, <1>9

\* There are not more connections of other clients than other clients.
LEMMA FewTheirs ==
    ASSUME Connections
    PROVE  Cardinality(Theirs) <= Cardinality(Outsider)
<1> DEFINE f == [i \in Theirs |-> conn[i].owner]
<1>1. f \in [Theirs -> Outsider]
    BY DEF Theirs
<1>2. \A i, j \in Theirs : f[i] = f[j] => i = j
    BY DEF Connections
<1> HIDE DEF f
<1>3. f \in Injection(Theirs, Outsider)
    BY <1>1, <1>2, Zenon DEF Injection, IsInjective
<1> QED
    BY <1>3, ConstantsAssumption, FS_Injection

\* Connections change, but not whose they are nor which are up.
Altered ==
    /\ DOMAIN conn' = DOMAIN conn
    /\ \A i \in DOMAIN conn :
        conn'[i] \in Connection /\ conn'[i].owner = conn[i].owner /\ conn'[i].up = conn[i].up

LEMMA AlteredKeeps ==
    ASSUME Connections, Altered, lives' = lives, phase' = phase
    PROVE  Connections' /\ Ours' = Ours /\ Theirs' = Theirs
<1>1. Ours' = Ours /\ Theirs' = Theirs
    BY DEF Altered, Ours, Theirs
<1>2. Cardinality(Ours') = Cardinality(Ours)
    BY <1>1
<1>3. \A i \in Theirs : i \in DOMAIN conn
    BY DEF Theirs
<1> QED
    BY <1>1, <1>2, <1>3 DEF Connections, Altered, MaxNumber

LEMMA AskedAlters ==
    ASSUME Connections, NEW o, NEW op \in {"add", "start", "stop"}, NEW s \in Name, Asked(o, op, s)
    PROVE  /\ Altered
           /\ \A i \in DOMAIN conn : conn'[i].answers = conn[i].answers /\
                conn'[i].requests = IF i = NumberOf(o)
                                    THEN Append(conn[i].requests, [op |-> op, sub |-> s])
                                    ELSE conn[i].requests
<1> DEFINE n == NumberOf(o)
           r == [op |-> op, sub |-> s]
<1>0. r \in Request
    BY DEF Request
<1> HIDE DEF n, r
<1>1. conn' = [conn EXCEPT ![n].requests = Append(@, r)]
    BY DEF Asked, n, r
<1>2. DOMAIN conn' = DOMAIN conn
    BY <1>1
<1>3. ASSUME NEW i \in DOMAIN conn
      PROVE  /\ conn'[i] \in Connection /\ conn'[i].owner = conn[i].owner
             /\ conn'[i].up = conn[i].up /\ conn'[i].answers = conn[i].answers
             /\ conn'[i].requests = IF i = n THEN Append(conn[i].requests, r)
                                    ELSE conn[i].requests
  <2>1. conn[i] \in Connection
      BY DEF Connections
  <2>2. CASE i # n
      BY <1>1, <2>1, <2>2
  <2>3. CASE i = n
    <3>1. conn'[i] = [conn[i] EXCEPT !.requests = Append(conn[i].requests, r)]
        BY <1>1, <2>3
    <3>2. Append(conn[i].requests, r) \in Seq(Request)
        BY <1>0, <2>1, ConnectionParts, AppendProperties
    <3> DEFINE q == Append(conn[i].requests, r)
    <3> HIDE DEF q
    <3>3. conn'[i] = [conn[i] EXCEPT !.requests = q] /\ q \in Seq(Request)
        BY <3>1, <3>2 DEF q
    <3>4. /\ conn'[i] \in Connection /\ conn'[i].owner = conn[i].owner
          /\ conn'[i].up = conn[i].up /\ conn'[i].answers = conn[i].answers
          /\ conn'[i].requests = q
        BY <2>1, <3>3 DEF Connection
    <3> QED
        BY <2>3, <3>4 DEF q
  <2> QED
      BY <2>2, <2>3
<1> QED
    BY <1>2, <1>3 DEF Altered, n, r

LEMMA ConnectedAdds ==
    ASSUME Connections, NEW o \in {"auto", "main"} \cup Outsider, Connected(o)
    PROVE  /\ Allocate \notin DOMAIN conn /\ DOMAIN conn' = DOMAIN conn \cup {Allocate}
           /\ \A i \in DOMAIN conn : conn'[i] = conn[i]
           /\ conn'[Allocate] \in Connection
           /\ conn'[Allocate].owner = o /\ conn'[Allocate].up /\ conn'[Allocate].requests = <<>>
<1> DEFINE n == Allocate
           c == [owner |-> o, up |-> TRUE, requests |-> <<>>, answers |-> 0]
<1>1. n \notin DOMAIN conn
    BY AllocateFree
<1>2. c \in Connection
    BY DEF Connection
<1>3. c.owner = o /\ c.up /\ c.requests = <<>>
    OBVIOUS
<1> HIDE DEF c
<1>4. conn' = [i \in DOMAIN conn \cup {n} |-> IF i \in DOMAIN conn THEN conn[i] ELSE c]
    BY DEF Connected, c
<1> HIDE DEF n
<1>5. /\ DOMAIN conn' = DOMAIN conn \cup {n} /\ conn'[n] = c
      /\ \A i \in DOMAIN conn : conn'[i] = conn[i]
    BY <1>1, <1>4
<1> QED
    BY <1>1, <1>2, <1>3, <1>5 DEF n

\* A connection of FlightDirector more.
LEMMA ConnectedOurs ==
    ASSUME Connections, NEW o \in {"auto", "main"}, Connected(o),
           Cardinality(Ours) + 1 <= IF phase' = "connecting" THEN 2 * lives' - 1 ELSE 2 * lives',
           lives' \in 0..MaxLives
    PROVE  Connections'
<1> DEFINE n == Allocate
<1>1. /\ n \notin DOMAIN conn /\ DOMAIN conn' = DOMAIN conn \cup {n}
      /\ \A i \in DOMAIN conn : conn'[i] = conn[i]
      /\ conn'[n] \in Connection /\ conn'[n].owner = o
    BY ConnectedAdds
<1>2. n \in Nat /\ n <= Cardinality(Ours) + Cardinality(Theirs)
    BY AllocateFree
<1> HIDE DEF n
<1>3. o \notin Outsider
    BY ConstantsAssumption
<1>4. Ours' = Ours \cup {n} /\ Theirs' = Theirs
    BY <1>1, <1>3 DEF Ours, Theirs
<1>5. /\ IsFiniteSet(Ours) /\ Cardinality(Ours) \in Nat /\ Cardinality(Theirs) \in Nat
      /\ Cardinality(Outsider) \in Nat /\ Cardinality(Theirs) <= Cardinality(Outsider)
    BY Numbers, FewTheirs
<1>6. Cardinality(Ours') = Cardinality(Ours) + 1
  <2>1. n \notin Ours
      BY <1>1 DEF Ours
  <2> QED
      BY <1>4, <1>5, <2>1, FS_AddElement
<1>7. n \in 0..MaxNumber
  <2>1. MaxLives \in Nat
      BY ConstantsAssumption
  <2>2. Cardinality(Ours) <= 2 * MaxLives
      BY <1>5, <2>1
  <2> QED
      BY <1>2, <1>5, <2>1, <2>2 DEF MaxNumber
<1>8. DOMAIN conn' \subseteq 0..MaxNumber /\ \A i \in DOMAIN conn' : conn'[i] \in Connection
    BY <1>1, <1>7 DEF Connections
<1>9. /\ \A i \in Theirs' : conn'[i].up
      /\ \A i, j \in Theirs' : conn'[i].owner = conn'[j].owner => i = j
    BY <1>1, <1>4 DEF Connections, Theirs
<1>10. Cardinality(Ours') <= IF phase' = "connecting" THEN 2 * lives' - 1 ELSE 2 * lives'
    BY <1>6
<1> QED
    BY <1>8, <1>9, <1>10 DEF Connections, MaxNumber

\* A connection of another client more.
LEMMA ConnectedTheirs ==
    ASSUME Connections, NEW o \in Outsider, Connected(o), ~Online(o),
           lives \in 0..MaxLives, lives' = lives, phase' = phase
    PROVE  Connections'
<1> DEFINE n == Allocate
<1>1. /\ n \notin DOMAIN conn /\ DOMAIN conn' = DOMAIN conn \cup {n}
      /\ \A i \in DOMAIN conn : conn'[i] = conn[i]
      /\ conn'[n] \in Connection /\ conn'[n].owner = o /\ conn'[n].up
    BY ConnectedAdds
<1>2. n \in Nat /\ n <= Cardinality(Ours) + Cardinality(Theirs)
    BY AllocateFree
<1> HIDE DEF n
<1>3. o \notin {"auto", "main"}
    BY ConstantsAssumption
<1>4. Ours' = Ours /\ Theirs' = Theirs \cup {n}
    BY <1>1, <1>3 DEF Ours, Theirs
<1>5. /\ Cardinality(Ours) \in Nat /\ Cardinality(Theirs) \in Nat
      /\ Cardinality(Outsider) \in Nat /\ Cardinality(Theirs) <= Cardinality(Outsider)
    BY Numbers, FewTheirs
<1>6. n \in 0..MaxNumber
  <2>1. MaxLives \in Nat
      BY ConstantsAssumption
  <2>2. Cardinality(Ours) <= 2 * lives
      BY <1>5, <2>1 DEF Connections
  <2> QED
      BY <1>2, <1>5, <2>1, <2>2 DEF MaxNumber
<1>7. DOMAIN conn' \subseteq 0..MaxNumber /\ \A i \in DOMAIN conn' : conn'[i] \in Connection
    BY <1>1, <1>6 DEF Connections
<1>8. \A i \in Theirs : conn[i].owner # o /\ i \in DOMAIN conn /\ conn'[i] = conn[i]
    BY <1>1 DEF Connections, Theirs, Online
<1>9. /\ \A i \in Theirs' : conn'[i].up
      /\ \A i, j \in Theirs' : conn'[i].owner = conn'[j].owner => i = j
    BY <1>1, <1>4, <1>8 DEF Connections
<1>10. Cardinality(Ours') <= IF phase' = "connecting" THEN 2 * lives' - 1 ELSE 2 * lives'
  <2>1. Cardinality(Ours') = Cardinality(Ours)
      BY <1>4
  <2> QED
      BY <2>1 DEF Connections
<1> QED
    BY <1>7, <1>9, <1>10 DEF Connections, MaxNumber

\* A request of connection i is served.
LEMMA HandlesAlters ==
    ASSUME Connections, NEW i \in DOMAIN conn, Handles(i)
    PROVE  /\ Altered
           /\ conn[i].requests # <<>> /\ Head(conn[i].requests) \in Request
           /\ conn'[i].requests = Tail(conn[i].requests)
           /\ \A j \in DOMAIN conn : j # i => conn'[j] = conn[j]
<1>1. conn[i] \in Connection /\ conn[i].requests # <<>>
    BY DEF Connections, Handles
<1> DEFINE q == Tail(conn[i].requests)
           a == conn[i].answers + 1
<1>2. Head(conn[i].requests) \in Request /\ q \in Seq(Request)
    BY <1>1, ConnectionParts, HeadTailProperties
<1>3. a \in Nat
    BY <1>1, ConnectionParts
<1>4. conn' = [conn EXCEPT ![i] = [@ EXCEPT !.requests = q, !.answers = a]]
    BY DEF Handles
<1> HIDE DEF q, a
<1>5. conn'[i] = [conn[i] EXCEPT !.requests = q, !.answers = a]
    BY <1>4
<1>6. /\ conn'[i] \in Connection /\ conn'[i].owner = conn[i].owner /\ conn'[i].up = conn[i].up
      /\ conn'[i].requests = q
    BY <1>1, <1>2, <1>3, <1>5 DEF Connection
<1>7. DOMAIN conn' = DOMAIN conn /\ \A j \in DOMAIN conn : j # i => conn'[j] = conn[j]
    BY <1>4
<1>8. Altered
    BY <1>6, <1>7 DEF Altered, Connections
<1> QED
    BY <1>1, <1>2, <1>6, <1>7, <1>8 DEF q

LEMMA AnsweredAlters ==
    ASSUME Connections, NEW w, Answered(w)
    PROVE  Altered /\ \A i \in DOMAIN conn : conn'[i].requests = conn[i].requests
<1> DEFINE n == NumberOf(waiting[w])
           a == conn[n].answers - 1
<1> HIDE DEF n
<1>1. conn[n].answers > 0 /\ conn' = [conn EXCEPT ![n] = [@ EXCEPT !.answers = a]]
    BY DEF Answered, n
<1>2. DOMAIN conn' = DOMAIN conn /\ \A i \in DOMAIN conn : i # n => conn'[i] = conn[i]
    BY <1>1
<1>3. ASSUME n \in DOMAIN conn
      PROVE  /\ conn'[n] \in Connection /\ conn'[n].owner = conn[n].owner
             /\ conn'[n].up = conn[n].up /\ conn'[n].requests = conn[n].requests
  <2>1. conn[n] \in Connection
      BY <1>3 DEF Connections
  <2>2. a \in Nat
      BY <1>1, <2>1, ConnectionParts
  <2> HIDE DEF a
  <2>3. conn'[n] = [conn[n] EXCEPT !.answers = a]
      BY <1>1, <1>3
  <2> QED
      BY <2>1, <2>2, <2>3 DEF Connection
<1> QED
    BY <1>2, <1>3 DEF Altered, Connections

\* A connection that is forgotten is down.
LEMMA ForgetsKeeps ==
    ASSUME Connections, lives \in Nat, NEW i \in DOMAIN conn, Forgets(i)
    PROVE  /\ Connections' /\ DOMAIN conn' = DOMAIN conn \ {i} /\ ~conn[i].up
           /\ \A j \in DOMAIN conn' : conn'[j] = conn[j]
<1>1. /\ DOMAIN conn' = DOMAIN conn \ {i} /\ ~conn[i].up
      /\ \A j \in DOMAIN conn' : conn'[j] = conn[j]
    BY DEF Forgets, Restrict
<1>2. lives' = lives /\ phase' = phase
    BY DEF Forgets
<1>3. Ours' \subseteq Ours /\ Theirs' \subseteq Theirs
    BY <1>1 DEF Ours, Theirs
<1>4. Cardinality(Ours') <= Cardinality(Ours) /\ Cardinality(Ours') \in Nat /\ Cardinality(Ours) \in Nat
    BY <1>3, Numbers, FS_Subset, FS_CardinalityType
<1>5. Cardinality(Ours') <= IF phase' = "connecting" THEN 2 * lives' - 1 ELSE 2 * lives'
  <2>1. CASE phase = "connecting"
    <3>1. Cardinality(Ours) <= 2 * lives - 1 /\ Cardinality(Ours') <= Cardinality(Ours)
        BY <1>4, <2>1 DEF Connections
    <3> QED
        BY <1>2, <1>4, <2>1, <3>1
  <2>2. CASE phase # "connecting"
    <3>1. Cardinality(Ours) <= 2 * lives /\ Cardinality(Ours') <= Cardinality(Ours)
        BY <1>4, <2>2 DEF Connections
    <3> QED
        BY <1>2, <1>4, <2>2, <3>1
  <2> QED
      BY <2>1, <2>2
<1>6. \A j \in Theirs' : j \in Theirs /\ j \in DOMAIN conn'
    BY <1>3 DEF Theirs
<1> QED
    BY <1>1, <1>5, <1>6 DEF Connections, MaxNumber

LEMMA NumberOfOnline ==
    ASSUME NEW o, Online(o)
    PROVE  NumberOf(o) \in DOMAIN conn /\ conn[NumberOf(o)].owner = o /\ conn[NumberOf(o)].up
BY DEF Online, NumberOf

\* Connections of FlightDirector go down; nothing else happens to them.
Lowers ==
    /\ DOMAIN conn' = DOMAIN conn
    /\ \A i \in DOMAIN conn :
        /\ conn'[i] \in Connection /\ conn'[i].owner = conn[i].owner
        /\ conn'[i].requests = conn[i].requests
        /\ conn'[i].up => conn[i].up
        /\ conn[i].owner \in Outsider => conn'[i].up = conn[i].up

LEMMA DropsLowers ==
    ASSUME Connections, DropsAutostart
    PROVE  /\ Lowers
           /\ \A i \in DOMAIN conn : conn[i].owner = "main" => conn'[i].up = conn[i].up
<1> DEFINE n == NumberOf("auto")
<1>1. n \in DOMAIN conn /\ conn[n].owner = "auto"
    BY NumberOfOnline DEF DropsAutostart
<1>2. conn' = [conn EXCEPT ![n].up = FALSE]
    BY DEF DropsAutostart
<1> HIDE DEF n
<1>3. DOMAIN conn' = DOMAIN conn /\ \A i \in DOMAIN conn : i # n => conn'[i] = conn[i]
    BY <1>2
<1>4. conn'[n] = [conn[n] EXCEPT !.up = FALSE] /\ conn[n] \in Connection
    BY <1>1, <1>2 DEF Connections
<1>5. /\ conn'[n] \in Connection /\ conn'[n].owner = conn[n].owner /\ ~conn'[n].up
      /\ conn'[n].requests = conn[n].requests
    BY <1>4 DEF Connection
<1>6. "auto" \notin Outsider
    BY ConstantsAssumption
<1>7. \A i \in DOMAIN conn : conn[i] \in Connection
    BY DEF Connections
<1> QED
    BY <1>1, <1>3, <1>5, <1>6, <1>7 DEF Lowers

LEMMA DiesLowers ==
    ASSUME Connections, Dies
    PROVE  Lowers /\ \A i \in DOMAIN conn : conn[i].owner \notin Outsider => ~conn'[i].up
<1>1. DOMAIN conn' = DOMAIN conn
    BY DEF Dies
<1>2. ASSUME NEW i \in DOMAIN conn
      PROVE  /\ conn'[i] \in Connection /\ conn'[i].owner = conn[i].owner
             /\ conn'[i].requests = conn[i].requests
             /\ conn'[i].up <=> (conn[i].up /\ conn[i].owner \in Outsider)
             /\ conn[i].up \in BOOLEAN /\ conn'[i].up \in BOOLEAN
  <2> DEFINE u == conn[i].up /\ conn[i].owner \in Outsider
  <2>1. conn[i] \in Connection /\ conn[i].up \in BOOLEAN
      BY ConnectionParts DEF Connections
  <2>2. u \in BOOLEAN
      OBVIOUS
  <2>3. conn'[i] = [conn[i] EXCEPT !.up = u]
      BY <1>1 DEF Dies
  <2> HIDE DEF u
  <2>4. conn'[i] \in Connection /\ conn'[i].owner = conn[i].owner
        /\ conn'[i].requests = conn[i].requests /\ conn'[i].up = u
      BY <2>1, <2>2, <2>3 DEF Connection
  <2> QED
      BY <2>1, <2>2, <2>4 DEF u
<1> QED
    BY <1>1, <1>2, Zenon DEF Lowers

LEMMA LowersKeeps ==
    ASSUME Connections, Lowers, lives \in Nat, lives' = lives,
           phase' = phase \/ phase' # "connecting"
    PROVE  Connections'
<1>1. Ours' = Ours /\ Theirs' = Theirs
    BY DEF Lowers, Ours, Theirs
<1>2. Cardinality(Ours') = Cardinality(Ours) /\ Cardinality(Ours) \in Nat
    BY <1>1, Numbers
<1>3. Cardinality(Ours') <= IF phase' = "connecting" THEN 2 * lives' - 1 ELSE 2 * lives'
    BY <1>2 DEF Connections
<1>4. \A i \in Theirs : i \in DOMAIN conn /\ conn[i].owner \in Outsider
    BY DEF Theirs
<1> QED
    BY <1>1, <1>3, <1>4 DEF Connections, Lowers, MaxNumber

-----------------------------------------------------------------------------
(* Bit sets.                                                               *)

Bits == [words : Nat, bits : SUBSET Nat]

\* The word of a bit; those of the first word are in word 0.
LEMMA Words ==
    ASSUME NEW b \in Nat
    PROVE  b \div WordBits \in Nat /\ (b < WordBits => b \div WordBits = 0)
BY ConstantsAssumption

LEMMA BitsParts ==
    /\ \A x \in Bits : x.words \in Nat /\ x.bits \in SUBSET Nat
    /\ \A n \in Nat : \A S \in SUBSET Nat : [words |-> n, bits |-> S] \in Bits
BY DEF Bits

LEMMA ChangedBits ==
    ASSUME NEW x \in Bits, NEW b \in Nat, NEW S \in SUBSET Nat
    PROVE  /\ Changed(x, b, S) \in Bits
           /\ b < WordBits => Changed(x, b, S).bits = S
<1> DEFINE word == b \div WordBits
           n == IF word = x.words THEN word + 1 ELSE x.words
<1>1. word \in Nat /\ (b < WordBits => word = 0)
    BY Words
<1> HIDE DEF word
<1>2. n \in Nat /\ x.words \in Nat
    BY <1>1, BitsParts
<1>3. Changed(x, b, S) = IF word > x.words THEN x ELSE [words |-> n, bits |-> S]
    BY DEF Changed, word
<1> HIDE DEF n
<1>4. [words |-> n, bits |-> S] \in Bits
    BY <1>2, BitsParts
<1>5. b < WordBits => ~(word > x.words)
    BY <1>1, <1>2
<1> QED
    BY <1>3, <1>4, <1>5

LEMMA SetsBit ==
    ASSUME NEW x \in Bits, NEW b \in Nat
    PROVE  SetBit(x, b) \in Bits /\ (b < WordBits => SetBit(x, b).bits = x.bits \cup {b})
<1>1. x.bits \cup {b} \in SUBSET Nat
    BY BitsParts
<1> QED
    BY <1>1, ChangedBits DEF SetBit

LEMMA ClearsBit ==
    ASSUME NEW x \in Bits, NEW b \in Nat
    PROVE  ClearBit(x, b) \in Bits /\ (b < WordBits => ClearBit(x, b).bits = x.bits \ {b})
<1>1. x.bits \ {b} \in SUBSET Nat
    BY BitsParts
<1> QED
    BY <1>1, ChangedBits DEF ClearBit

-----------------------------------------------------------------------------
(* What the coroutine of Run asks for.                                     *)

Todo == [op : {"add", "start"}, sub : Name]
Adds(vec) == [k \in DOMAIN vec |-> [op |-> "add", sub |-> vec[k]]]
Starts(vec) == [k \in DOMAIN vec |-> [op |-> "start", sub |-> vec[k]]]

LEMMA Orders ==
    ASSUME NEW S, IsFiniteSet(S), NEW order \in SetToSeqs(S)
    PROVE  order \in Seq(S) /\ ToSet(order) = S
<1> DEFINE n == Cardinality(S)
<1>1. n \in Nat
    BY FS_CardinalityType
<1>2. order \in [1..n -> S] /\ \A i, j \in 1..n : i # j => order[i] # order[j]
    BY DEF SetToSeqs
<1>3. IsFiniteSet(1..n) /\ Cardinality(1..n) = n
    BY <1>1, FS_Interval
<1> HIDE DEF n
<1>4. order \in Injection(1..n, S)
    BY <1>2, Zenon DEF Injection, IsInjective
<1>5. order \in Surjection(1..n, S)
    BY <1>3, <1>4, FS_Injection DEF n
<1>6. order \in Seq(S)
    BY <1>1, <1>2
<1>7. DOMAIN order = 1..n
    BY <1>2
<1>8. \A s \in S : \E i \in 1..n : order[i] = s
    BY <1>5 DEF Surjection
<1> QED
    BY <1>2, <1>6, <1>7, <1>8 DEF ToSet

LEMMA PlanType ==
    ASSUME NEW B \in SUBSET Name, NEW vec \in Seq(B)
    PROVE  /\ Adds(vec) \in Seq(Todo) /\ Starts(vec) \in Seq(Todo)
           /\ Len(Adds(vec)) = Len(vec) /\ Len(Starts(vec)) = Len(vec)
           /\ \A k \in 1..Len(vec) :
                /\ Adds(vec)[k] = [op |-> "add", sub |-> vec[k]]
                /\ Starts(vec)[k] = [op |-> "start", sub |-> vec[k]]
<1> DEFINE n == Len(vec)
<1>1. n \in Nat /\ DOMAIN vec = 1..n /\ \A k \in 1..n : vec[k] \in Name
    BY LenProperties
<1> HIDE DEF n
<1>2. Adds(vec) \in [1..n -> Todo] /\ Starts(vec) \in [1..n -> Todo]
    BY <1>1 DEF Adds, Starts, Todo
<1>3. Adds(vec) \in Seq(Todo) /\ Starts(vec) \in Seq(Todo)
    BY <1>1, <1>2
<1>4. Len(Adds(vec)) = n /\ Len(Starts(vec)) = n
    BY <1>1, <1>2, <1>3, LenProperties
<1> QED
    BY <1>1, <1>3, <1>4 DEF Adds, Starts, n

\* The graph is checked; all that the interfaces need is added, in order.
LEMMA LoadsPlans ==
    ASSUME graph \in Graphs, Loads, phase' = "serving"
    PROVE  /\ Checked
           /\ \E vec, starts \in Seq(graph.subsystem) :
                /\ todo' = Adds(vec) \o Starts(starts)
                /\ Sorted(vec) /\ ToSet(graph.interface) \subseteq ToSet(vec)
<1>1. WellFormed /\ ~CheckForSubsystemLoops
    BY DEF Loads
<1>2. Checked
    BY <1>1 DEF Checked
<1>3. PICK order \in SetToSeqs(ToSet(graph.interface)), starts \in SetToSeqs(ToSet(graph.autostart)) :
          todo' = Adds(Flattened(order)) \o Starts(starts)
    BY <1>1 DEF Loads, Adds, Starts
<1>4. /\ ToSet(graph.interface) \subseteq graph.subsystem
      /\ ToSet(graph.autostart) \subseteq graph.subsystem
    BY <1>1 DEF WellFormed, Distinct
<1>5. \A S \in SUBSET graph.subsystem : IsFiniteSet(S)
    BY ConstantsAssumption, GraphParts, FS_Subset
<1>6. /\ order \in Seq(ToSet(graph.interface)) /\ ToSet(order) = ToSet(graph.interface)
      /\ starts \in Seq(ToSet(graph.autostart))
    BY <1>3, <1>4, <1>5, Orders
<1>7. order \in Seq(graph.subsystem) /\ starts \in Seq(graph.subsystem)
    BY <1>4, <1>6, SeqMonotonic
<1>8. /\ Flattened(order) \in Seq(graph.subsystem) /\ Sorted(Flattened(order))
      /\ ToSet(order) \subseteq ToSet(Flattened(order))
    BY <1>2, <1>7, FlattenedSorted
<1> QED
    BY <1>2, <1>3, <1>6, <1>7, <1>8

-----------------------------------------------------------------------------
(* Types.                                                                  *)

LEMMA TypesParts ==
    ASSUME Types
    PROVE  /\ graph \in Graphs /\ lives \in Nat /\ lives \in 0..MaxLives
           /\ todo \in Seq(Todo) /\ active \in [Name -> Bits]
           /\ waiting \in [{"setup"} \cup Handler -> {"no", "auto", "main"}]
BY ConstantsAssumption DEF Types, Todo, Bits

LEMMA NextTodo ==
    ASSUME Types, todo # <<>>
    PROVE  /\ Head(todo).op \in {"add", "start"} /\ Head(todo).sub \in Name
           /\ Tail(todo) \in Seq(Todo)
<1>1. Head(todo) \in Todo /\ Tail(todo) \in Seq(Todo)
    BY TypesParts, HeadTailProperties
<1> QED
    BY <1>1 DEF Todo

LEMMA TypesInit ==
    ASSUME Init
    PROVE  TInv
<1>1. Types
  <2>1. /\ MaxLives \in Nat /\ MaxCommands \in Nat
        /\ <<>> \in Seq([op : {"add", "start"}, sub : Name])
      BY ConstantsAssumption
  <2> QED
      BY <2>1 DEF Init, Types
<1>2. Connections
  <2>1. Ours = {} /\ Theirs = {} /\ DOMAIN conn = {}
      BY DEF Init, Ours, Theirs
  <2>2. Cardinality(Ours) = 0
      BY <2>1, FS_EmptySet
  <2> QED
      BY <2>1, <2>2 DEF Init, Connections
<1>3. Loaded
    BY DEF Init, Loaded
<1> QED
    BY <1>1, <1>2, <1>3 DEF TInv

\* What the steps do to the connections.
LEMMA ConnectionsStep ==
    ASSUME TInv, [Next]_vars
    PROVE  Connections' /\ graph' = graph
<1>0. Connections /\ Types /\ lives \in Nat /\ lives \in 0..MaxLives
    BY TypesParts DEF TInv
<1>a. /\ Cardinality(Ours) \in Nat /\ MaxLives \in Nat
      /\ phase = "connecting" => Cardinality(Ours) <= 2 * lives - 1
      /\ phase # "connecting" => Cardinality(Ours) <= 2 * lives
    BY <1>0, Numbers, ConstantsAssumption DEF Connections
<1>1. CASE ConnectsAutostart
  <2>1. lives' = lives + 1 /\ phase' = "connecting" /\ phase = "down" /\ lives < MaxLives
        /\ Connected("auto")
      BY <1>1 DEF ConnectsAutostart
  <2>2. Cardinality(Ours) + 1 <= 2 * lives' - 1 /\ lives' \in 0..MaxLives
      BY <1>0, <1>a, <2>1
  <2> QED
      BY <1>0, <1>1, <2>1, <2>2, ConnectedOurs DEF ConnectsAutostart
<1>2. CASE Loads
  <2>1. lives' = lives /\ phase' \in {"serving", "failed"} /\ phase = "connecting"
        /\ Connected("main")
      BY <1>2 DEF Loads
  <2>2. Cardinality(Ours) + 1 <= 2 * lives'
      BY <1>0, <1>a, <2>1
  <2> QED
      BY <1>0, <1>2, <2>1, <2>2, ConnectedOurs DEF Loads
<1>3. CASE Registers
  <2> DEFINE o == IF Head(todo).op = "add" THEN "main" ELSE "auto"
             op == Head(todo).op
             s == Head(todo).sub
  <2>1. Asked(o, op, s)
      BY <1>3 DEF Registers
  <2>2. op \in {"add", "start", "stop"} /\ s \in Name
      BY <1>0, <1>3, NextTodo DEF Registers
  <2> HIDE DEF o, op, s
  <2>3. Altered
      BY <1>0, <2>1, <2>2, AskedAlters
  <2> QED
      BY <1>0, <1>3, <2>3, AlteredKeeps DEF Registers
<1>4. CASE DropsAutostart
    BY <1>0, <1>4, DropsLowers, LowersKeeps DEF DropsAutostart
<1>5. CASE Dies
    BY <1>0, <1>5, DiesLowers, LowersKeeps DEF Dies
<1>6. ASSUME NEW i \in DOMAIN conn, Handles(i) PROVE Connections' /\ graph' = graph
    BY <1>0, <1>6, HandlesAlters, AlteredKeeps DEF Handles
<1>7. ASSUME NEW i \in DOMAIN conn, Forgets(i) PROVE Connections' /\ graph' = graph
    BY <1>0, <1>7, ForgetsKeeps DEF Forgets
<1>8. ASSUME NEW w \in DOMAIN waiting, Answered(w) PROVE Connections' /\ graph' = graph
    BY <1>0, <1>8, AnsweredAlters, AlteredKeeps DEF Answered
<1>9. ASSUME NEW s \in Name, NEW h \in Handler, NEW op \in {"start", "stop"}, Commands(h, op, s)
      PROVE  Connections' /\ graph' = graph
  <2>1. Altered
      BY <1>0, <1>9, AskedAlters DEF Commands
  <2> QED
      BY <1>0, <1>9, <2>1, AlteredKeeps DEF Commands
<1>10. ASSUME NEW s \in Name, NEW o \in Outsider, NEW op \in OutsiderOps, OutsiderCommands(o, op, s)
       PROVE  Connections' /\ graph' = graph
  <2>1. Altered
    <3>1. op \in {"add", "start", "stop"}
        BY ConstantsAssumption
    <3> QED
        BY <1>0, <1>10, <3>1, AskedAlters DEF OutsiderCommands
  <2> QED
      BY <1>0, <1>10, <2>1, AlteredKeeps DEF OutsiderCommands
<1>11. ASSUME NEW o \in Outsider, OutsiderConnects(o) PROVE Connections' /\ graph' = graph
    BY <1>0, <1>11, ConnectedTheirs DEF OutsiderConnects
<1>12. CASE UNCHANGED vars
    BY <1>0, <1>12 DEF vars, Connections, Ours, Theirs, MaxNumber
<1> QED
    BY <1>1, <1>2, <1>3, <1>4, <1>5, <1>6, <1>7, <1>8, <1>9, <1>10, <1>11, <1>12 DEF Next

LEMMA TypesStep ==
    ASSUME TInv, [Next]_vars
    PROVE  Types' /\ Loaded'
<1>0. /\ Types /\ Connections /\ Loaded /\ graph \in Graphs /\ graph' = graph
      /\ lives \in Nat /\ MaxLives \in Nat /\ MaxCommands \in Nat
      /\ todo \in Seq(Todo) /\ active \in [Name -> Bits]
    BY TypesParts, ConnectionsStep, ConstantsAssumption DEF TInv
<1> DEFINE Same == /\ lives' = lives /\ left' \in 0..MaxCommands /\ kept' \cup known' \subseteq Name
                   /\ waiting' \in [{"setup"} \cup Handler -> {"no", "auto", "main"}]
                   /\ active' \in [Name -> Bits]
<1>a. Loaded => (phase' = phase \/ phase' # "serving" => Loaded')
    BY <1>0, GraphStays DEF Loaded
<1>1. CASE ConnectsAutostart
  <2>1. lives' \in 0..MaxLives
      BY <1>0, <1>1 DEF ConnectsAutostart
  <2> QED
      BY <1>0, <1>1, <1>a, <2>1 DEF ConnectsAutostart, Types
<1>2. CASE Loads
  <2>1. todo' \in Seq(Todo)
    <3>1. CASE phase' = "serving"
      <4>1. PICK vec, starts \in Seq(graph.subsystem) : todo' = Adds(vec) \o Starts(starts)
          BY <1>0, <1>2, <3>1, LoadsPlans
      <4>2. Adds(vec) \in Seq(Todo) /\ Starts(starts) \in Seq(Todo)
          BY <1>0, PlanType, GraphParts
      <4> QED
          BY <4>1, <4>2, ConcatProperties
    <3>2. CASE phase' # "serving"
        BY <1>0, <1>2, <3>2 DEF Loads
    <3> QED
        BY <3>1, <3>2
  <2>2. Loaded'
    <3>1. CASE phase' = "serving"
      <4>1. Checked
          BY <1>0, <1>2, <3>1, LoadsPlans
      <4> QED
          BY <1>0, <4>1, CheckedLoopless, GraphStays DEF Checked, Loaded
    <3>2. CASE phase' # "serving"
        BY <3>2 DEF Loaded
    <3> QED
        BY <3>1, <3>2
  <2>3. /\ phase' \in {"down", "connecting", "serving", "failed"}
        /\ UNCHANGED <<graph, lives, waiting, kept, known, active, left>>
      BY <1>2 DEF Loads
  <2> QED
      BY <1>0, <2>1, <2>2, <2>3 DEF Types, Todo
<1>3. CASE Registers
  <2>1. /\ Tail(todo) \in Seq(Todo) /\ todo' = Tail(todo)
        /\ UNCHANGED <<graph, phase, lives, kept, known, active, left>>
      BY <1>0, <1>3, NextTodo DEF Registers
  <2>2. waiting' \in [{"setup"} \cup Handler -> {"no", "auto", "main"}]
      BY <1>0, <1>3 DEF Registers, Types
  <2> QED
      BY <1>0, <1>a, <2>1, <2>2 DEF Types, Todo
<1>4. CASE DropsAutostart
    BY <1>0, <1>4, <1>a DEF DropsAutostart, Types
<1>5. CASE Dies
  <2>1. waiting' \in [{"setup"} \cup Handler -> {"no", "auto", "main"}]
      BY <1>0, <1>5 DEF Dies, Types
  <2>2. <<>> \in Seq([op : {"add", "start"}, sub : Name])
      OBVIOUS
  <2> QED
      BY <1>0, <1>5, <1>a, <2>1, <2>2 DEF Dies, Types
<1>6. ASSUME NEW i \in DOMAIN conn, Handles(i) PROVE Types' /\ Loaded'
  <2> DEFINE r == Head(conn[i].requests)
  <2>1. r.sub \in Name /\ i \in Nat
      BY <1>0, <1>6, HandlesAlters, Numbers DEF Request
  <2>2. \/ HandleAddSubsystem(r.sub) \/ HandleStartSubsystem(i, r.sub)
        \/ HandleStopSubsystem(i, r.sub)
      BY <1>6 DEF Handles
  <2> HIDE DEF r
  <2>3. SetBit(active[r.sub], i) \in Bits /\ ClearBit(active[r.sub], i) \in Bits
      BY <1>0, <2>1, SetsBit, ClearsBit
  <2>4. kept' \cup known' \subseteq Name
      BY <1>0, <2>1, <2>2 DEF Types, HandleAddSubsystem, HandleStartSubsystem, HandleStopSubsystem
  <2>5. active' \in [Name -> Bits]
    <3>1. CASE HandleAddSubsystem(r.sub)
        BY <1>0, <3>1 DEF HandleAddSubsystem
    <3>2. CASE HandleStartSubsystem(i, r.sub)
        BY <1>0, <2>1, <2>3, <3>2 DEF HandleStartSubsystem
    <3>3. CASE HandleStopSubsystem(i, r.sub)
        BY <1>0, <2>1, <2>3, <3>3 DEF HandleStopSubsystem
    <3> QED
        BY <2>2, <3>1, <3>2, <3>3
  <2> QED
      BY <1>0, <1>6, <1>a, <2>4, <2>5 DEF Handles, Types, Bits
<1>7. ASSUME NEW i \in DOMAIN conn, Forgets(i) PROVE Types' /\ Loaded'
    BY <1>0, <1>7, <1>a DEF Forgets, Types
<1>8. ASSUME NEW w \in DOMAIN waiting, Answered(w) PROVE Types' /\ Loaded'
  <2>1. waiting' \in [{"setup"} \cup Handler -> {"no", "auto", "main"}]
      BY <1>0, <1>8 DEF Answered, Types
  <2> QED
      BY <1>0, <1>8, <1>a, <2>1 DEF Answered, Types
<1>9. ASSUME NEW s \in Name, NEW h \in Handler, NEW op \in {"start", "stop"}, Commands(h, op, s)
      PROVE  Types' /\ Loaded'
  <2>1. waiting' \in [{"setup"} \cup Handler -> {"no", "auto", "main"}]
      BY <1>0, <1>9 DEF Commands, Types
  <2>2. left' \in 0..MaxCommands
      BY <1>0, <1>9 DEF Commands, Types
  <2> QED
      BY <1>0, <1>9, <1>a, <2>1, <2>2 DEF Commands, Types
<1>10. ASSUME NEW s \in Name, NEW o \in Outsider, NEW op \in OutsiderOps, OutsiderCommands(o, op, s)
       PROVE  Types' /\ Loaded'
  <2>1. left' \in 0..MaxCommands
      BY <1>0, <1>10 DEF OutsiderCommands, Types
  <2> QED
      BY <1>0, <1>10, <1>a, <2>1 DEF OutsiderCommands, Types
<1>11. ASSUME NEW o \in Outsider, OutsiderConnects(o) PROVE Types' /\ Loaded'
  <2>1. left' \in 0..MaxCommands
      BY <1>0, <1>11 DEF OutsiderConnects, Types
  <2> QED
      BY <1>0, <1>11, <1>a, <2>1 DEF OutsiderConnects, Types
<1>12. CASE UNCHANGED vars
    BY <1>0, <1>12, <1>a DEF vars, Types
<1> QED
    BY <1>1, <1>2, <1>3, <1>4, <1>5, <1>6, <1>7, <1>8, <1>9, <1>10, <1>11, <1>12 DEF Next

LEMMA TypesStay == Spec => []TInv
<1>1. Init => TInv
    BY TypesInit
<1>2. TInv /\ [Next]_vars => TInv'
  <2> SUFFICES ASSUME TInv, [Next]_vars PROVE TInv'
      OBVIOUS
  <2> QED
      BY TypesStep, ConnectionsStep DEF TInv
<1> QED
    BY <1>1, <1>2, PTL DEF Spec

\* The types of all variables; a number of a client of Capcom (a bit of the
\* sets of bitset.h) is bounded by the connections there can be at once.
THEOREM TypeCorrect == Spec => []TypeOK
<1>1. TInv => TypeOK
    BY ConnectionParts DEF TInv, Types, Connections, TypeOK, MaxNumber, Request
<1> QED
    BY <1>1, TypesStay, PTL

\* CheckForSubsystemLoops finds every loop: FlightDirector serves no graph in
\* which a subsystem needs itself, directly or not.
THEOREM NoLoopServed == Spec => []LoopsRefused
<1>1. TInv => LoopsRefused
    BY NoLoops DEF TInv, Loaded, LoopsRefused
<1> QED
    BY <1>1, TypesStay, PTL

\* A graph is refused for a reason: a name is unknown or comes twice, or some
\* subsystem needs itself.
Refused ==
    phase = "failed" =>
        ~WellFormed \/ \E s \in graph.subsystem : s \in Reachable(ToSet(Deps(s)))

\* FlightDirector gives up at its start only for such a reason.
THEOREM RefusedForCause == Spec => []Refused
<1> DEFINE FInv == phase = "failed" => ~WellFormed \/ ~Loopless
<1>1. Init => FInv
    BY DEF Init
<1>2. TInv /\ FInv /\ [Next]_vars => FInv'
  <2> SUFFICES ASSUME TInv, FInv, [Next]_vars PROVE FInv'
      OBVIOUS
  <2>1. graph' = graph /\ graph \in Graphs
      BY ConnectionsStep, TypesParts DEF TInv
  <2>2. WellFormed' = WellFormed /\ Loopless' = Loopless
      BY <2>1, GraphStays
  <2>3. CASE Loads
    <3>1. phase' = "failed" => ~WellFormed \/ CheckForSubsystemLoops
        BY <2>3 DEF Loads
    <3> QED
        BY <2>1, <2>2, <3>1, LooplessPasses
  <2>4. ASSUME ~Loads PROVE phase' = phase \/ phase' # "failed"
    <3>1. CASE ConnectsAutostart
        BY <3>1 DEF ConnectsAutostart
    <3>2. CASE Registers \/ DropsAutostart
        BY <3>2 DEF Registers, DropsAutostart
    <3>3. CASE Dies
        BY <3>3 DEF Dies
    <3>4. ASSUME NEW i \in DOMAIN conn, Handles(i) \/ Forgets(i) PROVE phase' = phase
        BY <3>4 DEF Handles, Forgets
    <3>5. ASSUME NEW w \in DOMAIN waiting, Answered(w) PROVE phase' = phase
        BY <3>5 DEF Answered
    <3>6. ASSUME NEW s \in Name, NEW h \in Handler, NEW op \in {"start", "stop"}, Commands(h, op, s)
          PROVE  phase' = phase
        BY <3>6 DEF Commands
    <3>7. ASSUME NEW s \in Name, NEW o \in Outsider, NEW op \in OutsiderOps,
                 OutsiderCommands(o, op, s)
          PROVE  phase' = phase
        BY <3>7 DEF OutsiderCommands
    <3>8. ASSUME NEW o \in Outsider, OutsiderConnects(o) PROVE phase' = phase
        BY <3>8 DEF OutsiderConnects
    <3>9. CASE UNCHANGED vars
        BY <3>9 DEF vars
    <3> QED
        BY <2>4, <3>1, <3>2, <3>3, <3>4, <3>5, <3>6, <3>7, <3>8, <3>9 DEF Next
  <2> QED
      BY <2>2, <2>3, <2>4
<1>3. TInv /\ FInv => Refused
    BY TypesParts, LooplessOrLoop DEF TInv, Refused
<1> QED
    BY <1>1, <1>2, <1>3, TypesStay, PTL DEF Spec

-----------------------------------------------------------------------------
(* What was started automatically.                                         *)

\* Stops are asked for on the connection for the clients only.
NoStop(q) == \A n \in 1..Len(q) : q[n].op # "stop"
StopsOnMain ==
    /\ phase = "serving" => Online("main")
    /\ \A i \in DOMAIN conn : conn[i].owner # "main" => NoStop(conn[i].requests)

\* Autostarts are asked for while FlightDirector serves.
Idle ==
    phase # "serving" =>
        /\ kept = {}
        /\ \A i \in DOMAIN conn : conn[i].owner = "auto" /\ conn[i].up => conn[i].requests = <<>>

\* Each is kept by a bit that is not the number of a connection on which stops
\* are asked for: not that of an earlier life either, which Capcom may still
\* be serving.
Kept ==
    \A s \in kept : \E b \in active[s].bits : b \in DOMAIN conn => conn[b].owner # "main"

AInv == StopsOnMain /\ Idle /\ Kept

LEMMA NoStopParts ==
    ASSUME NEW q \in Seq(Request)
    PROVE  /\ NoStop(<<>>)
           /\ \A r \in Request : NoStop(q) /\ r.op # "stop" => NoStop(Append(q, r))
           /\ q # <<>> /\ NoStop(q) => NoStop(Tail(q)) /\ Head(q).op # "stop"
<1>1. NoStop(<<>>)
    BY DEF NoStop
<1>2. ASSUME NEW r \in Request, NoStop(q), r.op # "stop" PROVE NoStop(Append(q, r))
  <2>1. /\ Len(Append(q, r)) = Len(q) + 1 /\ Len(q) \in Nat
        /\ \A n \in 1..Len(q) : Append(q, r)[n] = q[n]
        /\ Append(q, r)[Len(q) + 1] = r
      BY AppendProperties, LenProperties
  <2> QED
      BY <1>2, <2>1 DEF NoStop
<1>3. ASSUME q # <<>>, NoStop(q) PROVE NoStop(Tail(q)) /\ Head(q).op # "stop"
  <2>1. /\ Head(q) = q[1] /\ Len(Tail(q)) = Len(q) - 1 /\ Len(q) \in Nat /\ Len(q) # 0
        /\ \A n \in 1..Len(Tail(q)) : Tail(q)[n] = q[n + 1]
      BY <1>3, HeadTailProperties, LenProperties, EmptySeq
  <2>2. 1 \in 1..Len(q) /\ \A n \in 1..Len(Tail(q)) : n + 1 \in 1..Len(q)
      BY <2>1
  <2> QED
      BY <1>3, <2>1, <2>2 DEF NoStop
<1> QED
    BY <1>1, <1>2, <1>3

\* Somebody asks for something: stops only on the connection main.
LEMMA AskedStops ==
    ASSUME Connections, StopsOnMain, NEW o, NEW op \in {"add", "start", "stop"}, NEW s \in Name,
           Asked(o, op, s), phase' = phase,
           op = "stop" => o = "main" /\ Online("main")
    PROVE  StopsOnMain'
<1> DEFINE r == [op |-> op, sub |-> s]
           n == NumberOf(o)
<1>1. Altered /\ \A i \in DOMAIN conn :
          conn'[i].requests = IF i = n THEN Append(conn[i].requests, r) ELSE conn[i].requests
    BY AskedAlters
<1>2. r \in Request /\ r.op = op
    BY DEF Request
<1>3. op = "stop" => n \in DOMAIN conn /\ conn[n].owner = "main"
    BY NumberOfOnline
<1> HIDE DEF r, n
<1>4. ASSUME NEW i \in DOMAIN conn, conn[i].owner # "main" PROVE NoStop(conn'[i].requests)
  <2>1. conn[i].requests \in Seq(Request) /\ NoStop(conn[i].requests)
      BY <1>4, ConnectionParts DEF Connections, StopsOnMain
  <2>2. CASE i = n
      BY <1>1, <1>2, <1>3, <1>4, <2>1, <2>2, NoStopParts
  <2>3. CASE i # n
      BY <1>1, <2>1, <2>3
  <2> QED
      BY <2>2, <2>3
<1>5. phase' = "serving" => Online("main")'
    BY <1>1 DEF StopsOnMain, Online, Altered
<1> QED
    BY <1>1, <1>4, <1>5 DEF StopsOnMain, Altered

LEMMA StopsStep ==
    ASSUME OutsiderOps \subseteq {"start"}, TInv, StopsOnMain, [Next]_vars
    PROVE  StopsOnMain'
<1>0. Connections /\ Types /\ "main" \notin Outsider
    BY ConstantsAssumption DEF TInv
<1>1. CASE ConnectsAutostart
    BY <1>0, <1>1, ConnectedAdds, NoStopParts DEF ConnectsAutostart, StopsOnMain, NoStop
<1>2. CASE Loads
  <2>1. Connected("main")
      BY <1>2 DEF Loads
  <2>2. /\ DOMAIN conn' = DOMAIN conn \cup {Allocate}
        /\ \A i \in DOMAIN conn : conn'[i] = conn[i]
        /\ conn'[Allocate].owner = "main" /\ conn'[Allocate].up
      BY <1>0, <2>1, ConnectedAdds
  <2> QED
      BY <2>2 DEF StopsOnMain, Online
<1>3. CASE Registers
  <2> DEFINE o == IF Head(todo).op = "add" THEN "main" ELSE "auto"
             op == Head(todo).op
             s == Head(todo).sub
  <2>1. Asked(o, op, s) /\ phase' = phase
      BY <1>3 DEF Registers
  <2>2. op \in {"add", "start"} /\ s \in Name
      BY <1>0, <1>3, NextTodo DEF Registers
  <2> HIDE DEF o, op, s
  <2> QED
      BY <1>0, <2>1, <2>2, AskedStops
<1>4. CASE DropsAutostart
  <2>1. /\ Lowers /\ phase' = phase
        /\ \A i \in DOMAIN conn : conn[i].owner = "main" => conn'[i].up = conn[i].up
      BY <1>0, <1>4, DropsLowers DEF DropsAutostart
  <2> QED
      BY <2>1 DEF StopsOnMain, Lowers, Online
<1>5. CASE Dies
  <2>1. Lowers /\ phase' = "down"
      BY <1>0, <1>5, DiesLowers DEF Dies
  <2> QED
      BY <2>1 DEF StopsOnMain, Lowers
<1>6. ASSUME NEW i \in DOMAIN conn, Handles(i) PROVE StopsOnMain'
  <2>1. /\ Altered /\ phase' = phase
        /\ conn[i].requests # <<>> /\ conn'[i].requests = Tail(conn[i].requests)
        /\ \A j \in DOMAIN conn : j # i => conn'[j] = conn[j]
      BY <1>0, <1>6, HandlesAlters DEF Handles
  <2>2. conn[i].requests \in Seq(Request)
      BY <1>0, ConnectionParts DEF Connections
  <2>3. conn[i].owner # "main" => NoStop(conn'[i].requests)
      BY <2>1, <2>2, NoStopParts DEF StopsOnMain
  <2> QED
      BY <2>1, <2>3 DEF StopsOnMain, Altered, Online
<1>7. ASSUME NEW i \in DOMAIN conn, Forgets(i) PROVE StopsOnMain'
  <2>1. /\ DOMAIN conn' = DOMAIN conn \ {i} /\ ~conn[i].up /\ phase' = phase
        /\ \A j \in DOMAIN conn' : conn'[j] = conn[j]
      BY <1>0, <1>7, ForgetsKeeps, TypesParts DEF Forgets
  <2> QED
      BY <2>1 DEF StopsOnMain, Online
<1>8. ASSUME NEW w \in DOMAIN waiting, Answered(w) PROVE StopsOnMain'
  <2>1. Altered /\ phase' = phase /\ \A i \in DOMAIN conn : conn'[i].requests = conn[i].requests
      BY <1>0, <1>8, AnsweredAlters DEF Answered
  <2> QED
      BY <2>1 DEF StopsOnMain, Altered, Online
<1>9. ASSUME NEW s \in Name, NEW h \in Handler, NEW op \in {"start", "stop"}, Commands(h, op, s)
      PROVE  StopsOnMain'
  <2>1. Asked("main", op, s) /\ phase = "serving" /\ phase' = phase
      BY <1>9 DEF Commands
  <2> QED
      BY <1>0, <2>1, AskedStops DEF StopsOnMain
<1>10. ASSUME NEW s \in Name, NEW o \in Outsider, NEW op \in OutsiderOps, OutsiderCommands(o, op, s)
       PROVE  StopsOnMain'
  <2>1. Asked(o, op, s) /\ phase' = phase /\ op = "start"
      BY <1>10 DEF OutsiderCommands
  <2> QED
      BY <1>0, <2>1, AskedStops
<1>11. ASSUME NEW o \in Outsider, OutsiderConnects(o) PROVE StopsOnMain'
  <2>1. Connected(o) /\ phase' = phase
      BY <1>11 DEF OutsiderConnects
  <2>2. /\ DOMAIN conn' = DOMAIN conn \cup {Allocate} /\ Allocate \notin DOMAIN conn
        /\ \A i \in DOMAIN conn : conn'[i] = conn[i]
        /\ conn'[Allocate].requests = <<>>
      BY <1>0, <2>1, ConnectedAdds
  <2>3. NoStop(<<>>)
      BY DEF NoStop
  <2> QED
      BY <2>1, <2>2, <2>3 DEF StopsOnMain, Online
<1>12. CASE UNCHANGED vars
    BY <1>12 DEF vars, StopsOnMain, Online
<1> QED
    BY <1>1, <1>2, <1>3, <1>4, <1>5, <1>6, <1>7, <1>8, <1>9, <1>10, <1>11, <1>12 DEF Next

LEMMA IdleStep ==
    ASSUME TInv, StopsOnMain, Idle, [Next]_vars
    PROVE  Idle'
<1>0. Connections /\ Types /\ "auto" \notin Outsider
    BY ConstantsAssumption DEF TInv
<1>1. CASE ConnectsAutostart
  <2>1. Connected("auto") /\ phase = "down" /\ kept' = kept
      BY <1>1 DEF ConnectsAutostart
  <2>2. /\ DOMAIN conn' = DOMAIN conn \cup {Allocate}
        /\ \A i \in DOMAIN conn : conn'[i] = conn[i]
        /\ conn'[Allocate].requests = <<>>
      BY <1>0, <2>1, ConnectedAdds
  <2> QED
      BY <2>1, <2>2 DEF Idle
<1>2. CASE Loads
  <2>1. Connected("main") /\ phase = "connecting" /\ kept' = kept
      BY <1>2 DEF Loads
  <2>2. /\ DOMAIN conn' = DOMAIN conn \cup {Allocate}
        /\ \A i \in DOMAIN conn : conn'[i] = conn[i]
        /\ conn'[Allocate].requests = <<>>
      BY <1>0, <2>1, ConnectedAdds
  <2> QED
      BY <2>1, <2>2 DEF Idle
<1>3. CASE Registers
    BY <1>3 DEF Registers, Idle
<1>4. CASE DropsAutostart
    BY <1>4 DEF DropsAutostart, Idle
<1>5. CASE Dies
  <2>1. /\ Lowers /\ kept' = {}
        /\ \A i \in DOMAIN conn : conn[i].owner \notin Outsider => ~conn'[i].up
      BY <1>0, <1>5, DiesLowers DEF Dies
  <2> QED
      BY <1>0, <2>1 DEF Idle, Lowers
<1>6. ASSUME NEW i \in DOMAIN conn, Handles(i) PROVE Idle'
  <2>1. /\ Altered /\ phase' = phase /\ conn[i].requests # <<>>
        /\ \A j \in DOMAIN conn : j # i => conn'[j] = conn[j]
      BY <1>0, <1>6, HandlesAlters DEF Handles
  <2>2. kept' \subseteq kept \/ (conn[i].owner = "auto" /\ conn[i].up)
      BY <1>6 DEF Handles, HandleAddSubsystem, HandleStartSubsystem, HandleStopSubsystem
  <2>3. ASSUME phase # "serving" PROVE ~(conn[i].owner = "auto" /\ conn[i].up)
      BY <2>1, <2>3 DEF Idle
  <2> QED
      BY <2>1, <2>2, <2>3 DEF Idle, Altered
<1>7. ASSUME NEW i \in DOMAIN conn, Forgets(i) PROVE Idle'
  <2>1. /\ DOMAIN conn' = DOMAIN conn \ {i} /\ phase' = phase /\ kept' = kept
        /\ \A j \in DOMAIN conn' : conn'[j] = conn[j]
      BY <1>0, <1>7, ForgetsKeeps, TypesParts DEF Forgets
  <2> QED
      BY <2>1 DEF Idle
<1>8. ASSUME NEW w \in DOMAIN waiting, Answered(w) PROVE Idle'
  <2>1. /\ Altered /\ phase' = phase /\ kept' = kept
        /\ \A i \in DOMAIN conn : conn'[i].requests = conn[i].requests
      BY <1>0, <1>8, AnsweredAlters DEF Answered
  <2> QED
      BY <2>1 DEF Idle, Altered
<1>9. ASSUME NEW s \in Name, NEW h \in Handler, NEW op \in {"start", "stop"}, Commands(h, op, s)
      PROVE  Idle'
    BY <1>9 DEF Commands, Idle
<1>10. ASSUME NEW s \in Name, NEW o \in Outsider, NEW op \in OutsiderOps, OutsiderCommands(o, op, s)
       PROVE  Idle'
  <2>1. Asked(o, op, s) /\ Online(o) /\ phase' = phase /\ kept' = kept
      BY <1>10 DEF OutsiderCommands
  <2>2. op \in {"add", "start", "stop"}
      BY ConstantsAssumption
  <2>3. Altered /\ \A i \in DOMAIN conn : i # NumberOf(o) => conn'[i].requests = conn[i].requests
      BY <1>0, <2>1, <2>2, AskedAlters
  <2>4. conn[NumberOf(o)].owner # "auto"
      BY <1>0, <2>1, NumberOfOnline
  <2> QED
      BY <2>1, <2>3, <2>4 DEF Idle, Altered
<1>11. ASSUME NEW o \in Outsider, OutsiderConnects(o) PROVE Idle'
  <2>1. Connected(o) /\ phase' = phase /\ kept' = kept
      BY <1>11 DEF OutsiderConnects
  <2>2. /\ DOMAIN conn' = DOMAIN conn \cup {Allocate}
        /\ \A i \in DOMAIN conn : conn'[i] = conn[i]
        /\ conn'[Allocate].requests = <<>>
      BY <1>0, <2>1, ConnectedAdds
  <2> QED
      BY <2>1, <2>2 DEF Idle
<1>12. CASE UNCHANGED vars
    BY <1>12 DEF vars, Idle
<1> QED
    BY <1>1, <1>2, <1>3, <1>4, <1>5, <1>6, <1>7, <1>8, <1>9, <1>10, <1>11, <1>12 DEF Next

\* A step that changes no set, and makes no connection for the clients.
LEMMA KeptStays ==
    ASSUME Kept, active' = active, kept' \subseteq kept,
           \A i \in DOMAIN conn' :
              conn'[i].owner = "main" => i \in DOMAIN conn /\ conn[i].owner = "main"
    PROVE  Kept'
BY DEF Kept

\* Capcom serves a request: a stop clears a bit that keeps no autostart.
LEMMA HandlesKept ==
    ASSUME TInv, AInv, MaxNumber < WordBits, NEW i \in DOMAIN conn, Handles(i)
    PROVE  Kept'
<1> DEFINE r == Head(conn[i].requests)
           Others(b) == b \in DOMAIN conn => conn[b].owner # "main"
<1>0. Connections /\ Types
    BY DEF TInv
<1>1. /\ Altered /\ r \in Request /\ conn[i].requests \in Seq(Request) /\ conn[i].requests # <<>>
    BY <1>0, HandlesAlters, ConnectionParts DEF Connections
<1>2. \/ r.op = "add" /\ HandleAddSubsystem(r.sub)
      \/ r.op = "start" /\ HandleStartSubsystem(i, r.sub)
      \/ r.op = "stop" /\ HandleStopSubsystem(i, r.sub)
    BY DEF Handles
<1>3. r.sub \in Name /\ i \in Nat /\ i < WordBits
  <2>1. i \in 0..MaxNumber /\ MaxNumber \in Nat /\ WordBits \in Nat
      BY <1>0, Numbers, ConstantsAssumption DEF Connections
  <2> QED
      BY <1>1, <2>1 DEF Request
<1>4. r.op = "stop" => conn[i].owner = "main"
    BY <1>1, NoStopParts DEF AInv, StopsOnMain
<1> HIDE DEF r
<1>5. active \in [Name -> Bits] /\ active[r.sub] \in Bits
    BY <1>0, <1>3, TypesParts
<1>6. /\ SetBit(active[r.sub], i).bits = active[r.sub].bits \cup {i}
      /\ ClearBit(active[r.sub], i).bits = active[r.sub].bits \ {i}
    BY <1>3, <1>5, SetsBit, ClearsBit
<1>7. \A b : Others(b)' <=> Others(b)
    BY <1>1 DEF Altered
<1>8. ASSUME NEW s \in kept' PROVE \E b \in active'[s].bits : Others(b)
  <2>1. CASE r.op = "add"
      BY <1>2, <2>1 DEF HandleAddSubsystem, AInv, Kept
  <2>2. CASE r.op = "start"
    <3>1. /\ active' = [active EXCEPT ![r.sub] = IF r.sub \in known THEN SetBit(@, i) ELSE @]
          /\ s \in kept \/ (s = r.sub /\ r.sub \in known /\ conn[i].owner = "auto")
        BY <1>2, <2>2 DEF HandleStartSubsystem
    <3>2. s \in Name
      <4>1. kept \subseteq Name
          BY <1>0 DEF Types
      <4> QED
          BY <1>3, <3>1, <4>1
    <3>3. /\ active[s].bits \subseteq active'[s].bits
          /\ s = r.sub /\ r.sub \in known => i \in active'[s].bits
        BY <1>3, <1>5, <1>6, <3>1, <3>2
    <3>4. CASE s \in kept
        BY <3>3, <3>4 DEF AInv, Kept
    <3>5. CASE s = r.sub /\ r.sub \in known /\ conn[i].owner = "auto"
        BY <3>3, <3>5
    <3> QED
        BY <3>1, <3>4, <3>5
  <2>3. CASE r.op = "stop"
    <3>1. /\ active' = [active EXCEPT ![r.sub] = IF r.sub \in known THEN ClearBit(@, i) ELSE @]
          /\ s \in kept
        BY <1>2, <2>3 DEF HandleStopSubsystem
    <3>2. s \in Name
        BY <1>0, <3>1 DEF Types
    <3>3. PICK b \in active[s].bits : Others(b)
        BY <3>1 DEF AInv, Kept
    <3>4. b # i
        BY <1>4, <2>3, <3>3
    <3>5. active[s].bits \ {i} \subseteq active'[s].bits
        BY <1>3, <1>5, <1>6, <3>1, <3>2
    <3> QED
        BY <3>3, <3>4, <3>5
  <2> QED
      BY <1>2, <2>1, <2>2, <2>3
<1> QED
    BY <1>7, <1>8 DEF Kept

LEMMA KeptStep ==
    ASSUME TInv, AInv, MaxNumber < WordBits, [Next]_vars
    PROVE  Kept'
<1>0. Connections /\ Types /\ "main" \notin Outsider /\ Kept /\ Idle
    BY ConstantsAssumption DEF TInv, AInv
<1> DEFINE NoMain == \A i \in DOMAIN conn' :
                        conn'[i].owner = "main" => i \in DOMAIN conn /\ conn[i].owner = "main"
<1>1. CASE ConnectsAutostart
  <2>1. Connected("auto") /\ kept' = kept /\ active' = active
      BY <1>1 DEF ConnectsAutostart
  <2>2. NoMain
      BY <1>0, <2>1, ConnectedAdds
  <2> QED
      BY <1>0, <2>1, <2>2, KeptStays
<1>2. CASE Loads
  <2>1. phase # "serving" /\ kept' = kept
      BY <1>2 DEF Loads
  <2>2. kept' = {}
      BY <1>0, <2>1 DEF Idle
  <2> QED
      BY <2>2 DEF Kept
<1>3. CASE Registers
  <2> DEFINE o == IF Head(todo).op = "add" THEN "main" ELSE "auto"
             op == Head(todo).op
             s == Head(todo).sub
  <2>1. Asked(o, op, s) /\ kept' = kept /\ active' = active
      BY <1>3 DEF Registers
  <2>2. op \in {"add", "start", "stop"} /\ s \in Name
      BY <1>0, <1>3, NextTodo DEF Registers
  <2> HIDE DEF o, op, s
  <2>3. Altered
      BY <1>0, <2>1, <2>2, AskedAlters
  <2> QED
      BY <1>0, <2>1, <2>3, KeptStays DEF Altered
<1>4. CASE DropsAutostart
  <2>1. Lowers /\ kept' = kept /\ active' = active
      BY <1>0, <1>4, DropsLowers DEF DropsAutostart
  <2> QED
      BY <1>0, <2>1, KeptStays DEF Lowers
<1>5. CASE Dies
    BY <1>5 DEF Dies, Kept
<1>6. ASSUME NEW i \in DOMAIN conn, Handles(i) PROVE Kept'
    BY <1>6, HandlesKept
<1>7. ASSUME NEW i \in DOMAIN conn, Forgets(i) PROVE Kept'
  <2>1. /\ DOMAIN conn' = DOMAIN conn \ {i} /\ kept' = kept /\ active' = active
        /\ \A j \in DOMAIN conn' : conn'[j] = conn[j]
      BY <1>0, <1>7, ForgetsKeeps, TypesParts DEF Forgets
  <2> QED
      BY <1>0, <2>1, KeptStays
<1>8. ASSUME NEW w \in DOMAIN waiting, Answered(w) PROVE Kept'
  <2>1. Altered /\ kept' = kept /\ active' = active
      BY <1>0, <1>8, AnsweredAlters DEF Answered
  <2> QED
      BY <1>0, <2>1, KeptStays DEF Altered
<1>9. ASSUME NEW s \in Name, NEW h \in Handler, NEW op \in {"start", "stop"}, Commands(h, op, s)
      PROVE  Kept'
  <2>1. Altered /\ kept' = kept /\ active' = active
      BY <1>0, <1>9, AskedAlters DEF Commands
  <2> QED
      BY <1>0, <2>1, KeptStays DEF Altered
<1>10. ASSUME NEW s \in Name, NEW o \in Outsider, NEW op \in OutsiderOps, OutsiderCommands(o, op, s)
       PROVE  Kept'
  <2>1. Asked(o, op, s) /\ kept' = kept /\ active' = active
      BY <1>10 DEF OutsiderCommands
  <2>2. op \in {"add", "start", "stop"}
      BY ConstantsAssumption
  <2>3. Altered
      BY <1>0, <2>1, <2>2, AskedAlters
  <2> QED
      BY <1>0, <2>1, <2>3, KeptStays DEF Altered
<1>11. ASSUME NEW o \in Outsider, OutsiderConnects(o) PROVE Kept'
  <2>1. Connected(o) /\ kept' = kept /\ active' = active
      BY <1>11 DEF OutsiderConnects
  <2>2. NoMain
      BY <1>0, <2>1, ConnectedAdds
  <2> QED
      BY <1>0, <2>1, <2>2, KeptStays
<1>12. CASE UNCHANGED vars
    BY <1>0, <1>12, KeptStays DEF vars
<1> QED
    BY <1>1, <1>2, <1>3, <1>4, <1>5, <1>6, <1>7, <1>8, <1>9, <1>10, <1>11, <1>12 DEF Next

\* What was started automatically stays active whatever the clients of
\* FlightDirector stop, also when the numbers of its connections are used
\* again after it died, provided that the other clients of Capcom only start
\* subsystems and that the numbers fit the first word of a BitSet.
THEOREM AutostartsKept ==
    ASSUME OutsiderOps \subseteq {"start"}, 2 * MaxLives + Cardinality(Outsider) < WordBits
    PROVE  Spec => []AutostartsStay
<1>0. MaxNumber < WordBits
    BY DEF MaxNumber
<1>1. Init => AInv
    BY DEF Init, AInv, StopsOnMain, Idle, Kept
<1>2. TInv /\ AInv /\ [Next]_vars => AInv'
  <2> SUFFICES ASSUME TInv, AInv, [Next]_vars PROVE AInv'
      OBVIOUS
  <2> QED
      BY <1>0, StopsStep, IdleStep, KeptStep DEF AInv
<1>3. AInv => AutostartsStay
    BY DEF AInv, Kept, AutostartsStay
<1> QED
    BY <1>1, <1>2, <1>3, TypesStay, PTL DEF Spec

-----------------------------------------------------------------------------
(* What is registered.                                                     *)

\* t is among the first n requests that add something.
Added(q, n, t) == \E m \in 1..n : q[m].op = "add" /\ q[m].sub = t
AddsIn(q) == {t \in Name : Added(q, Len(q), t)}

\* What the request r adds.
Brings(r) == {t \in {r.sub} : r.op = "add"}

\* Each subsystem is added when all its deps are in K or were added before.
Ready(K, q) ==
    \A n \in 1..Len(q) : q[n].op = "add" =>
        \A t \in ToSet(Deps(q[n].sub)) : t \in K \/ Added(q, n - 1, t)

LEMMA ReadyMore ==
    ASSUME NEW K, NEW L, NEW q, Ready(K, q), K \subseteq L
    PROVE  Ready(L, q)
BY DEF Ready

LEMMA ReadyEmpty ==
    ASSUME NEW K
    PROVE  Ready(K, <<>>) /\ AddsIn(<<>>) = {}
BY DEF Ready, AddsIn, Added

LEMMA AddsAppend ==
    ASSUME NEW q \in Seq(Request), NEW r \in Request
    PROVE  AddsIn(Append(q, r)) = AddsIn(q) \cup Brings(r)
<1> DEFINE p == Append(q, r)
           n == Len(q)
<1>1. /\ n \in Nat /\ Len(p) = n + 1 /\ p[n + 1] = r
      /\ \A m \in 1..n : p[m] = q[m]
    BY AppendProperties, LenProperties
<1>2. r.sub \in Name
    BY DEF Request
<1> HIDE DEF p
<1>3. /\ \A m \in 1..(n + 1) : m \in 1..n \/ m = n + 1
      /\ \A m \in 1..n : m \in 1..(n + 1)
      /\ n + 1 \in 1..(n + 1)
    BY <1>1
<1>4. ASSUME NEW t PROVE Added(p, n + 1, t) <=> Added(q, n, t) \/ (r.op = "add" /\ r.sub = t)
    BY <1>1, <1>3 DEF Added
<1> QED
    BY <1>1, <1>2, <1>4 DEF AddsIn, p, Brings

LEMMA ReadyAppend ==
    ASSUME NEW K, NEW q \in Seq(Request), NEW r \in Request, Ready(K, q),
           r.op = "add" => ToSet(Deps(r.sub)) \subseteq K \cup AddsIn(q)
    PROVE  /\ Ready(K, Append(q, r))
           /\ AddsIn(Append(q, r)) = AddsIn(q) \cup Brings(r)
<1> DEFINE p == Append(q, r)
           n == Len(q)
<1>1. /\ n \in Nat /\ Len(p) = n + 1 /\ p[n + 1] = r
      /\ \A m \in 1..n : p[m] = q[m]
    BY AppendProperties, LenProperties
<1> HIDE DEF p
<1>2. \A m \in 1..(n + 1) : m \in 1..n \/ m = n + 1
    BY <1>1
<1>3. ASSUME NEW k \in 0..n, NEW t PROVE Added(p, k, t) <=> Added(q, k, t)
  <2>1. \A m \in 1..k : m \in 1..n
      BY <1>1
  <2> QED
      BY <1>1, <2>1 DEF Added
<1>4. ASSUME NEW m \in 1..(n + 1), p[m].op = "add", NEW t \in ToSet(Deps(p[m].sub))
      PROVE  t \in K \/ Added(p, m - 1, t)
  <2>1. m - 1 \in 0..n
      BY <1>1
  <2>2. CASE m \in 1..n
    <3>1. p[m] = q[m]
        BY <1>1, <2>2
    <3>2. t \in K \/ Added(q, m - 1, t)
        BY <1>4, <2>2, <3>1 DEF Ready
    <3> QED
        BY <1>3, <2>1, <3>2
  <2>3. CASE m = n + 1
    <3>1. t \in K \/ t \in AddsIn(q)
        BY <1>1, <1>4, <2>3
    <3>2. m - 1 = n /\ n \in 0..n
        BY <1>1, <2>3
    <3>3. t \in K \/ Added(q, n, t)
        BY <3>1 DEF AddsIn
    <3> QED
        BY <1>3, <3>2, <3>3
  <2> QED
      BY <1>2, <2>2, <2>3
<1>5. Ready(K, p)
    BY <1>1, <1>4 DEF Ready
<1> QED
    BY <1>5, AddsAppend DEF p

LEMMA ReadyTail ==
    ASSUME NEW K, NEW L, NEW q \in Seq(Request), q # <<>>, Ready(K, q), K \subseteq L,
           Head(q).op = "add" => Head(q).sub \in L
    PROVE  /\ Ready(L, Tail(q))
           /\ AddsIn(q) = AddsIn(Tail(q)) \cup Brings(Head(q))
           /\ Head(q).op = "add" => ToSet(Deps(Head(q).sub)) \subseteq K
<1> DEFINE p == Tail(q)
           n == Len(p)
<1>1. /\ n \in Nat /\ Len(q) = n + 1 /\ Head(q) = q[1] /\ Head(q) \in Request
      /\ \A m \in 1..n : p[m] = q[m + 1]
    BY HeadTailProperties, LenProperties, EmptySeq
<1> HIDE DEF p
<1>2. \A m \in 1..(n + 1) : m = 1 \/ (m - 1 \in 1..n /\ m = (m - 1) + 1)
    BY <1>1
<1>3. \A m \in 1..n : m + 1 \in 1..(n + 1)
    BY <1>1
<1>4. ASSUME NEW k \in 0..n, NEW t
      PROVE  Added(q, k + 1, t) <=> Added(p, k, t) \/ (q[1].op = "add" /\ q[1].sub = t)
  <2>1. \A m \in 1..(k + 1) : m = 1 \/ (m - 1 \in 1..k /\ m - 1 \in 1..n /\ m = (m - 1) + 1)
      BY <1>1
  <2>2. /\ 1 \in 1..(k + 1)
        /\ \A m \in 1..k : m + 1 \in 1..(k + 1) /\ m \in 1..n
      BY <1>1
  <2>3. ASSUME NEW m \in 1..(k + 1), q[m].op = "add", q[m].sub = t, m # 1 PROVE Added(p, k, t)
    <3>1. m - 1 \in 1..k /\ p[m - 1] = q[m]
        BY <1>1, <2>1, <2>3
    <3> QED
        BY <2>3, <3>1 DEF Added
  <2>4. ASSUME NEW m \in 1..k, p[m].op = "add", p[m].sub = t PROVE Added(q, k + 1, t)
    <3>1. m + 1 \in 1..(k + 1) /\ p[m] = q[m + 1]
        BY <1>1, <2>2
    <3> QED
        BY <2>4, <3>1 DEF Added
  <2> QED
      BY <2>2, <2>3, <2>4 DEF Added
<1>5. AddsIn(q) = AddsIn(p) \cup Brings(Head(q))
  <2>1. n \in 0..n /\ Head(q).sub \in Name
      BY <1>1 DEF Request
  <2>2. \A t : Added(q, n + 1, t) <=> Added(p, n, t) \/ (Head(q).op = "add" /\ Head(q).sub = t)
      BY <1>1, <1>4, <2>1
  <2> QED
      BY <1>1, <2>1, <2>2 DEF AddsIn, Brings
<1>6. Head(q).op = "add" => ToSet(Deps(Head(q).sub)) \subseteq K
  <2>1. 1 \in 1..Len(q) /\ \A t : ~Added(q, 1 - 1, t)
      BY <1>1 DEF Added
  <2> QED
      BY <1>1, <2>1 DEF Ready
<1>7. ASSUME NEW m \in 1..n, p[m].op = "add", NEW t \in ToSet(Deps(p[m].sub))
      PROVE  t \in L \/ Added(p, m - 1, t)
  <2>1. m - 1 \in 0..n /\ m + 1 \in 1..(n + 1) /\ p[m] = q[m + 1] /\ (m + 1) - 1 = (m - 1) + 1
      BY <1>1
  <2>2. t \in K \/ Added(q, (m + 1) - 1, t)
      BY <1>1, <1>7, <2>1 DEF Ready
  <2>3. t \in K \/ Added(p, m - 1, t) \/ (q[1].op = "add" /\ q[1].sub = t)
      BY <1>4, <2>1, <2>2
  <2> QED
      BY <1>1, <2>3
<1>8. Ready(L, p)
    BY <1>7 DEF Ready
<1> QED
    BY <1>5, <1>6, <1>8 DEF p

\* The plan of Run adds what is in vec, each after its deps.
LEMMA PlanReady ==
    ASSUME NEW B \in SUBSET Name, NEW vec \in Seq(B), NEW starts \in Seq(B), Sorted(vec)
    PROVE  /\ Ready({}, Adds(vec) \o Starts(starts))
           /\ AddsIn(Adds(vec) \o Starts(starts)) = ToSet(vec)
<1> DEFINE a == Adds(vec)
           b == Starts(starts)
           q == a \o b
           n == Len(vec)
           l == Len(starts)
<1>1. /\ a \in Seq(Todo) /\ b \in Seq(Todo) /\ Len(a) = n /\ Len(b) = l
      /\ \A k \in 1..n : a[k] = [op |-> "add", sub |-> vec[k]]
      /\ \A k \in 1..l : b[k] = [op |-> "start", sub |-> starts[k]]
    BY PlanType
<1>2. n \in Nat /\ l \in Nat /\ DOMAIN vec = 1..n
    BY LenProperties
<1> HIDE DEF a, b, n, l
<1>3. /\ Len(q) = n + l
      /\ \A k \in 1..(n + l) : q[k] = IF k <= n THEN a[k] ELSE b[k - n]
  <2>1. /\ Len(q) = Len(a) + Len(b)
        /\ \A k \in 1..(Len(a) + Len(b)) : q[k] = IF k <= Len(a) THEN a[k] ELSE b[k - Len(a)]
      BY <1>1, ConcatProperties, Zenon
  <2> QED
      BY <1>1, <2>1
<1> HIDE DEF q
<1>4. ASSUME NEW k \in 1..n PROVE q[k].op = "add" /\ q[k].sub = vec[k]
  <2>1. k \in 1..(n + l) /\ k <= n
      BY <1>2
  <2> QED
      BY <1>1, <1>3, <2>1
<1>5. ASSUME NEW k \in 1..(n + l), k \notin 1..n PROVE q[k].op # "add"
  <2>1. ~(k <= n) /\ k - n \in 1..l
      BY <1>2, <1>5
  <2>2. q[k] = [op |-> "start", sub |-> starts[k - n]]
      BY <1>1, <1>3, <2>1
  <2> QED
      BY <2>2
<1>6. \A k \in 1..n : k \in 1..(n + l)
    BY <1>2
<1>7. ASSUME NEW t PROVE t \in AddsIn(q) <=> t \in ToSet(vec)
  <2>1. t \in ToSet(vec) <=> \E k \in 1..n : vec[k] = t
      BY <1>2 DEF ToSet
  <2>2. \A k \in 1..n : vec[k] \in Name
      BY <1>2
  <2> QED
      BY <1>3, <1>4, <1>5, <1>6, <2>1, <2>2 DEF AddsIn, Added
<1>8. ASSUME NEW k \in 1..(n + l), q[k].op = "add", NEW t \in ToSet(Deps(q[k].sub))
      PROVE  Added(q, k - 1, t)
  <2>1. k \in 1..n /\ q[k].sub = vec[k]
      BY <1>4, <1>5, <1>8
  <2>a. ToSet(Deps(vec[k])) \subseteq Before(vec, k)
      BY <2>1 DEF Sorted, n
  <2>2. PICK j \in 1..(k - 1) : vec[j] = t
      BY <1>8, <2>1, <2>a DEF Before
  <2>3. j \in 1..n
      BY <1>2, <2>1
  <2> QED
      BY <1>4, <2>2, <2>3 DEF Added
<1> QED
    BY <1>3, <1>7, <1>8 DEF Ready, q, a, b

\* The connections for FlightDirector's clients that are up.
Main == {i \in DOMAIN conn : conn[i].owner = "main" /\ conn[i].up}

\* There is one while FlightDirector serves.
OneMain ==
    /\ phase = "serving" => Main # {}
    /\ phase \in {"down", "connecting"} => Main = {}
    /\ \A i, j \in Main : i = j

\* What is known has its deps known.
Closed == \A s \in known : ToSet(Deps(s)) \subseteq known

\* So it will be after each request, also on a connection of an earlier life.
InOrder == \A i \in DOMAIN conn : Ready(known, conn[i].requests)

\* So it will be after the requests that are still to be made, and then all
\* interfaces are known.
Planned ==
    phase = "serving" => \A i \in Main :
        /\ Ready(known \cup AddsIn(conn[i].requests), todo)
        /\ ToSet(graph.interface) \subseteq known \cup AddsIn(conn[i].requests) \cup AddsIn(todo)

RInv == OneMain /\ Closed /\ InOrder /\ Planned

LEMMA OneMainStep ==
    ASSUME TInv, OneMain, [Next]_vars
    PROVE  OneMain'
<1>0. Connections /\ Types /\ "main" \notin Outsider
    BY ConstantsAssumption DEF TInv
<1>a. ASSUME Altered, phase' = phase PROVE OneMain'
  <2>1. Main' = Main
      BY <1>a DEF Altered, Main
  <2> QED
      BY <1>a, <2>1 DEF OneMain
<1>b. ASSUME NEW o, Connected(o), o \in {"auto"} \cup Outsider,
             phase' = phase \/ (phase = "down" /\ phase' = "connecting")
      PROVE  OneMain'
  <2>1. /\ DOMAIN conn' = DOMAIN conn \cup {Allocate}
        /\ \A i \in DOMAIN conn : conn'[i] = conn[i]
        /\ conn'[Allocate].owner = o /\ Allocate \notin DOMAIN conn
      BY <1>0, <1>b, ConnectedAdds
  <2>2. Main' = Main
      BY <1>0, <1>b, <2>1 DEF Main
  <2> QED
      BY <1>b, <2>2 DEF OneMain
<1>1. CASE ConnectsAutostart
    BY <1>1, <1>b DEF ConnectsAutostart
<1>2. CASE Loads
  <2>1. Connected("main") /\ phase = "connecting" /\ phase' \in {"serving", "failed"}
      BY <1>2 DEF Loads
  <2>2. /\ DOMAIN conn' = DOMAIN conn \cup {Allocate}
        /\ \A i \in DOMAIN conn : conn'[i] = conn[i]
        /\ conn'[Allocate].owner = "main" /\ conn'[Allocate].up /\ Allocate \notin DOMAIN conn
      BY <1>0, <2>1, ConnectedAdds
  <2>3. Main = {}
      BY <2>1 DEF OneMain
  <2>4. Main' = {Allocate}
      BY <2>2, <2>3 DEF Main
  <2> QED
      BY <2>1, <2>4 DEF OneMain
<1>3. CASE Registers
  <2> DEFINE o == IF Head(todo).op = "add" THEN "main" ELSE "auto"
             op == Head(todo).op
             s == Head(todo).sub
  <2>1. Asked(o, op, s) /\ phase' = phase
      BY <1>3 DEF Registers
  <2>2. op \in {"add", "start", "stop"} /\ s \in Name
      BY <1>0, <1>3, NextTodo DEF Registers
  <2> HIDE DEF o, op, s
  <2>3. Altered
      BY <1>0, <2>1, <2>2, AskedAlters
  <2> QED
      BY <1>a, <2>1, <2>3
<1>4. CASE DropsAutostart
  <2>1. /\ Lowers /\ phase' = phase
        /\ \A i \in DOMAIN conn : conn[i].owner = "main" => conn'[i].up = conn[i].up
      BY <1>0, <1>4, DropsLowers DEF DropsAutostart
  <2>2. Main' = Main
      BY <2>1 DEF Lowers, Main
  <2> QED
      BY <2>1, <2>2 DEF OneMain
<1>5. CASE Dies
  <2>1. /\ Lowers /\ phase' = "down"
        /\ \A i \in DOMAIN conn : conn[i].owner \notin Outsider => ~conn'[i].up
      BY <1>0, <1>5, DiesLowers DEF Dies
  <2>2. Main' = {}
      BY <1>0, <2>1 DEF Lowers, Main
  <2> QED
      BY <2>1, <2>2 DEF OneMain
<1>6. ASSUME NEW i \in DOMAIN conn, Handles(i) PROVE OneMain'
    BY <1>0, <1>6, <1>a, HandlesAlters DEF Handles
<1>7. ASSUME NEW i \in DOMAIN conn, Forgets(i) PROVE OneMain'
  <2>1. /\ DOMAIN conn' = DOMAIN conn \ {i} /\ ~conn[i].up /\ phase' = phase
        /\ \A j \in DOMAIN conn' : conn'[j] = conn[j]
      BY <1>0, <1>7, ForgetsKeeps, TypesParts DEF Forgets
  <2>2. Main' = Main
      BY <2>1 DEF Main
  <2> QED
      BY <2>1, <2>2 DEF OneMain
<1>8. ASSUME NEW w \in DOMAIN waiting, Answered(w) PROVE OneMain'
    BY <1>0, <1>8, <1>a, AnsweredAlters DEF Answered
<1>9. ASSUME NEW s \in Name, NEW h \in Handler, NEW op \in {"start", "stop"}, Commands(h, op, s)
      PROVE  OneMain'
  <2>1. Altered
      BY <1>0, <1>9, AskedAlters DEF Commands
  <2> QED
      BY <1>9, <1>a, <2>1 DEF Commands
<1>10. ASSUME NEW s \in Name, NEW o \in Outsider, NEW op \in OutsiderOps, OutsiderCommands(o, op, s)
       PROVE  OneMain'
  <2>1. op \in {"add", "start", "stop"}
      BY ConstantsAssumption
  <2>2. Altered
      BY <1>0, <1>10, <2>1, AskedAlters DEF OutsiderCommands
  <2> QED
      BY <1>10, <1>a, <2>2 DEF OutsiderCommands
<1>11. ASSUME NEW o \in Outsider, OutsiderConnects(o) PROVE OneMain'
    BY <1>11, <1>b DEF OutsiderConnects
<1>12. CASE UNCHANGED vars
    BY <1>12 DEF vars, OneMain, Main
<1> QED
    BY <1>1, <1>2, <1>3, <1>4, <1>5, <1>6, <1>7, <1>8, <1>9, <1>10, <1>11, <1>12 DEF Next

\* The three conditions after a step, with the deps as they are.
LEMMA RegisteredAfter ==
    ASSUME graph' = graph,
           \A s \in known' : ToSet(Deps(s)) \subseteq known',
           \A i \in DOMAIN conn' : Ready(known', conn'[i].requests),
           phase' = "serving" => \A i \in Main' :
               /\ Ready(known' \cup AddsIn(conn'[i].requests), todo')
               /\ ToSet(graph.interface) \subseteq
                    known' \cup AddsIn(conn'[i].requests) \cup AddsIn(todo')
    PROVE  Closed' /\ InOrder' /\ Planned'
<1>1. Closed'
    BY GraphStays DEF Closed
<1>2. InOrder'
    BY DEF InOrder, Ready, Added, Deps
<1>3. Planned'
    BY DEF Planned, Ready, Added, AddsIn, Deps
<1> QED
    BY <1>1, <1>2, <1>3

\* A step that adds nothing, and after which no other plan is followed.
LEMMA QuietKeeps ==
    ASSUME Closed, InOrder, Planned, graph' = graph, known' = known,
           phase' # "serving" \/ (phase' = phase /\ todo' = todo /\ Main' \subseteq Main),
           \A i \in DOMAIN conn' : i \notin DOMAIN conn => conn'[i].requests = <<>>,
           \A i \in DOMAIN conn' : i \in DOMAIN conn =>
               /\ Ready(known, conn[i].requests) => Ready(known, conn'[i].requests)
               /\ AddsIn(conn'[i].requests) = AddsIn(conn[i].requests)
    PROVE  Closed' /\ InOrder' /\ Planned'
<1>1. ASSUME NEW i \in DOMAIN conn' PROVE Ready(known', conn'[i].requests)
  <2>1. CASE i \in DOMAIN conn
      BY <2>1 DEF InOrder
  <2>2. CASE i \notin DOMAIN conn
      BY <2>2, ReadyEmpty
  <2> QED
      BY <2>1, <2>2
<1>2. ASSUME phase' = "serving", NEW i \in Main'
      PROVE  /\ Ready(known' \cup AddsIn(conn'[i].requests), todo')
             /\ ToSet(graph.interface) \subseteq
                  known' \cup AddsIn(conn'[i].requests) \cup AddsIn(todo')
  <2>1. i \in Main /\ i \in DOMAIN conn /\ i \in DOMAIN conn' /\ phase = "serving" /\ todo' = todo
      BY <1>2 DEF Main
  <2>2. AddsIn(conn'[i].requests) = AddsIn(conn[i].requests)
      BY <2>1
  <2>3. /\ Ready(known \cup AddsIn(conn[i].requests), todo)
        /\ ToSet(graph.interface) \subseteq known \cup AddsIn(conn[i].requests) \cup AddsIn(todo)
      BY <2>1 DEF Planned
  <2> QED
      BY <2>1, <2>2, <2>3
<1>3. \A s \in known' : ToSet(Deps(s)) \subseteq known'
    BY DEF Closed
<1> QED
    BY <1>1, <1>2, <1>3, RegisteredAfter

\* Somebody asks for something else than to add a subsystem.
LEMMA AskedAddsNothing ==
    ASSUME Connections, NEW o, NEW op \in {"start", "stop"}, NEW s \in Name, Asked(o, op, s)
    PROVE  /\ Altered
           /\ \A i \in DOMAIN conn :
                /\ Ready(known, conn[i].requests) => Ready(known, conn'[i].requests)
                /\ AddsIn(conn'[i].requests) = AddsIn(conn[i].requests)
<1> DEFINE r == [op |-> op, sub |-> s]
           n == NumberOf(o)
<1>1. Altered /\ \A i \in DOMAIN conn :
          conn'[i].requests = IF i = n THEN Append(conn[i].requests, r) ELSE conn[i].requests
    BY AskedAlters
<1>2. r \in Request /\ r.op # "add"
    BY DEF Request
<1> HIDE DEF r, n
<1>3. ASSUME NEW i \in DOMAIN conn
      PROVE  /\ Ready(known, conn[i].requests) => Ready(known, conn'[i].requests)
             /\ AddsIn(conn'[i].requests) = AddsIn(conn[i].requests)
  <2> DEFINE q == conn[i].requests
  <2>1. q \in Seq(Request)
      BY ConnectionParts DEF Connections
  <2> HIDE DEF q
  <2>2. AddsIn(Append(q, r)) = AddsIn(q) \cup Brings(r)
      BY <1>2, <2>1, AddsAppend
  <2>3. Ready(known, q) => Ready(known, Append(q, r))
      BY <1>2, <2>1, ReadyAppend
  <2>4. conn'[i].requests = IF i = n THEN Append(q, r) ELSE q
      BY <1>1 DEF q
  <2> QED
      BY <1>2, <2>2, <2>3, <2>4 DEF q, Brings
<1> QED
    BY <1>1, <1>3

LEMMA RegistersKeeps ==
    ASSUME TInv, RInv, Registers
    PROVE  Closed' /\ InOrder' /\ Planned'
<1> DEFINE r == Head(todo)
           o == IF Head(todo).op = "add" THEN "main" ELSE "auto"
           n == NumberOf(o)
           q(i) == conn[i].requests
<1>0. Connections /\ Types /\ todo \in Seq(Todo) /\ todo # <<>>
    BY TypesParts DEF TInv, Registers
<1>1. /\ phase = "serving" /\ phase' = phase /\ known' = known /\ graph' = graph
      /\ todo' = Tail(todo) /\ Asked(o, r.op, r.sub)
    BY DEF Registers
<1>2. r.op \in {"add", "start", "stop"} /\ r.sub \in Name
    BY <1>0, NextTodo
<1>3. todo \in Seq(Request) /\ r \in Request /\ r = [op |-> r.op, sub |-> r.sub]
  <2>1. Todo \subseteq Request
      BY DEF Todo, Request
  <2>2. todo \in Seq(Request) /\ r \in Request
      BY <1>0, <2>1, SeqMonotonic, HeadTailProperties
  <2> HIDE DEF r
  <2> QED
      BY <2>2 DEF Request
<1> HIDE DEF r
<1>4. /\ Altered
      /\ \A i \in DOMAIN conn :
           conn'[i].requests = IF i = n THEN Append(q(i), r) ELSE q(i)
  <2> HIDE DEF o
  <2> QED
      BY <1>0, <1>1, <1>2, <1>3, AskedAlters
<1>5. \A i \in DOMAIN conn : q(i) \in Seq(Request) /\ Ready(known, q(i))
    BY <1>0, ConnectionParts DEF Connections, RInv, InOrder
<1>6. Main' = Main
    BY <1>4 DEF Altered, Main
<1>7. r.op = "add" => n \in Main
  <2>1. PICK i \in Main : TRUE
      BY <1>1 DEF RInv, OneMain
  <2>2. Online("main")
      BY <2>1 DEF Main, Online
  <2> QED
      BY <2>2, NumberOfOnline DEF Main, r
<1> HIDE DEF n
<1>8. ASSUME NEW i \in Main
      PROVE  /\ Ready(known \cup AddsIn(q(i)), todo)
             /\ ToSet(graph.interface) \subseteq known \cup AddsIn(q(i)) \cup AddsIn(todo)
             /\ r.op = "add" => i = n
    BY <1>1, <1>7 DEF RInv, Planned, OneMain
<1>9. r.op = "add" => ToSet(Deps(r.sub)) \subseteq known \cup AddsIn(q(n))
  <2> SUFFICES ASSUME r.op = "add" PROVE ToSet(Deps(r.sub)) \subseteq known \cup AddsIn(q(n))
      OBVIOUS
  <2> DEFINE K == known \cup AddsIn(q(n))
             L == K \cup {r.sub}
  <2>1. Ready(K, todo) /\ r.sub \in L /\ K \subseteq L
      BY <1>7, <1>8
  <2> HIDE DEF K, L
  <2>2. ToSet(Deps(r.sub)) \subseteq K
      BY <1>0, <1>3, <2>1, ReadyTail DEF r
  <2> QED
      BY <2>2 DEF K
<1>10. ASSUME NEW i \in DOMAIN conn
       PROVE  /\ Ready(known, conn'[i].requests)
              /\ AddsIn(conn'[i].requests) =
                   AddsIn(q(i)) \cup {t \in {r.sub} : i = n /\ r.op = "add"}
  <2>1. CASE i = n
    <3>1. /\ Ready(known, Append(q(i), r))
          /\ AddsIn(Append(q(i), r)) = AddsIn(q(i)) \cup Brings(r)
      <4> DEFINE p == q(i)
      <4>1. /\ p \in Seq(Request) /\ Ready(known, p)
            /\ r.op = "add" => ToSet(Deps(r.sub)) \subseteq known \cup AddsIn(p)
          BY <1>5, <1>9, <2>1
      <4> HIDE DEF p
      <4>2. /\ Ready(known, Append(p, r))
            /\ AddsIn(Append(p, r)) = AddsIn(p) \cup Brings(r)
          BY <1>3, <4>1, ReadyAppend
      <4> QED
          BY <4>2 DEF p
    <3> QED
        BY <1>4, <2>1, <3>1 DEF Brings
  <2>2. CASE i # n
      BY <1>4, <1>5, <2>2
  <2> QED
      BY <2>1, <2>2
<1>11. ASSUME NEW i \in Main'
       PROVE  /\ Ready(known' \cup AddsIn(conn'[i].requests), todo')
              /\ ToSet(graph.interface) \subseteq
                   known' \cup AddsIn(conn'[i].requests) \cup AddsIn(todo')
  <2> DEFINE K == known \cup AddsIn(q(i))
             L == known \cup AddsIn(conn'[i].requests)
  <2>1. i \in Main /\ i \in DOMAIN conn
      BY <1>6 DEF Main
  <2>2. Ready(K, todo) /\ (r.op = "add" => i = n)
        /\ ToSet(graph.interface) \subseteq K \cup AddsIn(todo)
      BY <1>8, <2>1
  <2>3. L = K \cup Brings(r)
      BY <1>10, <2>1, <2>2 DEF Brings
  <2>4. K \subseteq L /\ (r.op = "add" => r.sub \in L)
      BY <2>3 DEF Brings
  <2> HIDE DEF K, L
  <2>5. /\ Ready(L, Tail(todo))
        /\ AddsIn(todo) = AddsIn(Tail(todo)) \cup Brings(r)
    <3>1. r = Head(todo)
        BY DEF r
    <3>2. todo \in Seq(Request) /\ todo # <<>> /\ Ready(K, todo) /\ K \subseteq L
        BY <1>0, <1>3, <2>2, <2>4
    <3>3. Head(todo).op = "add" => Head(todo).sub \in L
        BY <2>4, <3>1
    <3>4. /\ Ready(L, Tail(todo))
          /\ AddsIn(todo) =
               AddsIn(Tail(todo)) \cup Brings(Head(todo))
        BY <3>2, <3>3, ReadyTail
    <3> QED
        BY <3>4 DEF r
  <2>6. Ready(L, todo') /\ ToSet(graph.interface) \subseteq L \cup AddsIn(todo')
      BY <1>1, <2>2, <2>3, <2>5
  <2> QED
      BY <1>1, <2>6 DEF L
<1>12. \A s \in known' : ToSet(Deps(s)) \subseteq known'
    BY <1>1 DEF RInv, Closed
<1>13. \A i \in DOMAIN conn' : Ready(known', conn'[i].requests)
    BY <1>1, <1>4, <1>10 DEF Altered
<1> QED
    BY <1>1, <1>11, <1>12, <1>13, RegisteredAfter

\* What Capcom knows after a request: no subsystem it adds misses a dep.
LEMMA HandlesKeepsOrder ==
    ASSUME TInv, RInv, NEW i \in DOMAIN conn, Handles(i)
    PROVE  Closed' /\ InOrder' /\ Planned'
<1> DEFINE q == conn[i].requests
           r == Head(q)
<1>0. Connections /\ graph' = graph /\ phase' = phase /\ todo' = todo
    BY DEF TInv, Handles
<1>1. /\ Altered /\ q # <<>> /\ r \in Request /\ conn'[i].requests = Tail(q)
      /\ \A j \in DOMAIN conn : j # i => conn'[j] = conn[j]
    BY <1>0, HandlesAlters
<1>2. q \in Seq(Request) /\ Ready(known, q)
    BY <1>0, ConnectionParts DEF Connections, RInv, InOrder
<1>3. \/ r.op = "add" /\ known' = known \cup {t \in {r.sub} : ToSet(Deps(t)) \subseteq known}
      \/ r.op # "add" /\ known' = known
    BY DEF Handles, HandleAddSubsystem, HandleStartSubsystem, HandleStopSubsystem
<1> HIDE DEF q
<1>4. r.op = "add" => ToSet(Deps(r.sub)) \subseteq known
  <2> DEFINE K == known
             L == known \cup {r.sub}
  <2>1. Ready(K, q) /\ K \subseteq L /\ Head(q).sub \in L
      BY <1>2
  <2> HIDE DEF K, L
  <2>2. Head(q).op = "add" => ToSet(Deps(Head(q).sub)) \subseteq K
      BY <1>1, <1>2, <2>1, ReadyTail
  <2> QED
      BY <2>2 DEF K
<1>5. known' = known \cup Brings(r)
    BY <1>3, <1>4 DEF Brings
<1>6. /\ Ready(known', Tail(q))
      /\ AddsIn(q) = AddsIn(Tail(q)) \cup Brings(r)
  <2> DEFINE K == known
             L == known'
  <2>1. Ready(K, q) /\ K \subseteq L /\ (Head(q).op = "add" => Head(q).sub \in L)
      BY <1>2, <1>5 DEF Brings
  <2> HIDE DEF K, L
  <2>2. /\ Ready(L, Tail(q))
        /\ AddsIn(q) = AddsIn(Tail(q)) \cup Brings(r)
      BY <1>1, <1>2, <2>1, ReadyTail
  <2> QED
      BY <2>2 DEF L
<1>7. \A s \in known' : ToSet(Deps(s)) \subseteq known'
    BY <1>4, <1>5 DEF RInv, Closed, Brings
<1>8. ASSUME NEW j \in DOMAIN conn PROVE Ready(known', conn'[j].requests)
  <2>1. CASE j = i
      BY <1>1, <1>6, <2>1
  <2>2. CASE j # i
    <3>1. Ready(known, conn[j].requests) /\ known \subseteq known'
        BY <1>5 DEF RInv, InOrder
    <3> QED
        BY <1>1, <2>2, <3>1, ReadyMore
  <2> QED
      BY <2>1, <2>2
<1>9. ASSUME phase' = "serving", NEW j \in Main'
      PROVE  /\ Ready(known' \cup AddsIn(conn'[j].requests), todo')
             /\ ToSet(graph.interface) \subseteq
                  known' \cup AddsIn(conn'[j].requests) \cup AddsIn(todo')
  <2> DEFINE K == known \cup AddsIn(conn[j].requests)
             L == known' \cup AddsIn(conn'[j].requests)
  <2>1. j \in Main /\ j \in DOMAIN conn
      BY <1>1 DEF Altered, Main
  <2>2. Ready(K, todo) /\ ToSet(graph.interface) \subseteq K \cup AddsIn(todo)
      BY <1>0, <1>9, <2>1 DEF RInv, Planned
  <2>3. K \subseteq L
      BY <1>1, <1>5, <1>6, <2>1 DEF q
  <2> HIDE DEF K, L
  <2>4. Ready(L, todo)
      BY <2>2, <2>3, ReadyMore
  <2> QED
      BY <1>0, <2>2, <2>3, <2>4 DEF L
<1>10. \A j \in DOMAIN conn' : Ready(known', conn'[j].requests)
    BY <1>1, <1>8 DEF Altered
<1> QED
    BY <1>0, <1>7, <1>9, <1>10, RegisteredAfter

LEMMA LoadsRegisters ==
    ASSUME TInv, RInv, Loads
    PROVE  Closed' /\ InOrder' /\ Planned'
<1>0. Connections /\ graph \in Graphs
    BY TypesParts DEF TInv
<1>1. /\ Connected("main") /\ phase = "connecting" /\ known' = known /\ graph' = graph
      /\ phase' \in {"serving", "failed"}
    BY DEF Loads
<1>2. /\ DOMAIN conn' = DOMAIN conn \cup {Allocate}
      /\ \A i \in DOMAIN conn : conn'[i] = conn[i]
      /\ conn'[Allocate].requests = <<>> /\ conn'[Allocate].owner = "main"
    BY <1>0, <1>1, ConnectedAdds
<1>3. \A i \in Main' : i = Allocate
    BY <1>1, <1>2 DEF RInv, OneMain, Main
<1>4. \A s \in known' : ToSet(Deps(s)) \subseteq known'
    BY <1>1 DEF RInv, Closed
<1>5. ASSUME NEW i \in DOMAIN conn' PROVE Ready(known', conn'[i].requests)
  <2>1. CASE i \in DOMAIN conn
      BY <1>1, <1>2, <2>1 DEF RInv, InOrder
  <2>2. CASE i \notin DOMAIN conn
      BY <1>2, <2>2, ReadyEmpty
  <2> QED
      BY <2>1, <2>2
<1>6. ASSUME phase' = "serving", NEW i \in Main'
      PROVE  /\ Ready(known' \cup AddsIn(conn'[i].requests), todo')
             /\ ToSet(graph.interface) \subseteq
                  known' \cup AddsIn(conn'[i].requests) \cup AddsIn(todo')
  <2> DEFINE L == known' \cup AddsIn(conn'[i].requests)
  <2>1. PICK vec, starts \in Seq(graph.subsystem) :
            /\ todo' = Adds(vec) \o Starts(starts)
            /\ Sorted(vec) /\ ToSet(graph.interface) \subseteq ToSet(vec)
      BY <1>0, <1>6, LoadsPlans
  <2>2. graph.subsystem \in SUBSET Name
      BY <1>0, GraphParts
  <2>3. Ready({}, todo') /\ AddsIn(todo') = ToSet(vec)
    <3> DEFINE B == graph.subsystem
               all == Adds(vec) \o Starts(starts)
    <3>1. B \in SUBSET Name /\ vec \in Seq(B) /\ starts \in Seq(B) /\ Sorted(vec)
        BY <2>1, <2>2
    <3> HIDE DEF B
    <3>2. Ready({}, all) /\ AddsIn(all) = ToSet(vec)
        BY <3>1, PlanReady
    <3>3. todo' = all
        BY <2>1
    <3> HIDE DEF all
    <3> QED
        BY <3>2, <3>3
  <2>4. {} \subseteq L
      OBVIOUS
  <2> HIDE DEF L
  <2>5. Ready(L, todo')
      BY <2>3, <2>4, ReadyMore
  <2> QED
      BY <2>1, <2>3, <2>5 DEF L
<1> QED
    BY <1>1, <1>4, <1>5, <1>6, RegisteredAfter

LEMMA RegisteredStep ==
    ASSUME TInv, RInv, [Next]_vars
    PROVE  RInv'
<1>0. /\ Connections /\ Types /\ Closed /\ InOrder /\ Planned /\ graph' = graph
      /\ "main" \notin Outsider
    BY ConnectionsStep, ConstantsAssumption DEF TInv, RInv
<1>a. SUFFICES Closed' /\ InOrder' /\ Planned'
    BY OneMainStep DEF RInv
<1>b. ASSUME NEW o \in {"auto"} \cup Outsider, Connected(o), known' = known,
             phase' # "serving" \/ (phase' = phase /\ todo' = todo)
      PROVE  Closed' /\ InOrder' /\ Planned'
  <2>1. /\ DOMAIN conn' = DOMAIN conn \cup {Allocate}
        /\ \A i \in DOMAIN conn : conn'[i] = conn[i]
        /\ conn'[Allocate].owner = o /\ conn'[Allocate].requests = <<>>
      BY <1>0, <1>b, ConnectedAdds
  <2>2. Main' \subseteq Main
      BY <1>0, <2>1 DEF Main
  <2> QED
      BY <1>0, <1>b, <2>1, <2>2, QuietKeeps
<1>c. ASSUME NEW o, NEW op \in {"start", "stop"}, NEW s \in Name, Asked(o, op, s),
             known' = known, phase' = phase, todo' = todo
      PROVE  Closed' /\ InOrder' /\ Planned'
  <2>1. /\ Altered
        /\ \A i \in DOMAIN conn :
             /\ Ready(known, conn[i].requests) => Ready(known, conn'[i].requests)
             /\ AddsIn(conn'[i].requests) = AddsIn(conn[i].requests)
      BY <1>0, <1>c, AskedAddsNothing
  <2>2. Main' \subseteq Main
      BY <2>1 DEF Altered, Main
  <2>3. DOMAIN conn' = DOMAIN conn
      BY <2>1 DEF Altered
  <2> QED
      BY <1>0, <1>c, <2>1, <2>2, <2>3, QuietKeeps
<1>d. ASSUME \A i \in DOMAIN conn' : i \in DOMAIN conn /\ conn'[i].requests = conn[i].requests,
             known' = known, phase' # "serving" \/ (phase' = phase /\ todo' = todo),
             Main' \subseteq Main
      PROVE  Closed' /\ InOrder' /\ Planned'
    BY <1>0, <1>d, QuietKeeps
<1>1. CASE ConnectsAutostart
    BY <1>1, <1>b DEF ConnectsAutostart
<1>2. CASE Loads
    BY <1>2, LoadsRegisters
<1>3. CASE Registers
    BY <1>3, RegistersKeeps
<1>4. CASE DropsAutostart
  <2>1. Lowers /\ phase' = phase /\ known' = known /\ todo' = todo
      BY <1>0, <1>4, DropsLowers DEF DropsAutostart
  <2>2. Main' \subseteq Main
      BY <2>1 DEF Lowers, Main
  <2> QED
      BY <1>d, <2>1, <2>2 DEF Lowers
<1>5. CASE Dies
  <2>1. Lowers /\ phase' = "down" /\ known' = known
      BY <1>0, <1>5, DiesLowers DEF Dies
  <2>2. Main' \subseteq Main
      BY <2>1 DEF Lowers, Main
  <2> QED
      BY <1>d, <2>1, <2>2 DEF Lowers
<1>6. ASSUME NEW i \in DOMAIN conn, Handles(i) PROVE Closed' /\ InOrder' /\ Planned'
    BY <1>6, HandlesKeepsOrder
<1>7. ASSUME NEW i \in DOMAIN conn, Forgets(i) PROVE Closed' /\ InOrder' /\ Planned'
  <2>1. /\ DOMAIN conn' = DOMAIN conn \ {i} /\ phase' = phase /\ known' = known /\ todo' = todo
        /\ \A j \in DOMAIN conn' : conn'[j] = conn[j]
      BY <1>0, <1>7, ForgetsKeeps, TypesParts DEF Forgets
  <2>2. Main' \subseteq Main
      BY <2>1 DEF Main
  <2> QED
      BY <1>d, <2>1, <2>2
<1>8. ASSUME NEW w \in DOMAIN waiting, Answered(w) PROVE Closed' /\ InOrder' /\ Planned'
  <2>1. /\ Altered /\ phase' = phase /\ known' = known /\ todo' = todo
        /\ \A i \in DOMAIN conn : conn'[i].requests = conn[i].requests
      BY <1>0, <1>8, AnsweredAlters DEF Answered
  <2>2. Main' \subseteq Main
      BY <2>1 DEF Altered, Main
  <2> QED
      BY <1>d, <2>1, <2>2 DEF Altered
<1>9. ASSUME NEW s \in Name, NEW h \in Handler, NEW op \in {"start", "stop"}, Commands(h, op, s)
      PROVE  Closed' /\ InOrder' /\ Planned'
    BY <1>9, <1>c DEF Commands
<1>10. ASSUME NEW s \in Name, NEW o \in Outsider, NEW op \in OutsiderOps, OutsiderCommands(o, op, s)
       PROVE  Closed' /\ InOrder' /\ Planned'
  <2>1. op \in {"start", "stop"}
      BY ConstantsAssumption
  <2> QED
      BY <1>10, <1>c, <2>1 DEF OutsiderCommands
<1>11. ASSUME NEW o \in Outsider, OutsiderConnects(o) PROVE Closed' /\ InOrder' /\ Planned'
    BY <1>11, <1>b DEF OutsiderConnects
<1>12. CASE UNCHANGED vars
  <2>1. Main' \subseteq Main
      BY <1>12 DEF vars, Main
  <2> QED
      BY <1>12, <1>d, <2>1 DEF vars
<1> QED
    BY <1>1, <1>2, <1>3, <1>4, <1>5, <1>6, <1>7, <1>8, <1>9, <1>10, <1>11, <1>12 DEF Next

LEMMA RegisteredStays == Spec => []RInv
<1>1. Init => RInv
    BY DEF Init, RInv, OneMain, Main, Closed, InOrder, Planned
<1>2. TInv /\ RInv /\ [Next]_vars => RInv'
    BY RegisteredStep
<1> QED
    BY <1>1, <1>2, TypesStay, PTL DEF Spec

\* Capcom refuses a subsystem whose children it does not know; it never has to
\* refuse one that FlightDirector registers.
NeverRefused ==
    \A i \in DOMAIN conn :
        LET q == conn[i].requests
        IN q # <<>> /\ Head(q).op = "add" => ToSet(Deps(Head(q).sub)) \subseteq known

\* When there is nothing left to be registered, all that the interfaces need is
\* known to Capcom.
Registered ==
    phase = "serving" /\ todo = <<>> /\ (\A i \in Main : conn[i].requests = <<>>) =>
        Reachable(ToSet(graph.interface)) \subseteq known

\* Subsystems are registered in an order in which Capcom takes them, on each
\* connection FlightDirector has and had, whatever answers its coroutine takes
\* for its own and whatever clients command in between.
THEOREM AddsInOrder == Spec => []NeverRefused
<1>1. TInv /\ RInv => NeverRefused
  <2> SUFFICES ASSUME TInv, RInv, NEW i \in DOMAIN conn, conn[i].requests # <<>>,
                      Head(conn[i].requests).op = "add"
               PROVE  ToSet(Deps(Head(conn[i].requests).sub)) \subseteq known
      BY DEF NeverRefused
  <2> DEFINE q == conn[i].requests
             K == known
             L == known \cup {Head(q).sub}
  <2>1. q \in Seq(Request) /\ q # <<>> /\ Ready(K, q) /\ K \subseteq L /\ Head(q).sub \in L
      BY ConnectionParts DEF TInv, Connections, RInv, InOrder
  <2> HIDE DEF q, K, L
  <2>2. Head(q).op = "add" => ToSet(Deps(Head(q).sub)) \subseteq K
      BY <2>1, ReadyTail
  <2> QED
      BY <2>2 DEF q, K
<1> QED
    BY <1>1, TypesStay, RegisteredStays, PTL

\* Nothing is left out: once the coroutine has asked for everything and Capcom
\* has served it, the interfaces and all they need, directly or not, are known.
THEOREM AllGetsRegistered == Spec => []Registered
<1>1. TInv /\ RInv => Registered
  <2> SUFFICES ASSUME TInv, RInv, phase = "serving", todo = <<>>,
                      \A i \in Main : conn[i].requests = <<>>
               PROVE  Reachable(ToSet(graph.interface)) \subseteq known
      BY DEF Registered
  <2>1. PICK i \in Main : TRUE
      BY DEF RInv, OneMain
  <2>2. ToSet(graph.interface) \subseteq known
      BY <2>1, ReadyEmpty DEF RInv, Planned
  <2>3. \A s \in known : ToSet(Deps(s)) \subseteq known
      BY DEF RInv, Closed
  <2> QED
      BY <2>2, <2>3, ReachedWithin
<1> QED
    BY <1>1, TypesStay, RegisteredStays, PTL

=============================================================================
