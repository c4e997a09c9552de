--------------------------- MODULE ComputesProofs ---------------------------
(***************************************************************************)
(* Proofs about the computes and the umbilicals that subsystems share.     *)
(***************************************************************************)
EXTENDS Computes, WellFoundedInduction, FiniteSetTheorems, TLAPS

Umbilical ==
    [st : {"None", "Closed", "Connecting", "Connected"}, refs : Int, statics : Int,
     link : {"down", "up", "stale"}, static : BOOLEAN]

-----------------------------------------------------------------------------
(* Induction up to a bound, over a set of numbers.                         *)

\* A set that holds 0, and n whenever it holds n - 1, holds all up to the bound.
LEMMA UpTo ==
    ASSUME NEW n \in Nat, NEW S, 0 \in S, \A k \in 1..n : k - 1 \in S => k \in S
    PROVE  0..n \subseteq S
<1> SUFFICES ASSUME (0..n) \ S # {} PROVE FALSE
    OBVIOUS
<1> DEFINE T == (0..n) \ S
           R == OpToRel(<, Nat)
<1>1. T \subseteq Nat /\ T # {}
    OBVIOUS
<1>2. IsWellFoundedOn(R, Nat)
    BY NatLessThanWellFounded, Zenon
<1>3. \A k, m \in Nat : k < m => <<k, m>> \in R
    BY DEF OpToRel
<1> HIDE DEF T, R
<1>4. PICK m \in T : \A k \in T : <<k, m>> \notin R
    BY <1>1, <1>2, WFMin
<1> USE DEF T
<1>5. m \in 1..n
    BY <1>4
<1>6. m - 1 \in T
    BY <1>4, <1>5
<1>7. m - 1 \in Nat /\ m \in Nat /\ m - 1 < m
    BY <1>5
<1> QED
    BY <1>3, <1>4, <1>6, <1>7

-----------------------------------------------------------------------------
(* Processes disconnect.                                                   *)

\* The cgroups h are among those of g.
Within(h, g) == DOMAIN h \subseteq DOMAIN g /\ \A x \in DOMAIN h : h[x] = g[x]

\* v is u after at least one process has disconnected: a dynamic umbilical that
\* had no other reference is closed.
Lowered(u, v) ==
    /\ v.static = u.static /\ v.statics = u.statics /\ v.refs <= u.refs - 1
    /\ v.st \in {u.st, "Closed"} /\ v.link \in {u.link, "down"}
    /\ v.st = "Closed" => u.st = "Closed" \/ v.link = "down"
    /\ v.st = "Closed" => u.st = "Closed" \/ v.refs <= 0
    /\ ~u.static /\ u.refs <= 1 => v.st = "Closed"

LEMMA WithoutSettings ==
    ASSUME NEW f \in Settings, NEW S
    PROVE  Without(f, S) \in Settings /\ Within(Without(f, S), f)
<1>1. PICK D \in SUBSET Cgroup : f \in [D -> Setting]
    BY DEF Settings
<1>2. Without(f, S) \in [D \ S -> Setting] /\ D \ S \in SUBSET Cgroup
    BY <1>1 DEF Without
<1>3. Without(f, S) \in Settings
    BY <1>2 DEF Settings
<1> QED
    BY <1>1, <1>3 DEF Without, Within

\* The fields of an umbilical.
LEMMA Links ==
    ASSUME NEW u \in Umbilical
    PROVE  /\ u.st \in {"None", "Closed", "Connecting", "Connected"}
           /\ u.refs \in Int /\ u.statics \in Int
           /\ u.link \in {"down", "up", "stale"} /\ u.static \in BOOLEAN
BY DEF Umbilical

LEMMA DisconnectedLowers ==
    ASSUME NEW u \in Umbilical, NEW dynamic \in BOOLEAN
    PROVE  LET v == Disconnected(u, dynamic) IN
           v \in Umbilical /\ Lowered(u, v) /\ v.refs = u.refs - 1
<1>1. CASE (dynamic /\ u.static) \/ u.refs - 1 > 0
  <2> DEFINE v == [u EXCEPT !.refs = @ - 1]
  <2>1. /\ v \in Umbilical /\ v.refs = u.refs - 1 /\ v.st = u.st
        /\ v.static = u.static /\ v.statics = u.statics /\ v.link = u.link
      BY DEF Umbilical
  <2>2. Disconnected(u, dynamic) = v
      BY <1>1 DEF Disconnected
  <2> HIDE DEF v
  <2>3. Lowered(u, v)
      BY <1>1, <2>1, Links DEF Lowered
  <2> QED
      BY <2>1, <2>2, <2>3
<1>2. CASE ~((dynamic /\ u.static) \/ u.refs - 1 > 0)
  <2> DEFINE v == [u EXCEPT !.refs = @ - 1, !.st = "Closed", !.link = "down"]
  <2>1. /\ v \in Umbilical /\ v.refs = u.refs - 1 /\ v.st = "Closed"
        /\ v.static = u.static /\ v.statics = u.statics /\ v.link = "down"
    <3>1. u.refs - 1 \in Int
        BY Links
    <3> QED
        BY <3>1, Zenon DEF Umbilical
  <2>2. Disconnected(u, dynamic) = v
      BY <1>2 DEF Disconnected
  <2> HIDE DEF v
  <2>3. Lowered(u, v)
      BY <1>2, <2>1, Links DEF Lowered
  <2> QED
      BY <2>1, <2>2, <2>3
<1> QED
    BY <1>1, <1>2

LEMMA LoweredMore ==
    ASSUME NEW u \in Umbilical, NEW v \in Umbilical, NEW w \in Umbilical,
           Lowered(u, v), Lowered(v, w)
    PROVE  Lowered(u, w)
BY Links DEF Lowered

LEMMA WithinMore ==
    ASSUME NEW f, NEW g, NEW h, Within(h, g), Within(g, f)
    PROVE  Within(h, f)
BY DEF Within

LEMMA RemovalsKeep ==
    ASSUME NEW u \in Umbilical, NEW had \in Settings, NEW names, NEW busy,
           NEW r \in Removals(u, had, names, busy)
    PROVE  /\ r.u = u \/ r.u = [u EXCEPT !.link = "down"]
           /\ r.u \in Umbilical
           /\ r.g \in Settings /\ Within(r.g, had)
<1>1. Within(had, had)
    BY DEF Within
<1>2. [u EXCEPT !.link = "down"] \in Umbilical
    BY DEF Umbilical
<1>3. CASE u.link = "up"
  <2>1. r.u = u /\ \E D : r.g = Without(had, D)
      BY <1>3 DEF Removals
  <2> QED
      BY <2>1, WithoutSettings
<1>4. CASE u.link # "up"
  <2>1. \E link : r.u = [u EXCEPT !.link = link] /\ r.g = had /\ link \in {u.link, "down"}
    <3>1. r \in {[u |-> [u EXCEPT !.link = IF names = {} THEN @ ELSE "down"],
                  g |-> had, ok |-> ok] :
                    ok \in IF names = {} THEN {TRUE}
                           ELSE IF u.link = "stale" /\ Cardinality(names) = 1
                                THEN BOOLEAN ELSE {FALSE}}
        BY <1>4, Zenon DEF Removals
    <3>2. PICK ok : r = [u |-> [u EXCEPT !.link = IF names = {} THEN @ ELSE "down"],
                         g |-> had, ok |-> ok]
        BY <3>1, Zenon
    <3>3. r.u = [u EXCEPT !.link = IF names = {} THEN @ ELSE "down"] /\ r.g = had
        BY <3>2, Zenon
    <3>4. CASE names = {}
        BY <3>3, <3>4, Zenon
    <3>5. CASE names # {}
        BY <3>3, <3>5, Zenon
    <3> QED
        BY <3>4, <3>5
  <2>2. PICK link \in {u.link, "down"} : r.u = [u EXCEPT !.link = link] /\ r.g = had
      BY <2>1
  <2>3. link = u.link => r.u = u
      BY <2>2 DEF Umbilical
  <2> QED
      BY <1>1, <1>2, <2>2, <2>3
<1> QED
    BY <1>3, <1>4

LEMMA DisconnectsOnce ==
    ASSUME NEW u \in Umbilical, NEW had \in Settings, NEW names, NEW busy,
           NEW r \in DisconnectUmbilical(u, had, names, busy)
    PROVE  /\ r.u \in Umbilical /\ Lowered(u, r.u)
           /\ r.g \in Settings /\ Within(r.g, had)
<1>1. \E q \in Removals(u, had, names, busy) :
        r = [u |-> IF q.ok THEN Disconnected(q.u, TRUE)
                   ELSE Disconnected(Disconnected(q.u, FALSE), TRUE),
             g |-> q.g]
    BY Zenon DEF DisconnectUmbilical
<1>2. PICK q \in Removals(u, had, names, busy) :
        r = [u |-> IF q.ok THEN Disconnected(q.u, TRUE)
                   ELSE Disconnected(Disconnected(q.u, FALSE), TRUE),
             g |-> q.g]
    BY <1>1
<1>3. q.u \in Umbilical /\ r.g \in Settings /\ Within(r.g, had)
    BY <1>2, RemovalsKeep
<1>4. /\ q.u.static = u.static /\ q.u.statics = u.statics
      /\ q.u.refs = u.refs /\ q.u.st = u.st /\ q.u.link \in {u.link, "down"}
  <2>1. q.u = u \/ q.u = [u EXCEPT !.link = "down"]
      BY RemovalsKeep
  <2> QED
      BY <2>1 DEF Umbilical
<1>5. ASSUME NEW v \in Umbilical, Lowered(q.u, v) PROVE Lowered(u, v)
    BY <1>4, <1>5 DEF Lowered
<1>6. r.u \in Umbilical /\ Lowered(q.u, r.u)
  <2> DEFINE v == Disconnected(q.u, FALSE)
  <2>1. /\ v \in Umbilical /\ Lowered(q.u, v)
        /\ Disconnected(v, TRUE) \in Umbilical /\ Lowered(v, Disconnected(v, TRUE))
      BY <1>3, DisconnectedLowers
  <2>2. Disconnected(q.u, TRUE) \in Umbilical /\ Lowered(q.u, Disconnected(q.u, TRUE))
      BY <1>3, DisconnectedLowers
  <2>3. r.u = Disconnected(q.u, TRUE) \/ r.u = Disconnected(v, TRUE)
      BY <1>2
  <2> HIDE DEF v
  <2> QED
      BY <1>3, <2>1, <2>2, <2>3, LoweredMore
<1> QED
    BY <1>3, <1>5, <1>6

\* All the processes of a subsystem, one after the other.
LEMMA DisconnectsAll ==
    ASSUME NEW u \in Umbilical, NEW had \in Settings, NEW names, NEW busy,
           NEW n \in Nat \ {0}, NEW r \in Disconnections(u, had, names, busy, n)
    PROVE  /\ r.u \in Umbilical /\ Lowered(u, r.u)
           /\ r.g \in Settings /\ Within(r.g, had)
<1> DEFINE Next1(X) == UNION {DisconnectUmbilical(q.u, q.g, names, busy) : q \in X}
           First == {[u |-> u, g |-> had]}
           Is(f, m) == f = [k \in 0..m |-> IF k = 0 THEN First ELSE Next1(f[k - 1])]
           After[k \in 0..n] == IF k = 0 THEN First ELSE Next1(After[k - 1])
<1>1. Disconnections(u, had, names, busy, n) = After[n]
    BY DEF Disconnections
<1>2. \E f : Is(f, n)
  <2> DEFINE S == {m \in 0..n : \E f : Is(f, m)}
  <2> HIDE DEF Next1, First
  <2>1. 0 \in S
    <3> DEFINE f == [k \in 0..0 |-> First]
    <3>1. f = [k \in 0..0 |-> IF k = 0 THEN First ELSE Next1(f[k - 1])]
        OBVIOUS
    <3>2. 0 \in 0..n
        OBVIOUS
    <3> QED
        BY <3>1, <3>2, Zenon
  <2>2. ASSUME NEW m \in 1..n, m - 1 \in S PROVE m \in S
    <3>1. PICK f : Is(f, m - 1)
        BY <2>2
    <3> DEFINE g == [k \in 0..m |-> IF k = 0 THEN First ELSE Next1(f[k - 1])]
    <3>2. \A k \in 1..m : k - 1 \in 0..(m - 1) /\ k - 1 \in 0..m
        OBVIOUS
    <3>3. \A k \in 0..(m - 1) : k \in 0..m
        OBVIOUS
    <3>4. \A k \in 0..(m - 1) : f[k] = g[k]
        BY <3>1, <3>3
    <3>5. \A k \in 0..m : k # 0 => f[k - 1] = g[k - 1]
      <4> HIDE DEF g
      <4>1. \A k \in 0..m : k # 0 => k - 1 \in 0..(m - 1)
          OBVIOUS
      <4> QED
          BY <3>4, <4>1
    <3>6. g = [k \in 0..m |-> IF k = 0 THEN First ELSE Next1(g[k - 1])]
      <4> DEFINE h == [k \in 0..m |-> IF k = 0 THEN First ELSE Next1(g[k - 1])]
      <4>1. \A k \in 0..m : g[k] = h[k]
          BY <3>5
      <4> QED
          BY <4>1
    <3>7. m \in 0..n
        OBVIOUS
    <3> HIDE DEF g
    <3> QED
        BY <3>6, <3>7
  <2> HIDE DEF S
  <2>3. n \in S
      BY <2>1, <2>2, UpTo
  <2> QED
      BY <2>3 DEF S
<1>3. Is(After, n)
    BY <1>2, Zenon DEF After
<1> HIDE DEF After
<1> DEFINE Good(q) == /\ q.u \in Umbilical /\ Lowered(u, q.u)
                      /\ q.g \in Settings /\ Within(q.g, had)
           T == {m \in 0..n : m = 0 \/ \A q \in After[m] : Good(q)}
<1>4. 0 \in T
    OBVIOUS
<1>5. ASSUME NEW m \in 1..n, m - 1 \in T PROVE m \in T
  <2>1. SUFFICES ASSUME NEW q \in After[m] PROVE Good(q)
      OBVIOUS
  <2>2. After[m] = Next1(After[m - 1])
    <3> HIDE DEF Next1, First
    <3>1. m \in 0..n /\ m # 0
        OBVIOUS
    <3> QED
        BY <1>3, <3>1
  <2>3. PICK p \in After[m - 1] : q \in DisconnectUmbilical(p.u, p.g, names, busy)
      BY <2>1, <2>2
  <2>4. CASE m = 1
    <3>1. After[m - 1] = First
        BY <1>3, <2>4
    <3>2. p.u = u /\ p.g = had
        BY <2>3, <3>1
    <3> QED
        BY <2>3, <3>2, DisconnectsOnce
  <2>5. CASE m # 1
    <3>1. Good(p)
        BY <1>5, <2>3, <2>5
    <3>2. /\ q.u \in Umbilical /\ Lowered(p.u, q.u)
          /\ q.g \in Settings /\ Within(q.g, p.g)
        BY <2>3, <3>1, DisconnectsOnce
    <3> QED
        BY <3>1, <3>2, LoweredMore, WithinMore
  <2> QED
      BY <2>4, <2>5
<1> HIDE DEF T
<1>6. n \in T
    BY <1>4, <1>5, UpTo
<1> QED
    BY <1>1, <1>6 DEF T

-----------------------------------------------------------------------------
(* The types, and what connections and configurations have to do with each *)
(* other.                                                                  *)

Typed ==
    /\ main \in [Compute -> Umbilical]
    /\ config \in [Compute -> Settings \cup {NoCompute}]
    /\ groups \in [Compute -> Settings]
    /\ phase \in [Subsystem -> {"none", "offline", "connecting", "online", "restarting"}]
    /\ own \in [Subsystem -> {"Closed", "Connecting", "Connected", "Stale"}]
    /\ task \in [Worker -> {"idle", "main", "await", "own"}]
    /\ dangling \subseteq {w \in Worker : task[w] = "await"}
    /\ troubled \subseteq Compute /\ shared \subseteq Compute
    /\ \A s \in Subsystem : phase[s] \in {"none", "offline"} => own[s] = "Closed"

\* Whoever connects, or is to run somewhere, has a compute.
Grounded ==
    /\ \A w \in Worker : task[w] # "idle" => Known(At(w))
    /\ \A s \in Subsystem : phase[s] # "none" => Known(Home[s])
    /\ \A c \in Compute : main[c].st # "None" => Known(c)

\* What a worker waits for is there, unless it was taken away.
Joined ==
    /\ \A c \in Compute : main[c].st \in {"None", "Closed"} => main[c].link = "down"
    /\ \A c \in Compute : main[c].st = "None" => ~main[c].static
    /\ \A c \in Compute : task[c] # "idle" => task[c] = "await" /\ main[c].static
    /\ \A w \in Worker : task[w] = "await" /\ w \notin dangling => main[At(w)].st # "None"
    /\ \A w \in dangling : At(w) \in troubled

Sound == Typed /\ Grounded /\ Joined /\ OnlyConfigured

\* v is u but for its static references, and perhaps its link.
Alike(u, v) == v.st = u.st /\ v.refs = u.refs /\ v.static = u.static /\ v.link = u.link
Cut(u, v) ==
    v.st = u.st /\ v.refs = u.refs /\ v.static = u.static /\ v.link \in {u.link, "down"}

LEMMA Workers ==
    /\ \A c \in Compute : c \in Worker /\ At(c) = c
    /\ \A s \in Subsystem, k \in 1..MaxTasks :
          /\ <<s, k>> \in Worker /\ <<s, k>> \notin Compute
          /\ At(<<s, k>>) = Home[s]
    /\ \A w \in Worker :
          /\ At(w) \in Compute
          /\ w \notin Compute => \E s \in Subsystem, k \in 1..MaxTasks : w = <<s, k>>
    /\ \A s \in Subsystem : Home[s] \in Compute /\ s \in Users(Home[s])
BY ComputesAssumption DEF Worker, At, Users

LEMMA RemainsEmpty == Nothing \in Settings /\ \A f : Within(Nothing, f)
<1>1. Nothing \in [{} -> Setting] /\ {} \in SUBSET Cgroup
    BY DEF Nothing
<1> QED
    BY <1>1 DEF Nothing, Settings, Within

LEMMA RegisteredIs ==
    ASSUME NEW cfg \in Settings, NEW had
    PROVE  Registered(cfg, had) \in Settings /\ Within(Registered(cfg, had), cfg)
<1>1. PICK D \in SUBSET Cgroup : cfg \in [D -> Setting]
    BY DEF Settings
<1>2. DEFINE E == {g \in DOMAIN cfg : g \in DOMAIN had => had[g] = cfg[g]}
<1>3. Registered(cfg, had) \in [E -> Setting] /\ E \in SUBSET Cgroup
    BY <1>1 DEF Registered
<1>4. Registered(cfg, had) \in Settings
    BY <1>3 DEF Settings
<1> QED
    BY <1>1, <1>4 DEF Registered, Within

LEMMA NewUmbilicals ==
    /\ NoUmbilical \in Umbilical /\ NoUmbilical.st = "None" /\ NoUmbilical.refs = 0
    /\ NoUmbilical.link = "down" /\ ~NoUmbilical.static
    /\ \A static \in BOOLEAN :
          LET u == Fresh(static) IN
          /\ u \in Umbilical /\ u.st = "Closed" /\ u.refs = 0 /\ u.link = "down"
          /\ u.static = static
    /\ \A u \in Umbilical :
          LET v == Precondition(u) IN
          /\ v \in Umbilical /\ v.st = "Connecting" /\ v.refs = u.refs + 1
          /\ v.static = u.static /\ v.link = u.link
<1>1. /\ NoUmbilical \in Umbilical /\ NoUmbilical.st = "None" /\ NoUmbilical.refs = 0
      /\ NoUmbilical.link = "down" /\ ~NoUmbilical.static
    BY DEF NoUmbilical, Umbilical
<1>2. ASSUME NEW static \in BOOLEAN
      PROVE  LET u == Fresh(static) IN
             /\ u \in Umbilical /\ u.st = "Closed" /\ u.refs = 0 /\ u.link = "down"
             /\ u.static = static
    BY <1>1, Zenon DEF Fresh, Umbilical
<1>3. ASSUME NEW u \in Umbilical
      PROVE  LET v == Precondition(u) IN
             /\ v \in Umbilical /\ v.st = "Connecting" /\ v.refs = u.refs + 1
             /\ v.static = u.static /\ v.link = u.link
  <2>1. u.refs + 1 \in Int
      BY Links
  <2> QED
      BY <2>1, Zenon DEF Precondition, Umbilical
<1> QED
    BY <1>1, <1>2, <1>3, Zenon

LEMMA AddFacts ==
    ASSUME Sound, NEW c \in Compute, NEW new \in Umbilical, AddUmbilical(c, new)
    PROVE  /\ main' \in [Compute -> Umbilical]
           /\ \A x \in Compute : main[x].st # "None" \/ x # c => Cut(main[x], main'[x])
           /\ \A x \in Compute \ troubled' :
                 main[x].st # "None" \/ x # c => Alike(main[x], main'[x])
           /\ main[c].st = "None" => main'[c] = new
           /\ dangling \subseteq dangling'
           /\ dangling' \subseteq {w \in Worker : task[w] = "await"}
           /\ \A w \in dangling' : At(w) \in troubled'
           /\ troubled \subseteq troubled' /\ troubled' \subseteq Compute
<1>1. CASE main[c].st # "None" /\ main' = [main EXCEPT ![c].statics = @ + 1]
           /\ UNCHANGED <<dangling, troubled>>
  <2>1. main[c] \in Umbilical /\ main[c].statics + 1 \in Int
      BY Links DEF Sound, Typed
  <2>2. [main[c] EXCEPT !.statics = @ + 1] \in Umbilical
        /\ Alike(main[c], [main[c] EXCEPT !.statics = @ + 1])
      BY <2>1 DEF Umbilical, Alike
  <2> QED
      BY <1>1, <2>2 DEF Sound, Typed, Joined, Alike, Cut
<1>2. CASE main[c].st = "None" /\ main' = [main EXCEPT ![c] = new]
           /\ UNCHANGED <<dangling, troubled>>
    BY <1>2 DEF Sound, Typed, Joined, Alike, Cut
<1>3. CASE /\ main[c].st = "None" /\ main' = Moved(c, new)
           /\ dangling' = dangling \cup {w \in Worker : task[w] = "await"}
           /\ troubled' = troubled \cup {x \in Compute : main[x].st # "None"}
  <2>1. \A u \in Umbilical : /\ [u EXCEPT !.link = "down"] \in Umbilical
                             /\ Cut(u, [u EXCEPT !.link = "down"])
                             /\ u.link = "down" => Alike(u, [u EXCEPT !.link = "down"])
      BY DEF Umbilical, Cut, Alike
  <2>2. \A x \in Compute : main'[x] = IF x = c THEN new ELSE [main[x] EXCEPT !.link = "down"]
      BY <1>3 DEF Moved
  <2>3. main' \in [Compute -> Umbilical]
      BY <1>3, <2>1 DEF Moved, Sound, Typed
  <2>4. \A x \in Compute \ troubled' : main[x].st = "None" /\ main[x].link = "down"
      BY <1>3 DEF Sound, Joined
  <2>5. \A w \in dangling' : At(w) \in troubled'
      BY <1>3, Workers DEF Sound, Joined
  <2>6. \A x \in Compute : main[x] \in Umbilical
      BY DEF Sound, Typed
  <2> QED
      BY <1>3, <2>1, <2>2, <2>3, <2>4, <2>5, <2>6 DEF Sound, Typed
<1> QED
    BY <1>1, <1>2, <1>3, Zenon DEF AddUmbilical

LEMMA RemoveFacts ==
    ASSUME Sound, NEW c \in Compute, RemoveUmbilical(c)
    PROVE  /\ main' \in [Compute -> Umbilical]
           /\ \A x \in Compute \ {c} : main'[x] = main[x]
           /\ \/ Alike(main[c], main'[c]) /\ UNCHANGED <<dangling, troubled>>
              \/ /\ main'[c] = NoUmbilical /\ ~main[c].static
                 /\ dangling' = dangling \cup {w \in Worker : task[w] = "await" /\ At(w) = c}
                 /\ c \notin troubled' => \A s \in Users(c) : Unused(s)
           /\ dangling' \subseteq {w \in Worker : task[w] = "await"}
           /\ \A w \in dangling' : At(w) \in troubled'
           /\ troubled \subseteq troubled' /\ troubled' \subseteq Compute
<1> DEFINE left == [main[c] EXCEPT !.statics = @ - 1]
           gone == ~left.static /\ left.statics <= 0
<1>1. main[c] \in Umbilical /\ main \in [Compute -> Umbilical]
    BY DEF Sound, Typed
<1>2. left \in Umbilical /\ Alike(main[c], left)
    BY <1>1, Links DEF Umbilical, Alike
<1>3. CASE main[c].st = "None"
    BY <1>1, <1>3 DEF RemoveUmbilical, Alike, Sound, Typed, Joined
<1>4. CASE main[c].st # "None" /\ ~gone
  <2>1. main' = [main EXCEPT ![c] = left] /\ dangling' = dangling /\ troubled' = troubled
      BY <1>4 DEF RemoveUmbilical
  <2> HIDE DEF left
  <2> QED
      BY <1>1, <1>2, <2>1 DEF Sound, Typed, Joined
<1>5. CASE main[c].st # "None" /\ gone
  <2>1. /\ main' = [main EXCEPT ![c] = NoUmbilical]
        /\ dangling' = dangling \cup {w \in Worker : task[w] = "await" /\ At(w) = c}
        /\ troubled' = IF \E s \in Users(c) : ~Unused(s) THEN troubled \cup {c} ELSE troubled
      BY <1>5 DEF RemoveUmbilical
  <2>2. ~main[c].static
      BY <1>2, <1>5 DEF Alike
  <2> HIDE DEF left, gone
  <2>3. ASSUME NEW w \in Worker, task[w] = "await", At(w) = c PROVE c \in troubled'
    <3>1. w \notin Compute
        BY <2>2, <2>3, Workers DEF Sound, Joined
    <3>2. PICK s \in Subsystem, k \in 1..MaxTasks : w = <<s, k>>
        BY <3>1, Workers
    <3>3. s \in Users(c) /\ ~Unused(s)
        BY <2>3, <3>2, Workers DEF Users, Unused
    <3> QED
        BY <2>1, <3>3
  <2>4. \A w \in dangling' : At(w) \in troubled'
      BY <2>1, <2>3 DEF Sound, Joined
  <2> QED
      BY <1>1, <2>1, <2>2, <2>4, NewUmbilicals DEF Sound, Typed
<1> QED
    BY <1>3, <1>4, <1>5

\* Capcom as it starts.
Blank ==
    /\ main = Start0.main /\ config = Start0.config /\ phase = Start0.phase
    /\ own = Start0.own /\ task = Start0.task
    /\ dangling = {} /\ troubled = {} /\ shared = {}
    /\ groups \in [Compute -> Settings]

LEMMA BlankIs ==
    ASSUME Blank
    PROVE  /\ main = [c \in Compute |-> NoUmbilical] /\ config = [c \in Compute |-> NoCompute]
           /\ phase = [s \in Subsystem |-> "none"] /\ own = [s \in Subsystem |-> "Closed"]
           /\ task = [w \in Worker |-> "idle"]
BY DEF Blank, Start0

LEMMA BlankSound == Blank => Sound
<1> SUFFICES ASSUME Blank PROVE Sound
    OBVIOUS
<1>1. Typed
    BY BlankIs, NewUmbilicals DEF Typed, Blank
<1>2. Grounded /\ Joined
    BY BlankIs, NewUmbilicals, Workers DEF Grounded, Joined, Known, Blank
<1>3. OnlyConfigured
    BY BlankIs, NewUmbilicals DEF OnlyConfigured, IsConnected
<1> QED
    BY <1>1, <1>2, <1>3 DEF Sound

LEMMA DiesBlank ==
    ASSUME Sound, Dies, UNCHANGED groups
    PROVE  Blank' /\ Sound'
<1>1. Blank'
    BY DEF Dies, Blank, Sound, Typed
<1>2. Blank' => Sound'
    BY BlankSound, PTL
<1> QED
    BY <1>1, <1>2

\* OnlyConfigured, in terms of Within.
LEMMA Matches ==
    /\ OnlyConfigured <=> \A c \in Compute : IsConnected(c) => Within(groups[c], config[c])
    /\ OnlyConfigured' <=>
          \A c \in Compute : IsConnected(c)' => Within(groups'[c], config'[c])
BY DEF OnlyConfigured, Within

LEMMA HandleAddComputeSound ==
    ASSUME Sound, NEW c \in Compute, HandleAddCompute(c)
    PROVE  Sound'
<1> DEFINE new == Precondition(Fresh(TRUE))
<1>1. PICK cfg \in Settings : config' = [config EXCEPT ![c] = cfg]
    BY ComputesAssumption DEF HandleAddCompute
<1>2. /\ new \in Umbilical /\ new.st = "Connecting" /\ new.link = "down" /\ new.static
      /\ main[c].st = "None"
    BY NewUmbilicals DEF HandleAddCompute, Sound, Grounded
<1>3. /\ \A x \in Compute \ {c} : config'[x] = config[x]
      /\ config' \in [Compute -> Settings \cup {NoCompute}]
      /\ \A x \in Compute : Known(x) => Known(x)'
      /\ Known(c)'
    BY <1>1, ComputesAssumption DEF Sound, Typed, Known
<1>4. UNCHANGED <<groups, phase, own, shared>>
    BY DEF HandleAddCompute
<1>5. CASE UNCHANGED <<main, task, dangling, troubled>>
  <2>1. OnlyConfigured'
      BY <1>2, <1>3, <1>4, <1>5, Matches DEF Sound, IsConnected
  <2>2. Typed'
      BY <1>3, <1>4, <1>5 DEF Sound, Typed
  <2>3. Grounded'
      BY <1>3, <1>4, <1>5, Workers DEF Sound, Grounded, At
  <2>4. Joined'
      BY <1>4, <1>5 DEF Sound, Joined, At
  <2> QED
      BY <2>1, <2>2, <2>3, <2>4 DEF Sound
<1>6. CASE task' = [task EXCEPT ![c] = "await"] /\ AddUmbilical(c, new)
  <2> HIDE DEF new
  <2>1. /\ main' \in [Compute -> Umbilical]
        /\ \A x \in Compute \ {c} : Cut(main[x], main'[x])
        /\ main'[c] = new
        /\ dangling' \subseteq {w \in Worker : task[w] = "await"} /\ dangling \subseteq dangling'
        /\ \A w \in dangling' : At(w) \in troubled'
        /\ troubled' \subseteq Compute
      BY <1>2, <1>6, AddFacts
  <2>2. /\ task' \in [Worker -> {"idle", "main", "await", "own"}]
        /\ \A w \in Worker \ {c} : task'[w] = task[w]
        /\ task'[c] = "await" /\ c \in Worker /\ At(c) = c
      BY <1>6, Workers DEF Sound, Typed
  <2>3. Typed'
      BY <1>3, <1>4, <2>1, <2>2 DEF Sound, Typed
  <2>4. Grounded'
      BY <1>3, <1>4, <2>1, <2>2, Workers DEF Sound, Grounded, Cut
  <2>5. Joined'
      BY <1>2, <2>1, <2>2, Workers DEF Sound, Joined, Cut
  <2>6. OnlyConfigured'
      BY <1>2, <1>3, <1>4, <2>1, Matches DEF Sound, IsConnected, Cut
  <2> QED
      BY <2>3, <2>4, <2>5, <2>6 DEF Sound
<1> QED
    BY <1>5, <1>6 DEF HandleAddCompute

\* A subsystem is added to a known compute, or is refused.
LEMMA AddSound ==
    ASSUME Sound, NEW s \in Subsystem, Known(Home[s]), AddUmbilical(Home[s], Fresh(FALSE)),
           UNCHANGED <<config, groups, own, task, shared>>,
           phase' = phase \/ (phase' = [phase EXCEPT ![s] = "offline"] /\ phase[s] = "none")
    PROVE  Sound'
<1> DEFINE c == Home[s]
           new == Fresh(FALSE)
<1>1. /\ new \in Umbilical /\ new.st = "Closed" /\ new.link = "down" /\ ~new.static
      /\ c \in Compute
    BY NewUmbilicals, Workers
<1> HIDE DEF new
<1>2. /\ main' \in [Compute -> Umbilical]
      /\ \A x \in Compute : main[x].st # "None" \/ x # c => Cut(main[x], main'[x])
      /\ main[c].st = "None" => main'[c] = new
      /\ dangling' \subseteq {w \in Worker : task[w] = "await"} /\ dangling \subseteq dangling'
      /\ \A w \in dangling' : At(w) \in troubled'
      /\ troubled' \subseteq Compute
    BY <1>1, AddFacts DEF new
<1>3. Typed'
    BY <1>2 DEF Sound, Typed
<1>4. Grounded'
  <2>1. \A x \in Compute : Known(x)' <=> Known(x)
      BY DEF Known
  <2>2. \A x \in Compute : main'[x].st # "None" => Known(x)'
      BY <1>2, <2>1 DEF Sound, Grounded, Cut
  <2>3. \A t \in Subsystem : phase'[t] # "none" => Known(Home[t])'
      BY <2>1, Workers DEF Sound, Typed, Grounded
  <2>4. \A w \in Worker : task'[w] # "idle" => Known(At(w))'
      BY <2>1, Workers DEF Sound, Grounded
  <2> QED
      BY <2>2, <2>3, <2>4 DEF Grounded, At
<1>5. Joined'
    BY <1>1, <1>2, Workers DEF Sound, Joined, Cut
<1>6. OnlyConfigured'
    BY <1>1, <1>2, Matches DEF Sound, IsConnected, Cut
<1> QED
    BY <1>3, <1>4, <1>5, <1>6 DEF Sound

LEMMA HandleRemoveSubsystemSound ==
    ASSUME Sound, NEW s \in Subsystem, HandleRemoveSubsystem(s)
    PROVE  Sound'
<1> DEFINE c == Home[s]
<1>1. /\ phase' = [phase EXCEPT ![s] = "none"] /\ phase[s] = "offline" /\ RemoveUmbilical(c)
      /\ UNCHANGED <<config, groups, own, task, shared>> /\ c \in Compute
    BY Workers DEF HandleRemoveSubsystem
<1>2. /\ main' \in [Compute -> Umbilical]
      /\ \A x \in Compute \ {c} : main'[x] = main[x]
      /\ \/ Alike(main[c], main'[c]) /\ UNCHANGED <<dangling, troubled>>
         \/ /\ main'[c] = NoUmbilical /\ ~main[c].static
            /\ dangling' = dangling \cup {w \in Worker : task[w] = "await" /\ At(w) = c}
            /\ c \notin troubled' => \A t \in Users(c) : Unused(t)
      /\ dangling' \subseteq {w \in Worker : task[w] = "await"}
      /\ \A w \in dangling' : At(w) \in troubled'
      /\ troubled \subseteq troubled' /\ troubled' \subseteq Compute
    BY <1>1, RemoveFacts
<1>3. Typed'
    BY <1>1, <1>2 DEF Sound, Typed
<1>4. Grounded'
    BY <1>1, <1>2, Workers, NewUmbilicals DEF Sound, Grounded, Alike, Known
<1>5. Joined'
    BY <1>1, <1>2, Workers, NewUmbilicals DEF Sound, Joined, Alike
<1>6. OnlyConfigured'
    BY <1>1, <1>2, Matches, NewUmbilicals DEF Sound, IsConnected, Alike
<1> QED
    BY <1>3, <1>4, <1>5, <1>6 DEF Sound

-----------------------------------------------------------------------------
(* Cgroups.                                                                *)

LEMMA SentFacts ==
    ASSUME Sound, NEW c \in Compute, NEW S, Sent(c, S)
    PROVE  /\ main' \in [Compute -> Umbilical] /\ groups' \in [Compute -> Settings]
           /\ \A x \in Compute \ {c} : main'[x] = main[x] /\ groups'[x] = groups[x]
           /\ Cut(main[c], main'[c])
           /\ main[c].link = "up" => main' = main /\ groups'[c] = Without(groups[c], S)
           /\ main[c].link # "up" => groups' = groups /\ main'[c].link = "down"
<1>1. main[c] \in Umbilical /\ groups[c] \in Settings
    BY DEF Sound, Typed
<1>2. CASE main[c].link = "up"
  <2>1. groups' = [groups EXCEPT ![c] = Without(@, S)] /\ main' = main
      BY <1>2 DEF Sent
  <2> QED
      BY <1>1, <1>2, <2>1, WithoutSettings DEF Sound, Typed, Cut
<1>3. CASE main[c].link # "up"
  <2> DEFINE v == [main[c] EXCEPT !.link = "down"]
  <2>1. main' = [main EXCEPT ![c] = v] /\ groups' = groups
      BY <1>3 DEF Sent
  <2>2. v \in Umbilical /\ Cut(main[c], v) /\ v.link = "down"
      BY <1>1 DEF Umbilical, Cut
  <2> HIDE DEF v
  <2> QED
      BY <1>1, <1>3, <2>1, <2>2 DEF Sound, Typed
<1> QED
    BY <1>2, <1>3

\* What leaves the configuration leaves the StageZero too.
LEMMA TrimSound ==
    ASSUME Sound, NEW c \in Compute, Known(c), NEW cfg \in Settings, NEW S,
           config' = [config EXCEPT ![c] = cfg], Sent(c, S),
           main[c].link = "up" /\ Within(groups[c], config[c]) => Within(Without(groups[c], S), cfg),
           UNCHANGED <<phase, own, task, dangling, troubled, shared>>
    PROVE  Sound'
<1>1. /\ main' \in [Compute -> Umbilical] /\ groups' \in [Compute -> Settings]
      /\ \A x \in Compute \ {c} : main'[x] = main[x] /\ groups'[x] = groups[x]
      /\ Cut(main[c], main'[c])
      /\ main[c].link = "up" => main' = main /\ groups'[c] = Without(groups[c], S)
      /\ main[c].link # "up" => groups' = groups /\ main'[c].link = "down"
    BY SentFacts
<1>2. /\ \A x \in Compute \ {c} : config'[x] = config[x]
      /\ config' \in [Compute -> Settings \cup {NoCompute}] /\ config'[c] = cfg
      /\ \A x \in Compute : Known(x) <=> Known(x)'
    BY ComputesAssumption DEF Sound, Typed, Known
<1>3. Typed'
    BY <1>1, <1>2 DEF Sound, Typed
<1>4. Grounded'
    BY <1>1, <1>2, Workers DEF Sound, Grounded, Cut, At
<1>5. Joined'
    BY <1>1, Workers DEF Sound, Joined, Cut, At
<1>6. OnlyConfigured'
    BY <1>1, <1>2, Matches DEF Sound, IsConnected, Cut
<1> QED
    BY <1>3, <1>4, <1>5, <1>6 DEF Sound

LEMMA HandleAddCgroupSound ==
    ASSUME Sound, NEW c \in Compute, HandleAddCgroup(c)
    PROVE  Sound'
<1>1. Known(c) /\ UNCHANGED groups /\ config[c] \in Settings
    BY DEF HandleAddCgroup, Sound, Typed, Known
<1>2. PICK g \in Cgroup \ DOMAIN config[c], v \in Setting :
        \/ ClientConnected(c) /\ Dies
        \/ /\ ~ClientConnected(c)
           /\ config' = [config EXCEPT ![c] = [h \in DOMAIN @ \cup {g} |-> IF h = g THEN v ELSE @[h]]]
           /\ UNCHANGED <<main, phase, own, task, dangling, troubled, shared>>
    BY Zenon DEF HandleAddCgroup
<1>3. CASE ClientConnected(c) /\ Dies
    BY <1>1, <1>3, DiesBlank
<1>4. CASE /\ ~ClientConnected(c)
           /\ config' = [config EXCEPT ![c] = [h \in DOMAIN @ \cup {g} |-> IF h = g THEN v ELSE @[h]]]
           /\ UNCHANGED <<main, phase, own, task, dangling, troubled, shared>>
  <2> DEFINE cfg == [h \in DOMAIN config[c] \cup {g} |-> IF h = g THEN v ELSE config[c][h]]
  <2>1. config' = [config EXCEPT ![c] = cfg]
      BY <1>4
  <2>2. cfg \in Settings
    <3>1. PICK D \in SUBSET Cgroup : config[c] \in [D -> Setting]
        BY <1>1 DEF Settings
    <3>2. cfg \in [D \cup {g} -> Setting] /\ D \cup {g} \in SUBSET Cgroup
        BY <3>1
    <3> QED
        BY <3>2 DEF Settings
  <2> HIDE DEF cfg
  <2>3. /\ \A x \in Compute \ {c} : config'[x] = config[x]
        /\ config' \in [Compute -> Settings \cup {NoCompute}] /\ config'[c] = cfg
        /\ \A x \in Compute : Known(x) => Known(x)'
      BY <2>1, <2>2, ComputesAssumption DEF Sound, Typed, Known
  <2>4. Typed'
      BY <1>1, <1>4, <2>3 DEF Sound, Typed
  <2>5. Grounded'
      BY <1>1, <1>4, <2>3, Workers DEF Sound, Grounded, At
  <2>6. Joined'
      BY <1>4, Workers DEF Sound, Joined, At
  <2>7. OnlyConfigured'
      BY <1>1, <1>4, <2>3, Matches DEF Sound, IsConnected, ClientConnected
  <2> QED
      BY <2>4, <2>5, <2>6, <2>7 DEF Sound
<1> QED
    BY <1>2, <1>3, <1>4

LEMMA HandleRemoveCgroupsSound ==
    ASSUME Sound, NEW c \in Compute, HandleRemoveCgroups(c)
    PROVE  Sound'
<1>1. Known(c) /\ config[c] \in Settings
    BY DEF HandleRemoveCgroups, Sound, Typed, Known
<1>2. PICK g \in DOMAIN config[c] :
        config' = [config EXCEPT ![c] = Without(@, {g})] /\ Sent(c, {g})
    BY DEF HandleRemoveCgroups
<1>3. /\ config' = [config EXCEPT ![c] = Without(config[c], {g})]
      /\ Without(config[c], {g}) \in Settings
    BY <1>1, <1>2, WithoutSettings
<1>4. Within(groups[c], config[c]) => Within(Without(groups[c], {g}), Without(config[c], {g}))
    BY DEF Within, Without
<1>5. UNCHANGED <<phase, own, task, dangling, troubled, shared>>
    BY DEF HandleRemoveCgroups
<1> QED
    BY <1>1, <1>2, <1>3, <1>4, <1>5, TrimSound

LEMMA HandleRemoveAllCgroupsSound ==
    ASSUME Sound, NEW c \in Compute, HandleRemoveAllCgroups(c)
    PROVE  Sound'
<1>1. Known(c) /\ config[c] \in Settings /\ config \in [Compute -> Settings \cup {NoCompute}]
    BY DEF HandleRemoveAllCgroups, Sound, Typed, Known
<1>2. UNCHANGED <<phase, own, task, dangling, troubled, shared>> /\ RemovesAll(c)
    BY DEF HandleRemoveAllCgroups
<1>3. CASE config' = [config EXCEPT ![c] = Nothing] /\ Sent(c, DOMAIN config[c])
  <2>1. Within(groups[c], config[c]) => Within(Without(groups[c], DOMAIN config[c]), Nothing)
      BY DEF Within, Without, Nothing
  <2> QED
      BY <1>1, <1>2, <1>3, <2>1, RemainsEmpty, TrimSound
<1>4. CASE /\ main[c].link = "stale" /\ Sent(c, {})
           /\ \E g \in DOMAIN config[c] : config' \in {config, [config EXCEPT ![c] = Without(@, {g})]}
  <2>1. PICK g \in DOMAIN config[c] : config' \in {config, [config EXCEPT ![c] = Without(@, {g})]}
      BY <1>4
  <2>2. \E cfg \in Settings : config' = [config EXCEPT ![c] = cfg]
      BY <1>1, <2>1, WithoutSettings
  <2>3. PICK cfg \in Settings : config' = [config EXCEPT ![c] = cfg]
      BY <2>2
  <2> QED
      BY <1>1, <1>2, <1>4, <2>3, TrimSound
<1>5. CASE \E D \in SUBSET (DOMAIN config[c] \cap DOMAIN groups[c]) :
              /\ config' = [config EXCEPT ![c] = Without(@, D)]
              /\ \/ Sent(c, D)
                 \/ \E g \in (DOMAIN config[c] \cap DOMAIN groups[c]) \ D : Sent(c, D \cup {g})
  <2>1. PICK D \in SUBSET (DOMAIN config[c] \cap DOMAIN groups[c]) :
              /\ config' = [config EXCEPT ![c] = Without(@, D)]
              /\ \/ Sent(c, D)
                 \/ \E g \in (DOMAIN config[c] \cap DOMAIN groups[c]) \ D : Sent(c, D \cup {g})
      BY <1>5
  <2>2. \E S : D \subseteq S /\ Sent(c, S)
      BY <2>1
  <2>3. PICK S : D \subseteq S /\ Sent(c, S)
      BY <2>2
  <2>4. Within(groups[c], config[c]) => Within(Without(groups[c], S), Without(config[c], D))
      BY <2>3 DEF Within, Without
  <2>5. /\ config' = [config EXCEPT ![c] = Without(config[c], D)]
        /\ Without(config[c], D) \in Settings
      BY <1>1, <2>1, WithoutSettings
  <2> QED
      BY <1>1, <1>2, <2>3, <2>4, <2>5, TrimSound
<1> QED
    BY <1>2, <1>3, <1>4, <1>5 DEF RemovesAll

-----------------------------------------------------------------------------
(* Subsystems connect.                                                     *)

\* What a connection does to one umbilical, and to its StageZero.
LEMMA ConnectingSound ==
    ASSUME Sound, NEW c \in Compute, NEW u \in Umbilical, NEW had \in Settings,
           NEW w \in Worker, task[w] # "idle", At(w) = c, NEW to \in {"idle", "main", "own"},
           main' = [main EXCEPT ![c] = u], groups' = [groups EXCEPT ![c] = had],
           task' = [task EXCEPT ![w] = to], w \in Compute => to = "idle", w \notin dangling,
           u.st # "None", main[c].st # "None",
           u.st = "Closed" => u.link = "down", u.static = main[c].static,
           u.st = "Connected" /\ u.link # "down" =>
               \/ Within(had, config[c])
               \/ had = groups[c] /\ IsConnected(c),
           UNCHANGED <<config, phase, own, dangling, shared>>,
           troubled \subseteq troubled', troubled' \subseteq Compute
    PROVE  Sound'
<1>1. /\ main' \in [Compute -> Umbilical] /\ main'[c] = u
      /\ \A x \in Compute \ {c} : main'[x] = main[x] /\ groups'[x] = groups[x]
      /\ groups' \in [Compute -> Settings] /\ groups'[c] = had
      /\ task' \in [Worker -> {"idle", "main", "await", "own"}]
      /\ \A v \in Worker \ {w} : task'[v] = task[v]
      /\ task'[w] = to
    BY DEF Sound, Typed
<1>2. Typed'
    BY <1>1 DEF Sound, Typed
<1>3. Grounded'
    BY <1>1 DEF Sound, Grounded, Known, At
<1>4. Joined'
    BY <1>1, Workers DEF Sound, Joined, At
<1>5. OnlyConfigured'
    BY <1>1, Matches DEF Sound, IsConnected
<1> QED
    BY <1>2, <1>3, <1>4, <1>5 DEF Sound

\* What is waited for is known, and there.
LEMMA Awaited ==
    ASSUME Sound, NEW w \in Worker, task[w] = "await", w \notin dangling
    PROVE  /\ At(w) \in Compute /\ Known(At(w))
           /\ main[At(w)] \in Umbilical /\ main[At(w)].st # "None"
           /\ config[At(w)] \in Settings /\ groups[At(w)] \in Settings
           /\ Goes(w) \in {"idle", "own"} /\ Again(w) \in {"idle", "main"}
           /\ w \in Compute => Goes(w) = "idle" /\ Again(w) = "idle"
BY Workers DEF Sound, Typed, Grounded, Joined, Known, Goes, Again

\* Its connection is made, or given up, or cut.
LEMMA Relinked ==
    ASSUME NEW u \in Umbilical
    PROVE  /\ LET v == [u EXCEPT !.st = "Connected", !.link = "up"] IN
              /\ v \in Umbilical /\ v.st = "Connected" /\ v.link = "up"
              /\ v.static = u.static /\ v.statics = u.statics /\ v.refs = u.refs
           /\ LET v == [u EXCEPT !.st = "Closed", !.link = "down"] IN
              /\ v \in Umbilical /\ v.st = "Closed" /\ v.link = "down"
              /\ v.static = u.static /\ v.statics = u.statics /\ v.refs = u.refs
           /\ LET v == [u EXCEPT !.link = "down"] IN
              /\ v \in Umbilical /\ v.st = u.st /\ v.link = "down"
              /\ v.static = u.static /\ v.statics = u.statics /\ v.refs = u.refs
BY DEF Umbilical

LEMMA UmbilicalConnectedSound ==
    ASSUME Sound, NEW w \in Worker, UmbilicalConnected(w)
    PROVE  Sound'
<1> DEFINE c == At(w)
           u == [main[c] EXCEPT !.st = "Connected", !.link = "up"]
<1>1. /\ task[w] = "await" /\ w \notin dangling /\ main' = [main EXCEPT ![c] = u]
      /\ groups' = [groups EXCEPT ![c] = Registered(config[c], groups[c])]
      /\ task' = [task EXCEPT ![w] = Goes(w)]
      /\ UNCHANGED <<config, phase, own, dangling, shared>> /\ troubled' = troubled
    BY DEF UmbilicalConnected
<1>2. /\ u \in Umbilical /\ u.st # "None" /\ u.static = main[c].static
      /\ u.st = "Closed" => u.link = "down"
    BY <1>1, Awaited, Relinked
<1>3. /\ Registered(config[c], groups[c]) \in Settings
      /\ Within(Registered(config[c], groups[c]), config[c])
    BY <1>1, Awaited, RegisteredIs
<1>4. troubled \subseteq troubled' /\ troubled' \subseteq Compute
    BY <1>1 DEF Sound, Typed
<1>5. /\ c \in Compute /\ main[c].st # "None"
      /\ config[c] \in Settings /\ groups[c] \in Settings
      /\ Goes(w) \in {"idle", "own"} /\ Again(w) \in {"idle", "main"}
      /\ w \in Compute => Goes(w) = "idle" /\ Again(w) = "idle"
    BY <1>1, Awaited
<1> DEFINE had == Registered(config[c], groups[c])
<1>6. groups' = [groups EXCEPT ![c] = had] /\ had \in Settings /\ Within(had, config[c])
    BY <1>1, <1>3
<1> HIDE DEF u, c, had
<1> QED
    BY <1>1, <1>2, <1>4, <1>5, <1>6, ConnectingSound, ZenonT(40) DEF c

LEMMA UmbilicalRefusedSound ==
    ASSUME Sound, NEW w \in Worker, UmbilicalRefused(w)
    PROVE  Sound'
<1> DEFINE c == At(w)
           u == [main[c] EXCEPT !.st = "Connected", !.link = "up"]
           v == Disconnected(u, FALSE)
<1>1. PICK D \in SUBSET (DOMAIN config[c] \ DOMAIN groups[c]) :
        groups' = [groups EXCEPT ![c] = Without(Registered(config[c], @), D)]
    BY DEF UmbilicalRefused
<1>2. /\ task[w] = "await" /\ w \notin dangling /\ main' = [main EXCEPT ![c] = v]
      /\ task' = [task EXCEPT ![w] = Again(w)]
      /\ UNCHANGED <<config, phase, own, dangling, shared>> /\ troubled' = troubled \cup {c}
    BY DEF UmbilicalRefused
<1>3. /\ u \in Umbilical /\ u.st = "Connected" /\ u.static = main[c].static
    BY <1>2, Awaited, Relinked
<1> HIDE DEF u
<1>4. v \in Umbilical /\ Lowered(u, v)
    BY <1>3, DisconnectedLowers
<1> HIDE DEF v
<1>5. v.st # "None" /\ v.static = main[c].static /\ (v.st = "Closed" => v.link = "down")
    BY <1>3, <1>4 DEF Lowered
<1> DEFINE had == Without(Registered(config[c], groups[c]), D)
<1>6. had \in Settings /\ Within(had, config[c])
    BY <1>2, Awaited, RegisteredIs, WithoutSettings, WithinMore
<1>7. groups' = [groups EXCEPT ![c] = had]
    BY <1>1
<1> HIDE DEF had
<1>8. troubled \subseteq troubled' /\ troubled' \subseteq Compute
    BY <1>2, Awaited DEF Sound, Typed
<1>9. /\ c \in Compute /\ main[c].st # "None"
      /\ config[c] \in Settings /\ groups[c] \in Settings
      /\ Goes(w) \in {"idle", "own"} /\ Again(w) \in {"idle", "main"}
      /\ w \in Compute => Goes(w) = "idle" /\ Again(w) = "idle"
    BY <1>2, Awaited
<1> HIDE DEF c
<1> QED
    BY <1>2, <1>4, <1>5, <1>6, <1>7, <1>8, <1>9, ConnectingSound DEF c

LEMMA UmbilicalFailsSound ==
    ASSUME Sound, NEW w \in Worker, UmbilicalFails(w)
    PROVE  Sound'
<1> DEFINE c == At(w)
           u == [main[c] EXCEPT !.st = "Closed", !.link = "down"]
<1>1. /\ task[w] = "await" /\ w \notin dangling /\ main' = [main EXCEPT ![c] = u]
      /\ task' = [task EXCEPT ![w] = Again(w)]
      /\ UNCHANGED <<config, phase, own, dangling, shared>> /\ groups' = groups
    BY DEF UmbilicalFails
<1>2. /\ u \in Umbilical /\ u.st # "None" /\ u.static = main[c].static
      /\ (u.st = "Closed" => u.link = "down") /\ u.st # "Connected"
    BY <1>1, Awaited, Relinked
<1>3. troubled \subseteq troubled' /\ troubled' \subseteq Compute
    BY <1>1, Awaited DEF UmbilicalFails, Sound, Typed
<1> DEFINE had == groups[c]
<1>4. groups' = [groups EXCEPT ![c] = had]
    BY <1>1 DEF Sound, Typed
<1>5. /\ c \in Compute /\ main[c].st # "None"
      /\ config[c] \in Settings /\ groups[c] \in Settings
      /\ Goes(w) \in {"idle", "own"} /\ Again(w) \in {"idle", "main"}
      /\ w \in Compute => Goes(w) = "idle" /\ Again(w) = "idle"
    BY <1>1, Awaited
<1>6. had \in Settings
    BY <1>5
<1> HIDE DEF u, c, had
<1> QED
    BY <1>1, <1>2, <1>3, <1>4, <1>5, <1>6, ConnectingSound DEF c

LEMMA UmbilicalGoneSound ==
    ASSUME Sound, NEW w \in Worker, UmbilicalGone(w)
    PROVE  Sound'
<1>1. CASE Dies
    BY <1>1, DiesBlank DEF UmbilicalGone
<1>2. CASE /\ task' = [task EXCEPT ![w] = Again(w)]
           /\ dangling' = dangling \ {w}
           /\ UNCHANGED <<main, config, phase, own, troubled, shared>>
  <2>1. UNCHANGED groups /\ task[w] = "await"
      BY DEF UmbilicalGone
  <2>2. /\ task' \in [Worker -> {"idle", "main", "await", "own"}]
        /\ \A v \in Worker \ {w} : task'[v] = task[v]
        /\ task'[w] \in {"idle", "main"} /\ (w \in Compute => task'[w] = "idle")
      BY <1>2 DEF Sound, Typed, Again
  <2>3. Typed'
      BY <1>2, <2>1, <2>2 DEF Sound, Typed
  <2>4. Grounded'
      BY <1>2, <2>1, <2>2 DEF Sound, Grounded, Known, At
  <2>5. Joined'
      BY <1>2, <2>1, <2>2 DEF Sound, Joined, At
  <2>6. OnlyConfigured'
      BY <1>2, <2>1 DEF Sound, OnlyConfigured, IsConnected
  <2> QED
      BY <2>3, <2>4, <2>5, <2>6 DEF Sound
<1> QED
    BY <1>1, <1>2 DEF UmbilicalGone

\* A coroutine of a subsystem goes on, and no umbilical changes.
LEMMA TaskSound ==
    ASSUME Sound, NEW s \in Subsystem, NEW k \in 1..MaxTasks, Known(Home[s]),
           NEW to \in {"idle", "main", "own"}, task[<<s, k>>] # "await",
           task' = [task EXCEPT ![<<s, k>>] = to],
           own' \in [Subsystem -> {"Closed", "Connecting", "Connected", "Stale"}],
           phase' \in [Subsystem -> {"none", "offline", "connecting", "online", "restarting"}],
           \A t \in Subsystem : phase'[t] \in {"none", "offline"} => own'[t] = "Closed",
           \A t \in Subsystem : phase'[t] # "none" => Known(Home[t]),
           UNCHANGED <<main, config, groups, dangling>>,
           troubled \subseteq troubled', troubled' \subseteq Compute, shared' \subseteq Compute
    PROVE  Sound'
<1> DEFINE w == <<s, k>>
<1>1. w \in Worker /\ w \notin Compute /\ At(w) = Home[s] /\ w \notin dangling
    BY Workers DEF Sound, Typed
<1>2. /\ task' \in [Worker -> {"idle", "main", "await", "own"}]
      /\ \A v \in Worker \ {w} : task'[v] = task[v]
      /\ task'[w] = to
    BY <1>1 DEF Sound, Typed
<1> HIDE DEF w
<1>3. Typed'
    BY <1>1, <1>2 DEF Sound, Typed
<1>4. Grounded'
    BY <1>1, <1>2 DEF Sound, Grounded, Known, At
<1>5. Joined'
    BY <1>1, <1>2 DEF Sound, Joined, At
<1>6. OnlyConfigured'
    BY DEF Sound, OnlyConfigured, IsConnected
<1> QED
    BY <1>3, <1>4, <1>5, <1>6 DEF Sound

LEMMA StartSound ==
    ASSUME Sound, NEW s \in Subsystem, NEW k \in 1..MaxTasks, Start(s, k)
    PROVE  Sound'
<1>1. /\ phase[s] # "none" /\ task[<<s, k>>] = "idle"
      /\ phase' = [phase EXCEPT ![s] = "connecting"] /\ own' = [own EXCEPT ![s] = "Connecting"]
      /\ task' = [task EXCEPT ![<<s, k>>] = "main"]
      /\ UNCHANGED <<main, config, groups, dangling>>
    BY DEF Start
<1>2. Known(Home[s]) /\ Home[s] \in Compute
    BY <1>1, Workers DEF Sound, Grounded
<1>3. troubled \subseteq troubled' /\ troubled' \subseteq Compute /\ shared' \subseteq Compute
    BY <1>2 DEF Start, Sound, Typed
<1>4. /\ phase' \in [Subsystem -> {"none", "offline", "connecting", "online", "restarting"}]
      /\ own' \in [Subsystem -> {"Closed", "Connecting", "Connected", "Stale"}]
      /\ \A t \in Subsystem : phase'[t] \in {"none", "offline"} => own'[t] = "Closed"
      /\ \A t \in Subsystem : phase'[t] # "none" => Known(Home[t])
    BY <1>1, <1>2 DEF Sound, Typed, Grounded
<1> QED
    BY <1>1, <1>2, <1>3, <1>4, TaskSound

LEMMA OwnConnectsSound ==
    ASSUME Sound, NEW s \in Subsystem, NEW k \in 1..MaxTasks, OwnConnects(s, k)
    PROVE  Sound'
<1>1. task[<<s, k>>] = "own" /\ UNCHANGED <<main, config, groups, phase, dangling, shared>>
    BY DEF OwnConnects
<1>2. Known(Home[s]) /\ Home[s] \in Compute
    BY <1>1, Workers DEF Sound, Grounded
<1>3. \E to \in {"idle", "main"} : task' = [task EXCEPT ![<<s, k>>] = to]
    BY DEF OwnConnects
<1>4. own' = own \/ (own[s] = "Connecting" /\ own' = [own EXCEPT ![s] = "Connected"])
    BY DEF OwnConnects
<1>5. /\ own' \in [Subsystem -> {"Closed", "Connecting", "Connected", "Stale"}]
      /\ \A t \in Subsystem : phase'[t] \in {"none", "offline"} => own'[t] = "Closed"
    BY <1>1, <1>4 DEF Sound, Typed
<1>6. troubled \subseteq troubled' /\ troubled' \subseteq Compute
    BY <1>2 DEF OwnConnects, Sound, Typed
<1>7. \A t \in Subsystem : phase'[t] # "none" => Known(Home[t])
    BY <1>1 DEF Sound, Grounded
<1>8. shared' \subseteq Compute /\ phase' = phase
      /\ phase \in [Subsystem -> {"none", "offline", "connecting", "online", "restarting"}]
    BY <1>1 DEF Sound, Typed
<1> QED
    BY <1>1, <1>2, <1>3, <1>5, <1>6, <1>7, <1>8, TaskSound

LEMMA ConnectUmbilicalSound ==
    ASSUME Sound, NEW s \in Subsystem, NEW k \in 1..MaxTasks, ConnectUmbilical(s, k)
    PROVE  Sound'
<1> DEFINE c == Home[s]
           w == <<s, k>>
<1>1. /\ task[w] = "main"
      /\ UNCHANGED <<config, groups, phase, own, dangling, troubled, shared>>
    BY DEF ConnectUmbilical
<1>2. /\ w \in Worker /\ w \notin Compute /\ At(w) = c /\ Known(c) /\ c \in Compute
      /\ w \notin dangling /\ main[c] \in Umbilical /\ groups[c] \in Settings
    BY <1>1, Workers DEF Sound, Grounded, Typed
<1>3. troubled \subseteq troubled' /\ troubled' \subseteq Compute
    BY <1>1 DEF Sound, Typed
<1>4. groups' = [groups EXCEPT ![c] = groups[c]]
    BY <1>1 DEF Sound, Typed
<1>5. CASE task' = [task EXCEPT ![w] = "idle"] /\ UNCHANGED main
  <2>1. /\ phase' \in [Subsystem -> {"none", "offline", "connecting", "online", "restarting"}]
        /\ own' \in [Subsystem -> {"Closed", "Connecting", "Connected", "Stale"}]
        /\ \A t \in Subsystem : phase'[t] \in {"none", "offline"} => own'[t] = "Closed"
        /\ \A t \in Subsystem : phase'[t] # "none" => Known(Home[t])
        /\ shared' \subseteq Compute
      BY <1>1 DEF Sound, Typed, Grounded
  <2> QED
      BY <1>1, <1>2, <1>3, <1>5, <2>1, TaskSound
<1>6. CASE /\ main[c].st \in {"Connecting", "Connected"}
           /\ main' = [main EXCEPT ![c] = Precondition(@)]
           /\ task' = [task EXCEPT ![w] = "own"]
  <2> DEFINE u == Precondition(main[c])
  <2>1. /\ u \in Umbilical /\ u.st = "Connecting" /\ u.static = main[c].static
      BY <1>2, NewUmbilicals
  <2>2. main' = [main EXCEPT ![c] = u]
      BY <1>6
  <2> HIDE DEF u, w
  <2> QED
      BY <1>1, <1>2, <1>3, <1>4, <1>6, <2>1, <2>2, ConnectingSound, ZenonT(40)
<1>7. CASE /\ main[c].st = "Closed"
           /\ main' = [main EXCEPT ![c] = [Precondition(@) EXCEPT !.link = "down"]]
           /\ task' = [task EXCEPT ![w] = "await"]
  <2> DEFINE v == Precondition(main[c])
             u == [v EXCEPT !.link = "down"]
  <2>1. /\ u \in Umbilical /\ u.st = "Connecting" /\ u.static = main[c].static
        /\ u.link = "down"
    <3>1. v \in Umbilical /\ v.st = "Connecting" /\ v.static = main[c].static
        BY <1>2, NewUmbilicals
    <3> HIDE DEF v
    <3> QED
        BY <3>1, Relinked
  <2>2. /\ main' \in [Compute -> Umbilical] /\ main'[c] = u
        /\ \A x \in Compute \ {c} : main'[x] = main[x]
        /\ task' \in [Worker -> {"idle", "main", "await", "own"}]
        /\ \A x \in Worker \ {w} : task'[x] = task[x]
        /\ task'[w] = "await"
      BY <1>2, <1>7, <2>1 DEF Sound, Typed
  <2> HIDE DEF u, v, w
  <2>3. Typed'
      BY <1>1, <2>2 DEF Sound, Typed
  <2>4. Grounded'
      BY <1>1, <1>2, <2>1, <2>2 DEF Sound, Grounded, Known, At
  <2>5. Joined'
    <3>1. dangling' = dangling /\ troubled' = troubled
        BY <1>1
    <3>2. \A x \in Compute : task'[x] = task[x] /\ main'[x].static = main[x].static
        BY <1>2, <2>1, <2>2, Workers
    <3>3. \A x \in Compute :
            /\ main'[x].st \in {"None", "Closed"} => main'[x].link = "down"
            /\ main'[x].st = "None" => ~main'[x].static
            /\ task'[x] # "idle" => task'[x] = "await" /\ main'[x].static
        BY <2>1, <2>2, <3>2 DEF Sound, Joined
    <3>4. \A x \in Worker : task'[x] = "await" /\ x \notin dangling' => main'[At(x)].st # "None"
        BY <1>2, <2>1, <2>2, <3>1, Workers DEF Sound, Joined
    <3> QED
        BY <3>1, <3>3, <3>4 DEF Sound, Joined, At
  <2>6. OnlyConfigured'
      BY <1>1, <2>1, <2>2, Matches DEF Sound, IsConnected
  <2> QED
      BY <2>3, <2>4, <2>5, <2>6 DEF Sound
<1> QED
    BY <1>5, <1>6, <1>7 DEF ConnectUmbilical

-----------------------------------------------------------------------------
(* Subsystems stop and lose their connections.                             *)

LEMMA DisconnectAllFacts ==
    ASSUME Sound, NEW s \in Subsystem, DisconnectAll(s)
    PROVE  LET c == Home[s] IN
           /\ own' = [own EXCEPT ![s] = "Closed"]
           /\ main' \in [Compute -> Umbilical] /\ groups' \in [Compute -> Settings]
           /\ \A x \in Compute \ {c} : main'[x] = main[x] /\ groups'[x] = groups[x]
           /\ \/ main[c].st = "None" /\ main' = main /\ groups' = groups
              \/ main[c].st # "None" /\ Lowered(main[c], main'[c])
           /\ Within(groups'[c], groups[c])
<1> DEFINE c == Home[s]
<1>1. /\ c \in Compute /\ main[c] \in Umbilical /\ groups[c] \in Settings
      /\ Procs[s] \in Nat \ {0}
    BY Workers, ComputesAssumption DEF Sound, Typed
<1>2. own' = [own EXCEPT ![s] = "Closed"]
    BY DEF DisconnectAll
<1>3. Within(groups[c], groups[c])
    BY DEF Within
<1>4. CASE main[c].st = "None"
    BY <1>1, <1>2, <1>3, <1>4 DEF DisconnectAll, Sound, Typed
<1>5. CASE main[c].st # "None"
  <2>1. PICK r \in Disconnections(main[c], groups[c], DOMAIN config[c], Busy(c, s), Procs[s]) :
            main' = [main EXCEPT ![c] = r.u] /\ groups' = [groups EXCEPT ![c] = r.g]
      BY <1>5 DEF DisconnectAll
  <2>2. /\ r.u \in Umbilical /\ Lowered(main[c], r.u)
        /\ r.g \in Settings /\ Within(r.g, groups[c])
      BY <1>1, DisconnectsAll
  <2> QED
      BY <1>1, <1>2, <1>5, <2>1, <2>2 DEF Sound, Typed
<1> QED
    BY <1>4, <1>5

\* An umbilical that is lowered keeps what relies on it.
LEMMA DisconnectSound ==
    ASSUME Sound, NEW s \in Subsystem, DisconnectAll(s), phase[s] # "none",
           NEW to \in {"offline", "restarting"}, phase' = [phase EXCEPT ![s] = to],
           UNCHANGED <<config, task, dangling, troubled, shared>>
    PROVE  Sound'
<1> DEFINE c == Home[s]
<1>1. /\ own' = [own EXCEPT ![s] = "Closed"]
      /\ main' \in [Compute -> Umbilical] /\ groups' \in [Compute -> Settings]
      /\ \A x \in Compute \ {c} : main'[x] = main[x] /\ groups'[x] = groups[x]
      /\ \/ main[c].st = "None" /\ main' = main /\ groups' = groups
         \/ main[c].st # "None" /\ Lowered(main[c], main'[c])
      /\ Within(groups'[c], groups[c]) /\ c \in Compute
    BY DisconnectAllFacts, Workers
<1>2. Typed'
    BY <1>1 DEF Sound, Typed
<1>3. Grounded'
    BY <1>1, Workers DEF Sound, Typed, Grounded, Known, At
<1>4. /\ main'[c].static = main[c].static
      /\ main'[c].st = "None" <=> main[c].st = "None"
      /\ main'[c].st \in {"None", "Closed"} => main'[c].link = "down"
      /\ main'[c].st \in {main[c].st, "Closed"} /\ main'[c].link \in {main[c].link, "down"}
    BY <1>1 DEF Lowered, Sound, Joined
<1>5. Joined'
    BY <1>1, <1>4, Workers DEF Sound, Joined, At
<1>6. OnlyConfigured'
  <2>1. \A x \in Compute : IsConnected(x)' => IsConnected(x) /\ Within(groups'[x], groups[x])
      BY <1>1, <1>4 DEF IsConnected, Within
  <2> QED
      BY <2>1, Matches, WithinMore DEF Sound
<1> QED
    BY <1>2, <1>3, <1>5, <1>6 DEF Sound

LEMMA StopSound ==
    ASSUME Sound, NEW s \in Subsystem, Stop(s)
    PROVE  Sound'
BY DisconnectSound DEF Stop

LEMMA LosesSound ==
    ASSUME Sound, NEW s \in Subsystem, Loses(s)
    PROVE  Sound'
<1>1. CASE phase[s] = "online" /\ phase' = [phase EXCEPT ![s] = "restarting"] /\ DisconnectAll(s)
    BY <1>1, DisconnectSound DEF Loses
<1>2. CASE own' = [own EXCEPT ![s] = "Closed"] /\ UNCHANGED <<main, groups, phase>>
  <2>1. UNCHANGED <<config, task, dangling, troubled, shared>>
      BY DEF Loses
  <2>2. Typed'
      BY <1>2, <2>1 DEF Sound, Typed
  <2>3. Grounded' /\ Joined' /\ OnlyConfigured'
      BY <1>2, <2>1 DEF Sound, Grounded, Joined, OnlyConfigured, Known, At, IsConnected
  <2> QED
      BY <2>2, <2>3 DEF Sound
<1> QED
    BY <1>1, <1>2 DEF Loses

LEMMA GoesOnlineSound ==
    ASSUME Sound, NEW s \in Subsystem, GoesOnline(s)
    PROVE  Sound'
<1>1. /\ phase[s] = "connecting" /\ phase' = [phase EXCEPT ![s] = "online"]
      /\ UNCHANGED <<main, config, groups, own, task, dangling, troubled, shared>>
    BY DEF GoesOnline
<1>2. Typed'
    BY <1>1 DEF Sound, Typed
<1>3. Grounded'
    BY <1>1 DEF Sound, Typed, Grounded, Known, At
<1>4. Joined' /\ OnlyConfigured'
    BY <1>1 DEF Sound, Joined, OnlyConfigured, At, IsConnected
<1> QED
    BY <1>2, <1>3, <1>4 DEF Sound

LEMMA StageZeroRestartsSound ==
    ASSUME Sound, NEW c \in Compute, StageZeroRestarts(c)
    PROVE  Sound'
<1> DEFINE u == [main[c] EXCEPT !.link = IF @ = "up" THEN "stale" ELSE @]
<1>1. /\ groups' = [groups EXCEPT ![c] = Nothing] /\ main' = [main EXCEPT ![c] = u]
      /\ own' = [s \in Subsystem |-> IF Home[s] = c /\ own[s] = "Connected"
                                     THEN "Stale" ELSE own[s]]
      /\ troubled' = troubled \cup {c}
      /\ UNCHANGED <<config, phase, task, dangling, shared>>
    BY DEF StageZeroRestarts
<1>2. /\ u \in Umbilical /\ u.st = main[c].st /\ u.static = main[c].static
      /\ main[c].link = "down" => u.link = "down"
  <2>1. main[c] \in Umbilical
      BY DEF Sound, Typed
  <2>2. CASE main[c].link = "up"
      BY <2>1, <2>2 DEF Umbilical
  <2>3. CASE main[c].link # "up"
      BY <2>1, <2>3 DEF Umbilical
  <2> QED
      BY <2>2, <2>3
<1> HIDE DEF u
<1>3. /\ main' \in [Compute -> Umbilical] /\ main'[c] = u
      /\ \A x \in Compute \ {c} : main'[x] = main[x] /\ groups'[x] = groups[x]
      /\ groups' \in [Compute -> Settings] /\ groups'[c] = Nothing
    BY <1>1, <1>2, RemainsEmpty DEF Sound, Typed
<1>4. Typed'
    BY <1>1, <1>3 DEF Sound, Typed
<1>5. Grounded'
    BY <1>1, <1>2, <1>3 DEF Sound, Grounded, Known, At
<1>6. Joined'
    BY <1>1, <1>2, <1>3, Workers DEF Sound, Joined, At
<1>7. OnlyConfigured'
    BY <1>1, <1>2, <1>3, RemainsEmpty, Matches DEF Sound, IsConnected
<1> QED
    BY <1>4, <1>5, <1>6, <1>7 DEF Sound

LEMMA InitBlank == Init => Blank
<1> SUFFICES ASSUME Init PROVE Blank
    OBVIOUS
<1>1. groups \in [Compute -> Settings]
    BY RemainsEmpty DEF Init
<1> QED
    BY <1>1 DEF Init, Blank

\* One step of Next, each action by its lemma.
LEMMA NextSound == Sound /\ [Next]_vars => Sound'
<1> SUFFICES ASSUME Sound, [Next]_vars PROVE Sound'
    OBVIOUS
<1>1. ASSUME NEW c \in Compute,
             \/ HandleAddCompute(c) \/ HandleAddCgroup(c) \/ HandleRemoveCgroups(c)
             \/ HandleRemoveAllCgroups(c) \/ StageZeroRestarts(c)
      PROVE  Sound'
    BY <1>1, HandleAddComputeSound, HandleAddCgroupSound, HandleRemoveCgroupsSound,
       HandleRemoveAllCgroupsSound, StageZeroRestartsSound
<1>2. ASSUME NEW s \in Subsystem, HandleAddSubsystem(s) \/ HandleAddSubsystemFails(s)
      PROVE  Sound'
    BY <1>2, AddSound DEF HandleAddSubsystem, HandleAddSubsystemFails
<1>3. ASSUME NEW s \in Subsystem,
             HandleRemoveSubsystem(s) \/ GoesOnline(s) \/ Stop(s) \/ Loses(s)
      PROVE  Sound'
    BY <1>3, HandleRemoveSubsystemSound, GoesOnlineSound, StopSound, LosesSound
<1>4. ASSUME NEW s \in Subsystem, NEW k \in 1..MaxTasks, Start(s, k) \/ Works(s, k)
      PROVE  Sound'
    BY <1>4, StartSound, ConnectUmbilicalSound, OwnConnectsSound DEF Works
<1>5. ASSUME NEW w \in Worker, Awaits(w)
      PROVE  Sound'
    BY <1>5, UmbilicalConnectedSound, UmbilicalRefusedSound, UmbilicalFailsSound,
       UmbilicalGoneSound DEF Awaits
<1>6. CASE CapcomRestarts
    BY <1>6, DiesBlank DEF CapcomRestarts
<1>7. CASE UNCHANGED vars
    BY <1>7 DEF vars, Sound, Typed, Grounded, Joined, OnlyConfigured, Known, At, IsConnected
<1> QED
    BY <1>1, <1>2, <1>3, <1>4, <1>5, <1>6, <1>7 DEF Next

\* Types, and what relies on what, hold throughout.
THEOREM ComputesInvariance == Spec => []Sound
<1>1. Init => Sound
    BY InitBlank, BlankSound
<1> QED
    BY <1>1, NextSound, PTL DEF Spec

\* The types of the variables: coroutines that hold a pointer to an umbilical
\* that has gone are those that wait for one, and a subsystem that is not in
\* use has no connection of its own.
THEOREM TypesOfComputes == Spec => []TypeOK
<1>1. ASSUME Sound PROVE TypeOK
  <2>1. \A f \in Settings : DOMAIN f \subseteq Cgroup
      BY DEF Settings
  <2> QED
      BY <1>1, <2>1, Zenon DEF Sound, Typed, TypeOK, Umbilical, Known
<1> QED
    BY <1>1, ComputesInvariance, PTL

\* Whatever Capcom and its StageZeros have been through, a StageZero that
\* Capcom is connected to has no cgroup that Capcom does not know, and none
\* with other settings.
THEOREM KeepsToItsConfiguration == Spec => []OnlyConfigured
<1>1. Sound => OnlyConfigured
    BY DEF Sound
<1> QED
    BY <1>1, ComputesInvariance, PTL

-----------------------------------------------------------------------------
(* References.  An umbilical that nothing has happened to counts no more   *)
(* references than there are subsystems that hold it; it is open only      *)
(* while one does.                                                         *)

Tasks(s) == {<<s, k>> : k \in 1..MaxTasks}

\* The subsystems that have connected to c, or are waiting to.
Holders(c) ==
    {s \in Users(c) : /\ phase[s] \in {"connecting", "online"}
                      /\ \A w \in Tasks(s) : task[w] # "main"}

\* It connects in one coroutine at a time, and is online when that has ended.
Orderly(s) ==
    /\ phase[s] # "restarting" /\ own[s] # "Stale"
    /\ \A v, w \in Tasks(s) : task[v] # "idle" /\ task[w] # "idle" => v = w
    /\ phase[s] = "connecting" /\ (\E w \in Tasks(s) : task[w] # "idle") => own[s] = "Connecting"
    /\ phase[s] = "online" => own[s] = "Connected" /\ \A w \in Tasks(s) : task[w] = "idle"

Counted(c) ==
    /\ IsFiniteSet(Holders(c)) /\ main[c].refs <= Cardinality(Holders(c))
    /\ main[c].st \in {"None", "Closed"} => main[c].refs <= 0
    /\ main[c].st \in {"Connecting", "Connected"} => Holders(c) # {}

\* It has got past the main umbilical.
Past(s) ==
    /\ phase[s] \in {"connecting", "online"}
    /\ own[s] = "Connected" \/ \E w \in Tasks(s) : task[w] = "own"

Lone(c) ==
    /\ \A s, t \in Users(c) : ~Unused(s) /\ ~Unused(t) => s = t
    /\ \A s \in Users(c) : Past(s) => IsConnected(c)

Dynamic(c) ==
    /\ \A s \in Users(c) : Orderly(s)
    /\ Counted(c)
    /\ c \notin shared => Lone(c)

Sane ==
    \A c \in Compute \ troubled :
        /\ main[c].link # "stale"
        /\ ~main[c].static => Dynamic(c)

LEMMA TaskFacts ==
    /\ \A s \in Subsystem, k \in 1..MaxTasks : <<s, k>> \in Tasks(s)
    /\ \A s \in Subsystem : \A w \in Tasks(s) :
          /\ w \in Worker /\ w \notin Compute /\ At(w) = Home[s]
          /\ \A t \in Subsystem : w \in Tasks(t) => s = t
    /\ \A w \in Worker \ Compute : \E s \in Subsystem : w \in Tasks(s)
    /\ \A s \in Subsystem : Unused(s) <=>
          phase[s] \in {"none", "offline"} /\ \A w \in Tasks(s) : task[w] = "idle"
    /\ \A c : \A s \in Users(c) : s \in Subsystem /\ Home[s] = c
<1>1. \A s \in Subsystem, k \in 1..MaxTasks : <<s, k>> \in Tasks(s)
    BY DEF Tasks
<1>2. \A s \in Subsystem : \A w \in Tasks(s) :
          /\ w \in Worker /\ w \notin Compute /\ At(w) = Home[s]
          /\ \A t \in Subsystem : w \in Tasks(t) => s = t
    BY Workers DEF Tasks
<1>3. \A w \in Worker \ Compute : \E s \in Subsystem : w \in Tasks(s)
    BY <1>1, Workers
<1>4. \A s \in Subsystem : Unused(s) <=>
          phase[s] \in {"none", "offline"} /\ \A w \in Tasks(s) : task[w] = "idle"
    BY DEF Unused, Tasks
<1>5. \A c : \A s \in Users(c) : s \in Subsystem /\ Home[s] = c
    BY DEF Users
<1> QED
    BY <1>1, <1>2, <1>3, <1>4, <1>5

\* The connection of subsystem t is as it was.
Same(t) ==
    /\ own'[t] = own[t] /\ \A w \in Tasks(t) : task'[w] = task[w]
    /\ phase'[t] = phase[t] \/ {phase[t], phase'[t]} \subseteq {"none", "offline"}

LEMMA SameFacts ==
    ASSUME NEW t \in Subsystem, Same(t)
    PROVE  /\ Orderly(t)' <=> Orderly(t)
           /\ Unused(t)' <=> Unused(t)
           /\ Past(t)' <=> Past(t)
           /\ \A c : t \in Holders(c)' <=> t \in Holders(c)
<1> DEFINE T == Tasks(t)
<1>1. \A w \in T : task'[w] = task[w]
    BY DEF Same
<1>2. /\ own'[t] = own[t]
      /\ phase'[t] = phase[t] \/ {phase[t], phase'[t]} \subseteq {"none", "offline"}
    BY DEF Same
<1>3. /\ Unused(t) <=>
          phase[t] \in {"none", "offline"} /\ \A w \in T : task[w] = "idle"
      /\ Unused(t)' <=>
          phase'[t] \in {"none", "offline"} /\ \A w \in T : task'[w] = "idle"
    BY DEF Unused, Tasks
<1>4. T' = T
    BY DEF Tasks
<1> HIDE DEF T
<1>5. Unused(t)' <=> Unused(t)
    BY <1>1, <1>2, <1>3
<1>6. Orderly(t)' <=> Orderly(t)
    BY <1>1, <1>2, <1>4 DEF Orderly, T
<1>7. Past(t)' <=> Past(t)
    BY <1>1, <1>2, <1>4 DEF Past, T
<1>8. \A c : t \in Holders(c)' <=> t \in Holders(c)
    BY <1>1, <1>2, <1>4 DEF Holders, T, Users
<1> QED
    BY <1>5, <1>6, <1>7, <1>8

\* Nothing happens to c, or to the subsystems there.
LEMMA FrameSane ==
    ASSUME Sane, NEW c \in Compute, c \notin troubled', Alike(main[c], main'[c]),
           troubled \subseteq troubled', shared \subseteq shared', \A t \in Users(c) : Same(t)
    PROVE  /\ main'[c].link # "stale"
           /\ ~main'[c].static => Dynamic(c)'
<1>1. main'[c].link # "stale" /\ main'[c].static = main[c].static
    BY DEF Sane, Alike
<1>2. ASSUME ~main[c].static PROVE Dynamic(c)'
  <2>1. Dynamic(c)
      BY <1>2 DEF Sane
  <2>2. \A t \in Users(c) : Orderly(t)'
      BY <2>1, SameFacts, TaskFacts DEF Dynamic
  <2>3. Holders(c)' = Holders(c) /\ Users(c)' = Users(c)
    <3>1. Holders(c) \subseteq Users(c) /\ Holders(c)' \subseteq Users(c) /\ Users(c)' = Users(c)
        BY DEF Holders, Users
    <3>2. \A t \in Users(c) : t \in Holders(c)' <=> t \in Holders(c)
        BY SameFacts, TaskFacts
    <3> QED
        BY <3>1, <3>2, Zenon
  <2>4. Counted(c)'
      BY <2>1, <2>3 DEF Dynamic, Counted, Alike
  <2>5. IsConnected(c)' <=> IsConnected(c)
      BY DEF IsConnected, Alike
  <2>6. ASSUME c \notin shared' PROVE Lone(c)'
    <3>1. Lone(c)
        BY <2>1, <2>6 DEF Dynamic
    <3> QED
        BY <2>3, <2>5, <3>1, SameFacts, TaskFacts DEF Lone
  <2> QED
      BY <2>2, <2>3, <2>4, <2>6 DEF Dynamic
<1> QED
    BY <1>1, <1>2

\* Only subsystem s does something, and only to its umbilical.
Others(s) ==
    /\ \A t \in Subsystem \ {s} : Same(t)
    /\ \A x \in Compute \ {Home[s]} : main'[x] = main[x]
    /\ troubled \subseteq troubled' /\ shared \subseteq shared'

LEMMA StepSane ==
    ASSUME Sane, NEW s \in Subsystem, Others(s),
           LET c == Home[s] IN
           c \notin troubled' =>
               /\ main[c].link # "stale" => main'[c].link # "stale"
               /\ main'[c].static = main[c].static
               /\ ~main[c].static /\ Dynamic(c) =>
                    Orderly(s)' /\ Counted(c)' /\ (c \notin shared' => Lone(c)')
    PROVE  Sane'
<1> SUFFICES ASSUME NEW c \in Compute, c \notin troubled'
             PROVE  main'[c].link # "stale" /\ (~main'[c].static => Dynamic(c)')
    BY DEF Sane
<1>1. CASE c = Home[s]
  <2>1. main'[c].link # "stale" /\ main'[c].static = main[c].static
      BY <1>1 DEF Sane, Others
  <2>2. ASSUME ~main'[c].static PROVE Dynamic(c)'
    <3>1. Dynamic(c)
        BY <2>1, <2>2 DEF Sane, Others
    <3>2. Orderly(s)' /\ Counted(c)' /\ (c \notin shared' => Lone(c)')
        BY <1>1, <2>1, <2>2, <3>1
    <3>3. \A t \in Users(c) : Orderly(t)'
        BY <3>1, <3>2, SameFacts, TaskFacts DEF Dynamic, Others
    <3>4. Users(c)' = Users(c)
        BY DEF Users
    <3> QED
        BY <3>2, <3>3, <3>4 DEF Dynamic
  <2> QED
      BY <2>1, <2>2
<1>2. CASE c # Home[s]
  <2>1. \A t \in Users(c) : Same(t)
      BY <1>2, TaskFacts DEF Others
  <2>2. Alike(main[c], main'[c])
      BY <1>2 DEF Alike, Others
  <2> QED
      BY <2>1, <2>2, FrameSane DEF Others
<1> QED
    BY <1>1, <1>2

LEMMA Sizes ==
    ASSUME NEW S, IsFiniteSet(S), NEW x
    PROVE  /\ Cardinality(S) \in Nat /\ (Cardinality(S) = 0 <=> S = {})
           /\ IsFiniteSet(S \cup {x}) /\ IsFiniteSet(S \ {x})
           /\ x \in S => S \cup {x} = S /\ Cardinality(S \ {x}) = Cardinality(S) - 1
           /\ x \notin S => S \ {x} = S /\ Cardinality(S \cup {x}) = Cardinality(S) + 1
<1>1. Cardinality(S) \in Nat /\ (Cardinality(S) = 0 <=> S = {})
    BY FS_CardinalityType, FS_EmptySet
<1>2. /\ IsFiniteSet(S \cup {x})
      /\ Cardinality(S \cup {x}) = IF x \in S THEN Cardinality(S) ELSE Cardinality(S) + 1
    BY FS_AddElement
<1>3. /\ IsFiniteSet(S \ {x})
      /\ Cardinality(S \ {x}) = IF x \in S THEN Cardinality(S) - 1 ELSE Cardinality(S)
    BY FS_RemoveElement
<1> QED
    BY <1>1, <1>2, <1>3

\* Who holds the umbilical of s, when only s does something.
LEMMA OthersHold ==
    ASSUME NEW s \in Subsystem, Others(s)
    PROVE  LET c == Home[s] IN
           /\ Users(c)' = Users(c) /\ s \in Users(c)
           /\ Holders(c)' \ {s} = Holders(c) \ {s}
           /\ Holders(c)' \subseteq Users(c) /\ Holders(c) \subseteq Users(c)
<1> DEFINE c == Home[s]
<1>1. /\ Users(c)' = Users(c) /\ s \in Users(c) /\ c' = c
      /\ Holders(c)' \subseteq Users(c) /\ Holders(c) \subseteq Users(c)
    BY Workers DEF Users, Holders
<1>2. \A t \in Users(c) \ {s} : t \in Holders(c)' <=> t \in Holders(c)
    BY SameFacts, TaskFacts DEF Others
<1> HIDE DEF c
<1>3. Holders(c)' \ {s} = Holders(c) \ {s}
    BY <1>1, <1>2, Zenon
<1> QED
    BY <1>1, <1>3 DEF c

\* s alone has to do with c: then only its own state matters there.
LEMMA StaysLone ==
    ASSUME NEW s \in Subsystem, Others(s), Lone(Home[s]),
           Unused(s) => \A t \in Users(Home[s]) \ {s} : Unused(t),
           Past(s)' => IsConnected(Home[s])'
    PROVE  Lone(Home[s])'
<1> DEFINE c == Home[s]
<1>1. /\ Users(c)' = Users(c) /\ s \in Users(c) /\ \A t \in Users(c) : t \in Subsystem
    BY OthersHold, TaskFacts
<1>2. \A t \in Users(c) \ {s} : (Unused(t)' <=> Unused(t)) /\ (Past(t)' <=> Past(t))
    BY <1>1, SameFacts DEF Others
<1>3. \A t \in Users(c) \ {s} : Unused(t)
    BY <1>1 DEF Lone
<1>4. \A t \in Subsystem : Unused(t) => ~Past(t)
    BY DEF Unused, Past
<1> HIDE DEF c
<1>5. \A t, r \in Users(c) : ~Unused(t)' /\ ~Unused(r)' => t = r
    BY <1>2, <1>3
<1>6. \A t \in Users(c) : Past(t)' => IsConnected(c)'
    BY <1>1, <1>2, <1>3, <1>4 DEF c
<1> QED
    BY <1>1, <1>5, <1>6 DEF Lone, c

\* One coroutine of s goes on.
LEMMA OneTask ==
    ASSUME Sound, NEW s \in Subsystem, NEW k \in 1..MaxTasks, NEW to,
           task' = [task EXCEPT ![<<s, k>>] = to]
    PROVE  /\ \A t \in Subsystem \ {s} : \A w \in Tasks(t) : task'[w] = task[w]
           /\ \A w \in Tasks(s) : task'[w] = IF w = <<s, k>> THEN to ELSE task[w]
           /\ <<s, k>> \in Tasks(s)
<1>1. <<s, k>> \in Worker /\ <<s, k>> \in Tasks(s)
    BY TaskFacts
<1>2. \A w \in Worker : task'[w] = IF w = <<s, k>> THEN to ELSE task[w]
    BY <1>1 DEF Sound, Typed
<1> QED
    BY <1>1, <1>2, TaskFacts

\* Holders and references stay as they are.
LEMMA StaysCounted ==
    ASSUME NEW s \in Subsystem, Others(s), Counted(Home[s]),
           s \in Holders(Home[s])' <=> s \in Holders(Home[s]),
           main'[Home[s]].refs = main[Home[s]].refs,
           main'[Home[s]].st = main[Home[s]].st \/
               {main[Home[s]].st, main'[Home[s]].st} \subseteq {"Connecting", "Connected"}
    PROVE  Counted(Home[s])'
<1> DEFINE c == Home[s]
<1>1. Holders(c)' = Holders(c)
    BY OthersHold
<1> QED
    BY <1>1 DEF Counted

LEMMA StartSane ==
    ASSUME Sound, Sane, NEW s \in Subsystem, NEW k \in 1..MaxTasks, Start(s, k)
    PROVE  Sane'
<1> DEFINE c == Home[s]
           w == <<s, k>>
<1>1. /\ phase[s] \in {"offline", "restarting"} /\ task[w] = "idle"
      /\ phase' = [phase EXCEPT ![s] = "connecting"] /\ own' = [own EXCEPT ![s] = "Connecting"]
      /\ task' = [task EXCEPT ![w] = "main"] /\ main' = main
      /\ troubled' = IF \E j \in 1..MaxTasks : task[<<s, j>>] # "idle"
                     THEN troubled \cup {c} ELSE troubled
      /\ shared' = IF \E t \in Users(c) \ {s} : ~Unused(t) THEN shared \cup {c} ELSE shared
    BY DEF Start
<1>2. /\ \A t \in Subsystem \ {s} : \A v \in Tasks(t) : task'[v] = task[v]
      /\ \A v \in Tasks(s) : task'[v] = IF v = w THEN "main" ELSE task[v]
      /\ w \in Tasks(s)
    BY <1>1, OneTask
<1>3. phase'[s] = "connecting" /\ own'[s] = "Connecting"
    BY <1>1 DEF Sound, Typed
<1>4. Others(s)
    BY <1>1, <1>2 DEF Others, Same, Sound, Typed
<1> HIDE DEF w
<1>5. ASSUME c \notin troubled', Dynamic(c)
      PROVE  Orderly(s)' /\ Counted(c)' /\ (c \notin shared' => Lone(c)')
  <2>1. \A v \in Tasks(s) : task[v] = "idle"
      BY <1>1, <1>5 DEF Tasks
  <2>2. Orderly(s)'
      BY <1>2, <1>3, <2>1 DEF Orderly
  <2>3. s \notin Holders(c) /\ s \notin Holders(c)'
      BY <1>1, <1>2, <2>1 DEF Holders
  <2>4. Counted(c)'
      BY <1>1, <1>4, <1>5, <2>3, StaysCounted DEF Dynamic
  <2>5. ASSUME c \notin shared' PROVE Lone(c)'
    <3>1. Lone(c) /\ \A t \in Users(c) \ {s} : Unused(t)
        BY <1>1, <1>5, <2>5 DEF Dynamic
    <3>2. ~Past(s)'
        BY <1>2, <1>3, <2>1 DEF Past
    <3> QED
        BY <1>4, <3>1, <3>2, StaysLone
  <2> QED
      BY <2>2, <2>4, <2>5
<1> QED
    BY <1>1, <1>4, <1>5, StepSane

LEMMA OwnConnectsSane ==
    ASSUME Sound, Sane, NEW s \in Subsystem, NEW k \in 1..MaxTasks, OwnConnects(s, k)
    PROVE  Sane'
<1> DEFINE c == Home[s]
           w == <<s, k>>
<1>1. /\ task[w] = "own" /\ UNCHANGED <<main, phase, shared>>
      /\ \/ /\ own[s] = "Connecting" /\ own' = [own EXCEPT ![s] = "Connected"]
            /\ task' = [task EXCEPT ![w] = "idle"] /\ troubled' = troubled
         \/ /\ task' = [task EXCEPT ![w] = "main"] /\ own' = own
            /\ IF own[s] # "Connecting" THEN troubled' = troubled
               ELSE troubled' = troubled \cup {c}
    BY DEF OwnConnects
<1>2. \E to \in {"idle", "main"} : task' = [task EXCEPT ![w] = to]
    BY <1>1
<1>3. PICK to \in {"idle", "main"} : task' = [task EXCEPT ![w] = to]
    BY <1>2
<1>4. /\ \A t \in Subsystem \ {s} : \A v \in Tasks(t) : task'[v] = task[v]
      /\ \A v \in Tasks(s) : task'[v] = IF v = w THEN to ELSE task[v]
      /\ w \in Tasks(s)
    BY <1>3, OneTask
<1>5. Others(s)
    BY <1>1, <1>4 DEF Others, Same, Sound, Typed
<1>6. s \in Users(c) /\ w \in Worker
    BY Workers
<1>7. ~Unused(s)
    BY <1>1, <1>4, TaskFacts
<1>8. task'[w] = to /\ (own[s] = "Connecting" => c \in troubled' \/ to = "idle")
      /\ (own[s] # "Connecting" => to = "main" /\ own' = own)
  <2>1. \A x, y : [task EXCEPT ![w] = x] = [task EXCEPT ![w] = y] => x = y
      BY <1>6 DEF Sound, Typed
  <2> QED
      BY <1>1, <1>3, <1>4, <2>1
<1> HIDE DEF w
<1>9. ASSUME c \notin troubled', Dynamic(c)
      PROVE  Orderly(s)' /\ Counted(c)' /\ (c \notin shared' => Lone(c)')
  <2>1. Orderly(s)
      BY <1>6, <1>9 DEF Dynamic
  <2>2. \A v \in Tasks(s) \ {w} : task[v] = "idle" /\ task'[v] = "idle"
      BY <1>1, <1>4, <2>1 DEF Orderly
  <2>3. CASE own[s] = "Connecting"
    <3>1. own'[s] = "Connected" /\ task'[w] = "idle" /\ phase'[s] = phase[s]
        BY <1>1, <1>8, <1>9, <2>3 DEF Sound, Typed
    <3>2. phase[s] = "connecting"
        BY <1>1, <1>4, <2>1, <2>3 DEF Orderly, Sound, Typed
    <3>3. Orderly(s)'
        BY <1>4, <2>2, <3>1, <3>2 DEF Orderly
    <3>4. s \in Holders(c)' <=> s \in Holders(c)
        BY <1>1, <1>4, <1>6, <2>2, <3>1, <3>2 DEF Holders, Users
    <3>5. Counted(c)'
        BY <1>1, <1>5, <1>9, <3>4, StaysCounted DEF Dynamic
    <3>6. ASSUME c \notin shared' PROVE Lone(c)'
      <4>1. Lone(c) /\ Past(s)
          BY <1>1, <1>4, <1>9, <3>2, <3>6 DEF Dynamic, Past
      <4>2. IsConnected(c)'
          BY <1>1, <1>6, <4>1 DEF Lone, IsConnected
      <4> QED
          BY <1>5, <1>7, <4>1, <4>2, StaysLone
    <3> QED
        BY <3>3, <3>5, <3>6
  <2>4. CASE own[s] # "Connecting"
    <3>1. own' = own /\ task'[w] = "main" /\ phase'[s] = phase[s]
        BY <1>1, <1>8, <2>4
    <3>2. phase[s] \in {"none", "offline"}
        BY <1>1, <1>4, <2>1, <2>4 DEF Orderly, Sound, Typed
    <3>3. Orderly(s)'
        BY <1>4, <2>1, <2>2, <3>1, <3>2 DEF Orderly
    <3>4. s \notin Holders(c)' /\ s \notin Holders(c)
        BY <3>1, <3>2 DEF Holders
    <3>5. Counted(c)'
        BY <1>1, <1>5, <1>9, <3>4, StaysCounted DEF Dynamic
    <3>6. ASSUME c \notin shared' PROVE Lone(c)'
      <4>1. Lone(c) /\ ~Past(s)'
          BY <1>1, <1>9, <3>1, <3>2, <3>6 DEF Dynamic, Past
      <4> QED
          BY <1>5, <1>7, <4>1, StaysLone
    <3> QED
        BY <3>3, <3>5, <3>6
  <2> QED
      BY <2>3, <2>4
<1> QED
    BY <1>1, <1>5, <1>9, StepSane

LEMMA GoesOnlineSane ==
    ASSUME Sound, Sane, NEW s \in Subsystem, GoesOnline(s)
    PROVE  Sane'
<1> DEFINE c == Home[s]
<1>1. /\ phase[s] = "connecting" /\ own[s] \in {"Connected", "Stale"}
      /\ phase' = [phase EXCEPT ![s] = "online"]
      /\ UNCHANGED <<main, own, task, troubled, shared>>
    BY DEF GoesOnline
<1>2. Others(s)
    BY <1>1 DEF Others, Same, Sound, Typed
<1>3. phase'[s] = "online" /\ s \in Users(c) /\ ~Unused(s) /\ Tasks(s)' = Tasks(s)
    BY <1>1, Workers DEF Sound, Typed, Unused, Tasks
<1>4. ASSUME c \notin troubled', Dynamic(c)
      PROVE  Orderly(s)' /\ Counted(c)' /\ (c \notin shared' => Lone(c)')
  <2>1. Orderly(s)
      BY <1>3, <1>4 DEF Dynamic
  <2>2. own[s] = "Connected" /\ \A w \in Tasks(s) : task[w] = "idle"
      BY <1>1, <2>1 DEF Orderly
  <2>3. Orderly(s)'
      BY <1>1, <1>3, <2>1, <2>2 DEF Orderly
  <2>4. s \in Holders(c)' /\ s \in Holders(c)
      BY <1>1, <1>3, <2>2 DEF Holders, Users
  <2>5. Counted(c)'
      BY <1>1, <1>2, <1>4, <2>4, StaysCounted DEF Dynamic
  <2>6. ASSUME c \notin shared' PROVE Lone(c)'
    <3>1. Lone(c) /\ Past(s)
        BY <1>1, <1>4, <2>2, <2>6 DEF Dynamic, Past
    <3>2. IsConnected(c)'
        BY <1>1, <1>3, <3>1 DEF Lone, IsConnected
    <3> QED
        BY <1>2, <1>3, <3>1, <3>2, StaysLone
  <2> QED
      BY <2>3, <2>5, <2>6
<1> QED
    BY <1>1, <1>2, <1>4, StepSane

LEMMA ConnectUmbilicalSane ==
    ASSUME Sound, Sane, NEW s \in Subsystem, NEW k \in 1..MaxTasks, ConnectUmbilical(s, k)
    PROVE  Sane'
<1> DEFINE c == Home[s]
           w == <<s, k>>
           v == Precondition(main[c])
           cut == [v EXCEPT !.link = "down"]
<1>1. /\ task[w] = "main" /\ UNCHANGED <<phase, own, troubled, shared>>
      /\ \/ /\ phase[s] # "connecting" /\ main' = main
            /\ task' = [task EXCEPT ![w] = "idle"]
         \/ /\ phase[s] = "connecting" /\ main[c].st \in {"Connecting", "Connected"}
            /\ main' = [main EXCEPT ![c] = v] /\ task' = [task EXCEPT ![w] = "own"]
         \/ /\ phase[s] = "connecting" /\ main[c].st = "Closed"
            /\ main' = [main EXCEPT ![c] = cut] /\ task' = [task EXCEPT ![w] = "await"]
    BY DEF ConnectUmbilical
<1>2. \E to : to # "main" /\ task' = [task EXCEPT ![w] = to]
    BY <1>1
<1>3. PICK to : to # "main" /\ task' = [task EXCEPT ![w] = to]
    BY <1>2
<1>4. /\ \A t \in Subsystem \ {s} : \A x \in Tasks(t) : task'[x] = task[x]
      /\ \A x \in Tasks(s) : task'[x] = IF x = w THEN to ELSE task[x]
      /\ w \in Tasks(s)
    BY <1>3, OneTask
<1>5. Tasks(s)' = Tasks(s) /\ s \in Users(c) /\ c \in Compute /\ w \in Worker
    BY Workers DEF Tasks
<1>6. /\ v \in Umbilical /\ v.st = "Connecting" /\ v.refs = main[c].refs + 1
      /\ v.static = main[c].static /\ v.link = main[c].link
  <2>1. main[c] \in Umbilical
      BY <1>5 DEF Sound, Typed
  <2> QED
      BY <2>1, NewUmbilicals
<1>7. /\ cut \in Umbilical /\ cut.st = "Connecting" /\ cut.refs = main[c].refs + 1
      /\ cut.static = main[c].static /\ cut.link = "down"
  <2> HIDE DEF v
  <2> QED
      BY <1>6, Relinked
<1> HIDE DEF v, cut
<1>8. main[c].refs \in Int /\ main \in [Compute -> Umbilical]
    BY <1>5, Links DEF Sound, Typed
<1>9. /\ main'[c].static = main[c].static
      /\ main[c].link # "stale" => main'[c].link # "stale"
      /\ \A x \in Compute \ {c} : main'[x] = main[x]
    BY <1>1, <1>5, <1>6, <1>7, <1>8
<1>10. Others(s)
    BY <1>1, <1>4, <1>9 DEF Others, Same
<1>11. ~Unused(s)
    BY <1>1, <1>4, TaskFacts
<1>12. phase[s] # "connecting" => main' = main /\ task' = [task EXCEPT ![w] = "idle"]
    BY <1>1
<1>13. \A x, y : [task EXCEPT ![w] = x] = [task EXCEPT ![w] = y] => x = y
    BY <1>5 DEF Sound, Typed
<1>14. phase'[s] = phase[s] /\ own'[s] = own[s]
    BY <1>1
<1> HIDE DEF w
<1>15. ASSUME c \notin troubled', ~main[c].static, Dynamic(c)
      PROVE  Orderly(s)' /\ Counted(c)' /\ (c \notin shared' => Lone(c)')
  <2>1. Orderly(s)
      BY <1>5, <1>15 DEF Dynamic
  <2>2. \A x \in Tasks(s) \ {w} : task[x] = "idle" /\ task'[x] = "idle"
      BY <1>1, <1>4, <2>1 DEF Orderly
  <2>3. Orderly(s)'
      BY <1>1, <1>4, <1>5, <1>14, <2>1, <2>2 DEF Orderly
  <2>4. s \notin Holders(c)
      BY <1>1, <1>4 DEF Holders
  <2>5. CASE phase[s] # "connecting"
    <3>1. s \notin Holders(c)'
        BY <1>1, <1>4, <1>14, <2>1, <2>5 DEF Holders, Orderly
    <3>2. Counted(c)'
        BY <1>10, <1>12, <1>15, <2>4, <2>5, <3>1, StaysCounted DEF Dynamic
    <3>3. ~Past(s)'
        BY <1>1, <1>4, <1>14, <2>1, <2>5 DEF Past, Orderly
    <3>4. c \notin shared' => Lone(c)
        BY <1>1, <1>15 DEF Dynamic
    <3> QED
        BY <1>10, <1>11, <2>3, <3>2, <3>3, <3>4, StaysLone
  <2>6. CASE phase[s] = "connecting"
    <3>1. Holders(c)' = Holders(c) \cup {s}
      <4>1. s \in Holders(c)'
          BY <1>3, <1>4, <1>5, <1>14, <2>2, <2>6 DEF Holders, Users
      <4> QED
          BY <1>10, <4>1, OthersHold
    <3>2. /\ IsFiniteSet(Holders(c)') /\ Cardinality(Holders(c)') = Cardinality(Holders(c)) + 1
          /\ Cardinality(Holders(c)) \in Nat
        BY <1>15, <2>4, <3>1, Sizes DEF Dynamic, Counted
    <3>3. main'[c].refs = main[c].refs + 1 /\ main'[c].st = "Connecting"
        BY <1>1, <1>5, <1>6, <1>7, <1>8, <2>6
    <3>4. Counted(c)'
        BY <1>8, <1>15, <3>1, <3>2, <3>3 DEF Dynamic, Counted
    <3>5. ASSUME c \notin shared' PROVE Lone(c)'
      <4>1. Lone(c)
          BY <1>1, <1>15, <3>5 DEF Dynamic
      <4>2. Holders(c) = {}
        <5>1. \A t \in Holders(c) : t \in Users(c) /\ ~Unused(t)
            BY DEF Holders, Unused
        <5> QED
            BY <1>5, <1>11, <2>4, <4>1, <5>1 DEF Lone
      <4>3. main[c].st \notin {"Connecting", "Connected"}
          BY <1>15, <4>2 DEF Dynamic, Counted
      <4>4. to = "await"
          BY <1>1, <1>3, <1>13, <2>6, <4>3 DEF w
      <4>5. own[s] = "Connecting"
          BY <1>1, <1>4, <2>1, <2>6 DEF Orderly
      <4>6. ~Past(s)'
          BY <1>4, <1>5, <1>14, <2>2, <4>4, <4>5 DEF Past
      <4> QED
          BY <1>10, <1>11, <4>1, <4>6, StaysLone
    <3> QED
        BY <2>3, <3>4, <3>5
  <2> QED
      BY <2>5, <2>6
<1> QED
    BY <1>9, <1>10, <1>15, StepSane

\* Who waits for a main umbilical.
LEMMA Waiter ==
    ASSUME Sound, NEW w \in Worker, task[w] = "await"
    PROVE  \/ /\ w \in Compute /\ main[w].static /\ At(w) = w
              /\ \A t \in Subsystem : \A x \in Tasks(t) : x \in Worker \ {w}
           \/ \E s \in Subsystem :
              /\ At(w) = Home[s] /\ w \in Tasks(s)
              /\ \A t \in Subsystem \ {s} : \A x \in Tasks(t) : x \in Worker \ {w}
              /\ \A x \in Tasks(s) : x \in Worker
<1>1. CASE w \in Compute
    BY <1>1, TaskFacts, Workers DEF Sound, Joined
<1>2. CASE w \notin Compute
    BY <1>2, TaskFacts
<1> QED
    BY <1>1, <1>2

\* Nothing is claimed of c, and nothing else is touched.
LEMMA ElsewhereSane ==
    ASSUME Sane, NEW c \in Compute,
           c \notin troubled' => main'[c].link # "stale" /\ main'[c].static,
           \A x \in Compute \ {c} : main'[x] = main[x],
           troubled \subseteq troubled', shared \subseteq shared',
           \A t \in Subsystem : Home[t] # c => Same(t)
    PROVE  Sane'
<1> SUFFICES ASSUME NEW x \in Compute, x \notin troubled'
             PROVE  main'[x].link # "stale" /\ (~main'[x].static => Dynamic(x)')
    BY DEF Sane
<1>1. CASE x = c
    BY <1>1
<1>2. CASE x # c
  <2>1. \A t \in Users(x) : Same(t)
      BY <1>2, TaskFacts
  <2>2. Alike(main[x], main'[x])
      BY <1>2 DEF Alike
  <2> QED
      BY <2>1, <2>2, FrameSane
<1> QED
    BY <1>1, <1>2

LEMMA UmbilicalConnectedSane ==
    ASSUME Sound, Sane, NEW w \in Worker, UmbilicalConnected(w)
    PROVE  Sane'
<1> DEFINE c == At(w)
           u == [main[c] EXCEPT !.st = "Connected", !.link = "up"]
<1>1. /\ task[w] = "await" /\ w \notin dangling /\ main' = [main EXCEPT ![c] = u]
      /\ main[c].st # "Closed" /\ task' = [task EXCEPT ![w] = Goes(w)]
      /\ UNCHANGED <<phase, own, troubled, shared>>
    BY DEF UmbilicalConnected
<1>2. c \in Compute /\ main[c] \in Umbilical /\ main[c].st # "None"
    BY <1>1, Awaited
<1>3. /\ u.st = "Connected" /\ u.link = "up" /\ u.static = main[c].static
      /\ u.refs = main[c].refs
    BY <1>2, Relinked
<1> HIDE DEF u
<1>4. main'[c] = u /\ \A x \in Compute \ {c} : main'[x] = main[x]
    BY <1>1, <1>2 DEF Sound, Typed
<1>5. CASE /\ w \in Compute /\ main[w].static /\ At(w) = w
           /\ \A t \in Subsystem : \A x \in Tasks(t) : task'[x] = task[x]
  <2>1. \A t \in Subsystem : Same(t)
      BY <1>1, <1>5 DEF Same
  <2> QED
      BY <1>1, <1>2, <1>3, <1>4, <1>5, <2>1, ElsewhereSane
<1>6. ASSUME NEW s \in Subsystem, c = Home[s], w \in Tasks(s),
             \A t \in Subsystem \ {s} : \A x \in Tasks(t) : task'[x] = task[x],
             \A x \in Tasks(s) : task'[x] = IF x = w THEN Goes(w) ELSE task[x]
      PROVE  Sane'
  <2>1. Others(s)
      BY <1>1, <1>4, <1>6 DEF Others, Same
  <2>2. Goes(w) = "own" /\ Tasks(s)' = Tasks(s) /\ s \in Users(c) /\ ~Unused(s)
      BY <1>1, <1>6, TaskFacts, Workers DEF Goes, Tasks
  <2>3. phase'[s] = phase[s] /\ own'[s] = own[s]
      BY <1>1
  <2>4. ASSUME c \notin troubled', Dynamic(c)
        PROVE  Orderly(s)' /\ Counted(c)' /\ (c \notin shared' => Lone(c)')
    <3>1. Orderly(s)
        BY <2>2, <2>4 DEF Dynamic
    <3>2. Orderly(s)'
        BY <1>1, <1>6, <2>2, <2>3, <3>1 DEF Orderly
    <3>3. s \in Holders(c)' <=> s \in Holders(c)
        BY <1>1, <1>6, <2>2, <2>3 DEF Holders, Users
    <3>4. main[c].st \in {"Connecting", "Connected"}
        BY <1>1, <1>2, Links
    <3>5. Counted(c)'
        BY <1>3, <1>4, <1>6, <2>1, <2>4, <3>3, <3>4, StaysCounted DEF Dynamic
    <3>6. IsConnected(c)'
        BY <1>3, <1>4 DEF IsConnected
    <3>7. c \notin shared' => Lone(c)
        BY <1>1, <2>4 DEF Dynamic
    <3> QED
        BY <1>6, <2>1, <2>2, <3>2, <3>5, <3>6, <3>7, StaysLone
  <2> QED
      BY <1>3, <1>4, <1>6, <2>1, <2>4, StepSane
<1>7. task[w] = "await" /\ \A x \in Worker : task'[x] = IF x = w THEN Goes(w) ELSE task[x]
    BY <1>1 DEF Sound, Typed
<1>8. CASE w \in Compute /\ main[w].static /\ At(w) = w /\
           \A t \in Subsystem : \A x \in Tasks(t) : x \in Worker \ {w}
    BY <1>5, <1>7, <1>8
<1>9. ASSUME NEW s \in Subsystem, c = Home[s], w \in Tasks(s),
             \A t \in Subsystem \ {s} : \A x \in Tasks(t) : x \in Worker \ {w},
             \A x \in Tasks(s) : x \in Worker
      PROVE  Sane'
    BY <1>6, <1>7, <1>9
<1> QED
    BY <1>7, <1>8, <1>9, Waiter

LEMMA UmbilicalFailsSane ==
    ASSUME Sound, Sane, NEW w \in Worker, UmbilicalFails(w)
    PROVE  Sane'
<1> DEFINE c == At(w)
           u == [main[c] EXCEPT !.st = "Closed", !.link = "down"]
<1>1. /\ task[w] = "await" /\ w \notin dangling /\ main' = [main EXCEPT ![c] = u]
      /\ task' = [task EXCEPT ![w] = Again(w)]
      /\ UNCHANGED <<phase, own, shared>>
      /\ IF main[c].st = "Closed" THEN troubled' = troubled ELSE troubled' = troubled \cup {c}
    BY DEF UmbilicalFails
<1>2. c \in Compute /\ main[c] \in Umbilical /\ main[c].st # "None"
    BY <1>1, Awaited
<1>3. /\ u.st = "Closed" /\ u.link = "down" /\ u.static = main[c].static
      /\ u.refs = main[c].refs
    BY <1>2, Relinked
<1> HIDE DEF u
<1>4. main'[c] = u /\ \A x \in Compute \ {c} : main'[x] = main[x]
    BY <1>1, <1>2 DEF Sound, Typed
<1>5. CASE /\ w \in Compute /\ main[w].static /\ At(w) = w
           /\ \A t \in Subsystem : \A x \in Tasks(t) : task'[x] = task[x]
  <2>1. \A t \in Subsystem : Same(t)
      BY <1>1, <1>5 DEF Same
  <2>2. /\ main'[c].link # "stale" /\ main'[c].static
        /\ troubled \subseteq troubled' /\ shared \subseteq shared'
      BY <1>1, <1>3, <1>4, <1>5
  <2> QED
      BY <1>2, <1>4, <2>1, <2>2, ElsewhereSane
<1>6. ASSUME NEW s \in Subsystem, c = Home[s], w \in Tasks(s),
             \A t \in Subsystem \ {s} : \A x \in Tasks(t) : task'[x] = task[x],
             \A x \in Tasks(s) : task'[x] = IF x = w THEN Again(w) ELSE task[x]
      PROVE  Sane'
  <2>1. Others(s)
      BY <1>1, <1>4, <1>6 DEF Others, Same
  <2>2. Again(w) = "main" /\ Tasks(s)' = Tasks(s) /\ s \in Users(c) /\ ~Unused(s)
      BY <1>1, <1>6, TaskFacts, Workers DEF Again, Tasks
  <2>3. phase'[s] = phase[s] /\ own'[s] = own[s]
      BY <1>1
  <2>4. ASSUME c \notin troubled', Dynamic(c)
        PROVE  Orderly(s)' /\ Counted(c)' /\ (c \notin shared' => Lone(c)')
    <3>1. Orderly(s)
        BY <2>2, <2>4 DEF Dynamic
    <3>2. Orderly(s)'
        BY <1>1, <1>6, <2>2, <2>3, <3>1 DEF Orderly
    <3>3. main[c].st = "Closed"
        BY <1>1, <2>4
    <3>4. Holders(c)' = Holders(c) \ {s}
      <4>1. s \notin Holders(c)'
          BY <1>6, <2>2 DEF Holders
      <4> QED
          BY <1>6, <2>1, <4>1, OthersHold
    <3>5. IsFiniteSet(Holders(c)') /\ Cardinality(Holders(c)') \in Nat
      <4>1. IsFiniteSet(Holders(c))
          BY <2>4 DEF Dynamic, Counted
      <4>2. IsFiniteSet(Holders(c)')
          BY <3>4, <4>1, Sizes, SMTT(30)
      <4> QED
          BY <4>2, FS_CardinalityType
    <3>6. main[c].refs <= 0 /\ main[c].refs \in Int
        BY <1>2, <2>4, <3>3, Links DEF Dynamic, Counted
    <3>7. Counted(c)'
        BY <1>3, <1>4, <3>5, <3>6 DEF Counted
    <3>8. ASSUME c \notin shared' PROVE Lone(c)'
      <4>1. Lone(c) /\ ~IsConnected(c)
          BY <1>1, <2>4, <3>3, <3>8 DEF Dynamic, IsConnected
      <4>2. ~Past(s)
          BY <2>2, <4>1 DEF Lone
      <4>3. ~Past(s)'
          BY <1>6, <2>2, <2>3, <4>2 DEF Past
      <4> QED
          BY <1>6, <2>1, <2>2, <4>1, <4>3, StaysLone
    <3> QED
        BY <3>2, <3>7, <3>8
  <2> QED
      BY <1>3, <1>4, <1>6, <2>1, <2>4, StepSane
<1>7. task[w] = "await" /\ \A x \in Worker : task'[x] = IF x = w THEN Again(w) ELSE task[x]
    BY <1>1 DEF Sound, Typed
<1>8. CASE w \in Compute /\ main[w].static /\ At(w) = w /\
           \A t \in Subsystem : \A x \in Tasks(t) : x \in Worker \ {w}
    BY <1>5, <1>7, <1>8
<1>9. ASSUME NEW s \in Subsystem, c = Home[s], w \in Tasks(s),
             \A t \in Subsystem \ {s} : \A x \in Tasks(t) : x \in Worker \ {w},
             \A x \in Tasks(s) : x \in Worker
      PROVE  Sane'
    BY <1>6, <1>7, <1>9
<1> QED
    BY <1>7, <1>8, <1>9, Waiter

LEMMA UmbilicalRefusedSane ==
    ASSUME Sound, Sane, NEW w \in Worker, UmbilicalRefused(w)
    PROVE  Sane'
<1> DEFINE c == At(w)
           u == Disconnected([main[c] EXCEPT !.st = "Connected", !.link = "up"], FALSE)
<1>1. /\ task[w] = "await" /\ w \notin dangling /\ main' = [main EXCEPT ![c] = u]
      /\ task' = [task EXCEPT ![w] = Again(w)]
      /\ UNCHANGED <<phase, own, shared>> /\ troubled' = troubled \cup {c}
    BY DEF UmbilicalRefused
<1> HIDE DEF u
<1>2. c \in Compute /\ \A x \in Compute \ {c} : main'[x] = main[x]
    BY <1>1, Awaited DEF Sound, Typed
<1>3. \A t \in Subsystem : Home[t] # c => \A x \in Tasks(t) : task'[x] = task[x]
    BY <1>1, TaskFacts DEF Sound, Typed
<1>4. \A t \in Subsystem : Home[t] # c => Same(t)
    BY <1>1, <1>3 DEF Same
<1>5. c \in troubled' /\ troubled \subseteq troubled' /\ shared \subseteq shared'
    BY <1>1
<1> HIDE DEF c
<1> QED
    BY <1>2, <1>4, <1>5, ElsewhereSane

LEMMA BlankSane == Blank => Sane
<1> SUFFICES ASSUME Blank PROVE Sane
    OBVIOUS
<1>1. \A c \in Compute : main[c] = NoUmbilical
    BY BlankIs
<1>2. \A s \in Subsystem : /\ phase[s] = "none" /\ own[s] = "Closed"
                           /\ \A w \in Tasks(s) : task[w] = "idle"
    BY BlankIs, TaskFacts
<1>3. \A s \in Subsystem : Orderly(s) /\ Unused(s) /\ ~Past(s)
    BY <1>2, TaskFacts DEF Orderly, Past
<1>4. \A c \in Compute : Holders(c) = {}
    BY <1>2, TaskFacts DEF Holders
<1>5. ASSUME NEW c \in Compute PROVE Counted(c)
  <2>1. IsFiniteSet(Holders(c)) /\ Cardinality(Holders(c)) = 0
      BY <1>4, FS_EmptySet
  <2>2. main[c].refs = 0 /\ main[c].st = "None"
      BY <1>1, NewUmbilicals
  <2> QED
      BY <2>1, <2>2 DEF Counted
<1>6. \A c \in Compute : Lone(c)
    BY <1>3, TaskFacts DEF Lone
<1> QED
    BY <1>1, <1>3, <1>5, <1>6, TaskFacts, NewUmbilicals DEF Sane, Dynamic

LEMMA DiesSane ==
    ASSUME Sound, Dies, UNCHANGED groups
    PROVE  Sane'
<1>1. Blank'
    BY DiesBlank
<1>2. Blank' => Sane'
    BY BlankSane, PTL
<1> QED
    BY <1>1, <1>2

LEMMA UmbilicalGoneSane ==
    ASSUME Sound, Sane, NEW w \in Worker, UmbilicalGone(w)
    PROVE  Sane'
<1> DEFINE c == At(w)
<1>1. task[w] = "await" /\ w \in dangling /\ UNCHANGED groups
    BY DEF UmbilicalGone
<1>2. CASE Dies
    BY <1>1, <1>2, DiesSane
<1>3. CASE /\ task' = [task EXCEPT ![w] = Again(w)]
           /\ UNCHANGED <<main, phase, own, troubled, shared>>
  <2>1. c \in Compute /\ c \in troubled
      BY <1>1, Workers DEF Sound, Joined
  <2>2. \A t \in Subsystem : Home[t] # c => \A x \in Tasks(t) : task'[x] = task[x]
      BY <1>1, <1>3, TaskFacts DEF Sound, Typed
  <2>3. \A t \in Subsystem : Home[t] # c => Same(t)
      BY <1>3, <2>2 DEF Same
  <2> QED
      BY <1>3, <2>1, <2>3, ElsewhereSane
<1> QED
    BY <1>2, <1>3 DEF UmbilicalGone

LEMMA StopSane ==
    ASSUME Sound, Sane, NEW s \in Subsystem, Stop(s)
    PROVE  Sane'
<1> DEFINE c == Home[s]
<1>1. /\ phase[s] \in {"connecting", "online"} /\ phase' = [phase EXCEPT ![s] = "offline"]
      /\ DisconnectAll(s) /\ UNCHANGED <<task, troubled, shared>>
    BY DEF Stop
<1>2. /\ own' = [own EXCEPT ![s] = "Closed"]
      /\ \A x \in Compute \ {c} : main'[x] = main[x]
      /\ \/ main[c].st = "None" /\ main' = main
         \/ main[c].st # "None" /\ Lowered(main[c], main'[c])
      /\ c \in Compute /\ main'[c] \in Umbilical /\ main[c] \in Umbilical
    BY <1>1, DisconnectAllFacts, Workers DEF Sound, Typed
<1>3. /\ main'[c].static = main[c].static
      /\ main[c].link # "stale" => main'[c].link # "stale"
    BY <1>2 DEF Lowered
<1>4. /\ phase'[s] = "offline" /\ own'[s] = "Closed" /\ task' = task
      /\ s \in Users(c) /\ ~Unused(s) /\ Tasks(s)' = Tasks(s)
    BY <1>1, <1>2, Workers DEF Sound, Typed, Unused, Tasks
<1>5. Others(s)
    BY <1>1, <1>2 DEF Others, Same, Sound, Typed
<1>6. ASSUME c \notin troubled', ~main[c].static, Dynamic(c)
      PROVE  Orderly(s)' /\ Counted(c)' /\ (c \notin shared' => Lone(c)')
  <2>1. Orderly(s)
      BY <1>4, <1>6 DEF Dynamic
  <2>2. Orderly(s)'
      BY <1>4, <2>1 DEF Orderly
  <2>3. Holders(c)' = Holders(c) \ {s}
    <3>1. s \notin Holders(c)'
        BY <1>4 DEF Holders
    <3> QED
        BY <1>5, <3>1, OthersHold
  <2>4. IsFiniteSet(Holders(c)) /\ main[c].refs <= Cardinality(Holders(c))
      BY <1>6 DEF Dynamic, Counted
  <2>5. /\ IsFiniteSet(Holders(c)') /\ Cardinality(Holders(c)') \in Nat
        /\ Cardinality(Holders(c)') >= Cardinality(Holders(c)) - 1
        /\ Cardinality(Holders(c)) \in Nat
        /\ Cardinality(Holders(c)') = 0 <=> Holders(c)' = {}
    <3>1. IsFiniteSet(Holders(c)')
        BY <2>3, <2>4, Sizes
    <3>2. Cardinality(Holders(c)') \in Nat /\ (Cardinality(Holders(c)') = 0 <=> Holders(c)' = {})
        BY <3>1, Sizes
    <3>3. CASE s \in Holders(c)
        BY <2>3, <2>4, <3>1, <3>2, <3>3, Sizes
    <3>4. CASE s \notin Holders(c)
        BY <2>3, <2>4, <3>1, <3>2, <3>4, Sizes
    <3> QED
        BY <3>3, <3>4
  <2>6. main[c].refs \in Int /\ main'[c].refs \in Int
      BY <1>2, Links
  <2>7. CASE main[c].st = "None" /\ main' = main
    <3>1. main[c].refs <= 0
        BY <1>6, <2>7 DEF Dynamic, Counted
    <3>2. Counted(c)'
        BY <2>5, <2>6, <2>7, <3>1 DEF Counted
    <3> QED
        BY <1>1, <1>4, <1>5, <1>6, <2>2, <3>2, StaysLone DEF Past, Dynamic
  <2>8. CASE main[c].st # "None" /\ Lowered(main[c], main'[c])
    <3>1. /\ main'[c].refs <= main[c].refs - 1
          /\ main'[c].st \in {main[c].st, "Closed"}
          /\ main'[c].st = "Closed" => main[c].st = "Closed" \/ main'[c].refs <= 0
          /\ main'[c].st # "Closed" => ~(main[c].refs <= 1)
        BY <1>6, <2>8 DEF Lowered
    <3>2. main[c].st = "Closed" => main[c].refs <= 0
        BY <1>6 DEF Dynamic, Counted
    <3>3. main'[c].st \in {"None", "Closed"} => main'[c].refs <= 0
        BY <2>6, <2>8, <3>1, <3>2
    <3>4. main'[c].st \in {"Connecting", "Connected"} => Holders(c)' # {}
        BY <2>4, <2>5, <2>6, <3>1
    <3>5. main'[c].refs <= Cardinality(Holders(c)')
        BY <2>4, <2>5, <2>6, <3>1
    <3>6. Counted(c)'
        BY <2>5, <3>3, <3>4, <3>5 DEF Counted
    <3> QED
        BY <1>1, <1>4, <1>5, <1>6, <2>2, <3>6, StaysLone DEF Past, Dynamic
  <2> QED
      BY <1>2, <2>7, <2>8
<1> QED
    BY <1>3, <1>5, <1>6, StepSane

LEMMA LosesSane ==
    ASSUME Sound, Sane, NEW s \in Subsystem, Loses(s)
    PROVE  Sane'
<1> DEFINE c == Home[s]
<1>1. /\ own[s] = "Stale" /\ UNCHANGED <<task, troubled, shared>>
      /\ \/ phase' = [phase EXCEPT ![s] = "restarting"] /\ DisconnectAll(s)
         \/ own' = [own EXCEPT ![s] = "Closed"] /\ UNCHANGED <<main, phase>>
    BY DEF Loses
<1>2. s \in Users(c) /\ c \in Compute
    BY Workers
<1>3. /\ own' = [own EXCEPT ![s] = "Closed"]
      /\ \A x \in Compute \ {c} : main'[x] = main[x]
      /\ main[c].link # "stale" => main'[c].link # "stale"
      /\ main'[c].static = main[c].static
    BY <1>1, DisconnectAllFacts DEF Lowered
<1>4. \A t \in Subsystem \ {s} : phase'[t] = phase[t] /\ own'[t] = own[t]
    BY <1>1, <1>3 DEF Sound, Typed
<1>5. \A t \in Subsystem : Home[t] # c => Same(t)
    BY <1>1, <1>4 DEF Same
<1>6. c \notin troubled' => main'[c].link # "stale" /\ main'[c].static
    BY <1>1, <1>2, <1>3 DEF Sane, Dynamic, Orderly
<1> QED
    BY <1>1, <1>2, <1>3, <1>5, <1>6, ElsewhereSane

LEMMA StageZeroRestartsSane ==
    ASSUME Sound, Sane, NEW c \in Compute, StageZeroRestarts(c)
    PROVE  Sane'
<1>1. /\ \A x \in Compute \ {c} : main'[x] = main[x]
      /\ troubled' = troubled \cup {c} /\ UNCHANGED <<phase, task, shared>>
      /\ \A t \in Subsystem : Home[t] # c => own'[t] = own[t]
    BY DEF StageZeroRestarts, Sound, Typed
<1>2. \A t \in Subsystem : Home[t] # c => Same(t)
    BY <1>1 DEF Same
<1> QED
    BY <1>1, <1>2, ElsewhereSane

\* Nothing but cgroups, and links that were not up.
LEMMA CgroupsSane ==
    ASSUME Sound, Sane, NEW c \in Compute, main' = main \/ (\E S : Sent(c, S)),
           UNCHANGED <<phase, own, task, troubled, shared>>
    PROVE  Sane'
<1> SUFFICES ASSUME NEW x \in Compute, x \notin troubled'
             PROVE  main'[x].link # "stale" /\ (~main'[x].static => Dynamic(x)')
    BY DEF Sane
<1>1. \A t \in Users(x) : Same(t)
    BY TaskFacts DEF Same
<1>2. Alike(main[x], main'[x])
  <2>1. CASE main' = main
      BY <2>1 DEF Alike
  <2>2. ASSUME NEW S, Sent(c, S) PROVE Alike(main[x], main'[x])
    <3>1. /\ \A y \in Compute \ {c} : main'[y] = main[y]
          /\ Cut(main[c], main'[c])
          /\ main[c].link = "up" => main' = main
          /\ main[c].link # "up" => main'[c].link = "down"
        BY <2>2, SentFacts
    <3>2. main[x].link # "stale" /\ main[x].link \in {"down", "up", "stale"}
        BY Links DEF Sane, Sound, Typed
    <3> QED
        BY <3>1, <3>2 DEF Alike, Cut
  <2> QED
      BY <2>1, <2>2
<1> QED
    BY <1>1, <1>2, FrameSane

LEMMA HandleAddCgroupSane ==
    ASSUME Sound, Sane, NEW c \in Compute, HandleAddCgroup(c)
    PROVE  Sane'
<1>1. UNCHANGED groups /\ (Dies \/ UNCHANGED <<main, phase, own, task, troubled, shared>>)
    BY DEF HandleAddCgroup
<1> QED
    BY <1>1, DiesSane, CgroupsSane

LEMMA HandleRemoveCgroupsSane ==
    ASSUME Sound, Sane, NEW c \in Compute, HandleRemoveCgroups(c) \/ HandleRemoveAllCgroups(c)
    PROVE  Sane'
<1>1. (\E S : Sent(c, S)) /\ UNCHANGED <<phase, own, task, troubled, shared>>
    BY DEF HandleRemoveCgroups, HandleRemoveAllCgroups, RemovesAll
<1> QED
    BY <1>1, CgroupsSane

LEMMA HandleAddComputeSane ==
    ASSUME Sound, Sane, NEW c \in Compute, HandleAddCompute(c)
    PROVE  Sane'
<1> DEFINE new == Precondition(Fresh(TRUE))
<1>1. /\ new \in Umbilical /\ new.static /\ new.link = "down" /\ main[c].st = "None"
      /\ UNCHANGED <<phase, own, shared>>
    BY NewUmbilicals DEF HandleAddCompute, Sound, Grounded
<1> HIDE DEF new
<1>2. CASE UNCHANGED <<main, task, dangling, troubled>>
    BY <1>1, <1>2, CgroupsSane
<1>3. CASE task' = [task EXCEPT ![c] = "await"] /\ AddUmbilical(c, new)
  <2>1. /\ \A x \in Compute \ troubled' :
             main[x].st # "None" \/ x # c => Alike(main[x], main'[x])
        /\ main'[c] = new /\ troubled \subseteq troubled'
      BY <1>1, <1>3, AddFacts
  <2>2. \A t \in Subsystem : \A w \in Tasks(t) : task'[w] = task[w]
      BY <1>3, TaskFacts DEF Sound, Typed
  <2>3. \A t \in Subsystem : Same(t)
      BY <1>1, <2>2 DEF Same
  <2> SUFFICES ASSUME NEW x \in Compute, x \notin troubled'
               PROVE  main'[x].link # "stale" /\ (~main'[x].static => Dynamic(x)')
      BY DEF Sane
  <2>4. CASE x = c
      BY <1>1, <2>1, <2>4
  <2>5. CASE x # c
    <3>1. Alike(main[x], main'[x]) /\ \A t \in Users(x) : Same(t)
        BY <2>1, <2>3, <2>5, TaskFacts
    <3> QED
        BY <1>1, <2>1, <3>1, FrameSane
  <2> QED
      BY <2>4, <2>5
<1> QED
    BY <1>2, <1>3 DEF HandleAddCompute, new

\* An umbilical is new: nobody holds a reference to it yet.
LEMMA NewSane ==
    ASSUME Sane, NEW c \in Compute, c \notin troubled', ~main[c].static, ~IsConnected(c),
           troubled \subseteq troubled', shared \subseteq shared', \A t \in Users(c) : Same(t),
           main'[c].st \in {"None", "Closed"}, main'[c].refs = 0
    PROVE  Dynamic(c)'
<1>1. Dynamic(c)
    BY DEF Sane
<1>2. /\ Holders(c) \subseteq Users(c) /\ Holders(c)' \subseteq Users(c) /\ Users(c)' = Users(c)
      /\ \A t \in Users(c) : t \in Subsystem
    BY TaskFacts DEF Holders, Users
<1>3. \A t \in Users(c) : /\ Orderly(t)' <=> Orderly(t)
                          /\ Unused(t)' <=> Unused(t)
                          /\ Past(t)' <=> Past(t)
                          /\ t \in Holders(c)' <=> t \in Holders(c)
    BY <1>2, SameFacts
<1>4. Holders(c)' = Holders(c)
    BY <1>2, <1>3, Zenon
<1>5. Cardinality(Holders(c)) \in Nat
    BY <1>1, FS_CardinalityType DEF Dynamic, Counted
<1>6. Counted(c)'
    BY <1>1, <1>4, <1>5 DEF Dynamic, Counted
<1>7. ASSUME c \notin shared' PROVE Lone(c)'
  <2>1. Lone(c)
      BY <1>1, <1>7 DEF Dynamic
  <2> QED
      BY <1>2, <1>3, <2>1 DEF Lone
<1>8. \A t \in Users(c)' : Orderly(t)'
    BY <1>1, <1>2, <1>3 DEF Dynamic
<1> QED
    BY <1>6, <1>7, <1>8 DEF Dynamic

LEMMA AddSane ==
    ASSUME Sound, Sane, NEW s \in Subsystem, AddUmbilical(Home[s], Fresh(FALSE)),
           UNCHANGED <<own, task, shared>>,
           phase' = phase \/ (phase' = [phase EXCEPT ![s] = "offline"] /\ phase[s] = "none")
    PROVE  Sane'
<1> DEFINE c == Home[s]
           new == Fresh(FALSE)
<1>1. /\ new \in Umbilical /\ new.st = "Closed" /\ new.refs = 0 /\ new.link = "down"
      /\ c \in Compute
    BY NewUmbilicals, Workers
<1>2. /\ \A x \in Compute \ troubled' :
           main[x].st # "None" \/ x # c => Alike(main[x], main'[x])
      /\ main[c].st = "None" => main'[c] = new
      /\ troubled \subseteq troubled'
    BY <1>1, AddFacts
<1> HIDE DEF new
<1>3. \A t \in Subsystem : Same(t)
    BY DEF Same, Sound, Typed
<1> SUFFICES ASSUME NEW x \in Compute, x \notin troubled'
             PROVE  main'[x].link # "stale" /\ (~main'[x].static => Dynamic(x)')
    BY DEF Sane
<1>4. \A t \in Users(x) : Same(t)
    BY <1>3, TaskFacts
<1>5. CASE main[x].st # "None" \/ x # c
    BY <1>2, <1>4, <1>5, FrameSane
<1>6. CASE main[x].st = "None" /\ x = c
  <2>1. ~main[x].static /\ ~IsConnected(x)
      BY <1>6 DEF Sound, Joined, IsConnected
  <2> QED
      BY <1>1, <1>2, <1>4, <1>6, <2>1, NewSane
<1> QED
    BY <1>5, <1>6

LEMMA HandleRemoveSubsystemSane ==
    ASSUME Sound, Sane, NEW s \in Subsystem, HandleRemoveSubsystem(s)
    PROVE  Sane'
<1> DEFINE c == Home[s]
<1>1. /\ phase' = [phase EXCEPT ![s] = "none"] /\ phase[s] = "offline" /\ RemoveUmbilical(c)
      /\ UNCHANGED <<own, task, shared>> /\ c \in Compute
    BY Workers DEF HandleRemoveSubsystem
<1>2. /\ \A x \in Compute \ {c} : main'[x] = main[x]
      /\ \/ Alike(main[c], main'[c])
         \/ /\ main'[c] = NoUmbilical /\ ~main[c].static
            /\ c \notin troubled' => \A t \in Users(c) : Unused(t)
      /\ troubled \subseteq troubled'
    BY <1>1, RemoveFacts
<1>3. \A t \in Subsystem : Same(t)
    BY <1>1 DEF Same, Sound, Typed
<1> SUFFICES ASSUME NEW x \in Compute, x \notin troubled'
             PROVE  main'[x].link # "stale" /\ (~main'[x].static => Dynamic(x)')
    BY DEF Sane
<1>4. \A t \in Users(x) : Same(t)
    BY <1>3, TaskFacts
<1>5. CASE Alike(main[x], main'[x])
    BY <1>1, <1>2, <1>4, <1>5, FrameSane
<1>6. CASE /\ x = c /\ main'[c] = NoUmbilical /\ ~main[c].static
           /\ c \notin troubled' => \A t \in Users(c) : Unused(t)
  <2>1. \A t \in Users(c) : Unused(t) /\ ~Past(t) /\ Orderly(t) /\ Unused(t)' /\ ~Past(t)' /\ Orderly(t)'
    <3>1. \A t \in Users(c) : Unused(t) /\ Orderly(t)
        BY <1>2, <1>6 DEF Sane, Dynamic
    <3>2. \A t \in Users(c) : ~Past(t)
        BY <3>1 DEF Past, Unused
    <3> QED
        BY <1>4, <1>6, <3>1, <3>2, SameFacts, TaskFacts
  <2>2. Users(c)' = Users(c)
      BY DEF Users
  <2>3. Holders(c)' = {}
    <3>1. \A t \in Users(c) : phase'[t] \in {"none", "offline"}
        BY <2>1 DEF Unused
    <3> QED
        BY <2>2, <3>1 DEF Holders
  <2>4. Counted(c)'
    <3>1. IsFiniteSet(Holders(c)') /\ Cardinality(Holders(c)') = 0
        BY <2>3, FS_EmptySet
    <3> QED
        BY <1>6, <3>1, NewUmbilicals DEF Counted
  <2>5. Lone(c)'
      BY <2>1, <2>2 DEF Lone
  <2> QED
      BY <1>6, <2>1, <2>2, <2>4, <2>5, NewUmbilicals DEF Dynamic
<1> QED
    BY <1>2, <1>5, <1>6 DEF Alike

\* One step of Next, each action by its lemma.
LEMMA NextSane == Sound /\ Sane /\ [Next]_vars => Sane'
<1> SUFFICES ASSUME Sound, Sane, [Next]_vars PROVE Sane'
    OBVIOUS
<1>1. ASSUME NEW c \in Compute,
             \/ HandleAddCompute(c) \/ HandleAddCgroup(c) \/ HandleRemoveCgroups(c)
             \/ HandleRemoveAllCgroups(c) \/ StageZeroRestarts(c)
      PROVE  Sane'
    BY <1>1, HandleAddComputeSane, HandleAddCgroupSane, HandleRemoveCgroupsSane,
       StageZeroRestartsSane
<1>2. ASSUME NEW s \in Subsystem, HandleAddSubsystem(s) \/ HandleAddSubsystemFails(s)
      PROVE  Sane'
    BY <1>2, AddSane DEF HandleAddSubsystem, HandleAddSubsystemFails
<1>3. ASSUME NEW s \in Subsystem,
             HandleRemoveSubsystem(s) \/ GoesOnline(s) \/ Stop(s) \/ Loses(s)
      PROVE  Sane'
    BY <1>3, HandleRemoveSubsystemSane, GoesOnlineSane, StopSane, LosesSane
<1>4. ASSUME NEW s \in Subsystem, NEW k \in 1..MaxTasks, Start(s, k) \/ Works(s, k)
      PROVE  Sane'
    BY <1>4, StartSane, ConnectUmbilicalSane, OwnConnectsSane DEF Works
<1>5. ASSUME NEW w \in Worker, Awaits(w)
      PROVE  Sane'
    BY <1>5, UmbilicalConnectedSane, UmbilicalRefusedSane, UmbilicalFailsSane,
       UmbilicalGoneSane DEF Awaits
<1>6. CASE CapcomRestarts
    BY <1>6, DiesSane DEF CapcomRestarts
<1>7. CASE UNCHANGED vars
  <2>1. CASE Compute = {}
      BY <2>1 DEF Sane
  <2>2. ASSUME NEW c \in Compute PROVE Sane'
      BY <1>7, CgroupsSane DEF vars
  <2> QED
      BY <2>1, <2>2
<1> QED
    BY <1>1, <1>2, <1>3, <1>4, <1>5, <1>6, <1>7 DEF Next

\* References are counted as far as nothing has gone wrong with an umbilical.
THEOREM CountsReferences == Spec => [](Sound /\ Sane)
<1>1. Init => Sound /\ Sane
    BY InitBlank, BlankSound, BlankSane
<1>2. Sound /\ Sane /\ [Next]_vars => Sound' /\ Sane'
    BY NextSound, NextSane
<1> QED
    BY <1>1, <1>2, PTL DEF Spec

\* Subsystems that come and go in any order, with any number of processes and
\* of coroutines, do not leave a dynamic umbilical open when none of them is in
\* use, unless a connection has gone wrong.
THEOREM ClosesWhenUnused == Spec => []ClosedWhenUnused
<1>1. ASSUME Sound, Sane, NEW c \in Compute \ troubled, ~main[c].static,
             \A s \in Users(c) : Unused(s)
      PROVE  main[c].st \in {"None", "Closed"} /\ main[c].link = "down"
  <2>1. Holders(c) = {}
      BY <1>1 DEF Holders, Unused
  <2>2. main[c].st \notin {"Connecting", "Connected"}
      BY <1>1, <2>1 DEF Sane, Dynamic, Counted
  <2>3. main[c] \in Umbilical
      BY <1>1 DEF Sound, Typed
  <2>4. main[c].st \in {"None", "Closed"}
      BY <2>2, <2>3, Links
  <2> QED
      BY <1>1, <2>4 DEF Sound, Joined
<1>2. Sound /\ Sane => ClosedWhenUnused
    BY <1>1 DEF ClosedWhenUnused
<1> QED
    BY <1>2, CountsReferences, PTL

\* A subsystem that has had a dynamic compute for itself runs with a connected
\* main umbilical, unless the umbilical has failed or was taken away.
THEOREM ServesAlone == Spec => []ServedAlone
<1>1. ASSUME Sane, NEW s \in Subsystem, phase[s] = "online", ~main[Home[s]].static,
             Home[s] \notin troubled \cup shared
      PROVE  IsConnected(Home[s])
  <2>1. Home[s] \in Compute /\ s \in Users(Home[s])
      BY Workers
  <2>2. Orderly(s) /\ Lone(Home[s])
      BY <1>1, <2>1 DEF Sane, Dynamic
  <2>3. Past(s)
      BY <1>1, <2>2 DEF Orderly, Past
  <2> QED
      BY <2>1, <2>2, <2>3 DEF Lone
<1>2. Sane => ServedAlone
    BY <1>1 DEF ServedAlone
<1> QED
    BY <1>2, CountsReferences, PTL

=============================================================================
