---------------------------- MODULE EventsProofs ----------------------------
(***************************************************************************)
(* Proofs about the event channels of FlightDirector.  What a client holds *)
(* (Held) is what it has read, then its socket, then the hand and queue of *)
(* its sender: reading, taking and sending move an event along and leave   *)
(* Held as it is, only opening the channel and an event of Capcom add to   *)
(* it.  The first adds what the cache keeps, which are the last events of  *)
(* Capcom without a gap (Recent), and to nothing (Unopened).               *)
(***************************************************************************)
EXTENDS Events, WellFoundedInduction, SequenceTheorems, TLAPS

\* The cache is the end of what Capcom has sent.
Recent ==
    /\ Len(cache) <= Len(events)
    /\ \A i \in 1..Len(cache) : cache[i] = Len(events) - Len(cache) + i

\* A client whose channel was never open is sent nothing.
Unopened ==
    \A c \in Client : handler[c] \in {"none", "new", "init"} =>
        /\ sender[c] = "none" /\ hand[c] = 0
        /\ queue[c] = <<>> /\ wire[c] = <<>> /\ got[c] = <<>>

Histories ==
    /\ got \in [Client -> Seq(1..Len(events))] /\ first \in [Client -> Nat]
    /\ \A c \in Client : Listens(c) => first[c] >= 1

\* What NoneMissed says of one client.
Ordered(q) == \A i, j \in DOMAIN q : i < j => q[i] < q[j]
NoGap(c) == \A n \in first[c]..Len(events) : IsMaskedIn(n, c) => Contains(Held(c), n)

EInv == TypeOK /\ Recent /\ Unopened /\ Histories /\ NoneMissed

LEMMA MissesNone ==
    NoneMissed <=> \A d \in Client : Listens(d) => Ordered(Held(d)) /\ NoGap(d)
BY DEF NoneMissed, Ordered, NoGap

-----------------------------------------------------------------------------
(* Induction up to a bound, over a set of numbers.                         *)

\* A set that holds 0, and n whenever it holds n - 1, holds all up to the bound.
LEMMA UpTo ==
    ASSUME NEW n \in Nat, NEW S, 0 \in S, \A k \in 1..n : k - 1 \in S => k \in S
    PROVE  0..n \subseteq S
<1> SUFFICES ASSUME (0..n) \ S # {} PROVE FALSE
    OBVIOUS
<1> DEFINE T == (0..n) \ S
           R == OpToRel(<, Nat)
<1>1. T \subseteq Nat /\ T # {}
    OBVIOUS
<1>2. IsWellFoundedOn(R, Nat)
    BY NatLessThanWellFounded, Zenon
<1>3. \A k, m \in Nat : k < m => <<k, m>> \in R
    BY DEF OpToRel
<1> HIDE DEF T, R
<1>4. PICK m \in T : \A k \in T : <<k, m>> \notin R
    BY <1>1, <1>2, WFMin
<1> USE DEF T
<1>5. m \in 1..n
    BY <1>4
<1>6. m - 1 \in T
    BY <1>4, <1>5
<1>7. m - 1 \in Nat /\ m \in Nat /\ m - 1 < m
    BY <1>5
<1> QED
    BY <1>3, <1>4, <1>6, <1>7

-----------------------------------------------------------------------------
(* What DumpEventCache queues.                                             *)

\* The step of its loop, and the loop as a function of the length dumped.
Picked(q, i, c, X) == IF IsMaskedIn(q[i], c) THEN Append(X, q[i]) ELSE X

LEMMA DumpedInOrder ==
    ASSUME TypeOK, Recent, NEW c \in Client
    PROVE  /\ Dumped(c) \in Seq(1..Len(events)) /\ Ordered(Dumped(c))
           /\ \A n \in 1..Len(events) :
                n > Len(events) - Len(cache) /\ IsMaskedIn(n, c) => Contains(Dumped(c), n)
<1>a. Len(cache) \in Nat
    BY LenProperties DEF TypeOK
<1>b. SUFFICES ASSUME NEW N \in Nat, N = Len(cache)
                PROVE  /\ Dumped(c) \in Seq(1..Len(events)) /\ Ordered(Dumped(c))
                       /\ \A n \in 1..Len(events) :
                            n > Len(events) - N /\ IsMaskedIn(n, c) => Contains(Dumped(c), n)
    BY <1>a
<1> DEFINE Is(f, m) == f = [i \in 0..m |-> IF i = 0 THEN <<>> ELSE Picked(cache, i, c, f[i - 1])]
           From[i \in 0..N] == IF i = 0 THEN <<>> ELSE Picked(cache, i, c, From[i - 1])
<1>0. N \in Nat /\ Len(events) \in Nat
    BY <1>b, LenProperties DEF TypeOK
<1>c. \A i \in 1..N : cache[i] \in 1..Len(events)
    BY <1>b, LenProperties DEF TypeOK
<1>1. Dumped(c) = From[N]
    BY <1>b DEF Dumped, Picked
<1>2. \E f : Is(f, N)
  <2> DEFINE S == {m \in 0..N : \E f : Is(f, m)}
  <2>1. 0 \in S
    <3> DEFINE f == [k \in 0..0 |-> <<>>]
    <3>1. f = [k \in 0..0 |-> IF k = 0 THEN <<>> ELSE Picked(cache, k, c, f[k - 1])]
        OBVIOUS
    <3>2. 0 \in 0..N
        BY <1>0
    <3> QED
        BY <3>1, <3>2, Zenon
  <2>2. ASSUME NEW m \in 1..N, m - 1 \in S PROVE m \in S
    <3>1. PICK f : Is(f, m - 1)
        BY <2>2
    <3> DEFINE g == [k \in 0..m |-> IF k = 0 THEN <<>> ELSE Picked(cache, k, c, f[k - 1])]
    <3>2. \A k \in 0..(m - 1) : k \in 0..m
        BY <1>0
    <3>3. \A k \in 0..(m - 1) : f[k] = g[k]
        BY <3>1, <3>2
    <3>4. \A k \in 0..m : k # 0 => f[k - 1] = g[k - 1]
      <4> HIDE DEF g
      <4>1. \A k \in 0..m : k # 0 => k - 1 \in 0..(m - 1)
          BY <1>0
      <4> QED
          BY <3>3, <4>1
    <3>5. g = [k \in 0..m |-> IF k = 0 THEN <<>> ELSE Picked(cache, k, c, g[k - 1])]
      <4> DEFINE h == [k \in 0..m |-> IF k = 0 THEN <<>> ELSE Picked(cache, k, c, g[k - 1])]
      <4>1. \A k \in 0..m : g[k] = h[k]
          BY <3>4
      <4> QED
          BY <4>1
    <3>6. m \in 0..N
        BY <1>0
    <3> HIDE DEF g
    <3> QED
        BY <3>5, <3>6
  <2> HIDE DEF S
  <2>3. 0..N \subseteq S
      BY <1>0, <2>1, <2>2, UpTo
  <2> QED
      BY <1>0, <2>3, SMTT(30) DEF S
<1>3. Is(From, N)
    BY <1>2, Zenon DEF From
<1> HIDE DEF From
<1> DEFINE Base == Len(events) - N
           Good(q, m) ==
               /\ q \in Seq(1..Len(events)) /\ Ordered(q)
               /\ \A i \in 1..Len(q) : q[i] <= Base + m
               /\ \A n \in 1..Len(events) :
                    n > Base /\ n <= Base + m /\ IsMaskedIn(n, c) => Contains(q, n)
           T == {m \in 0..N : Good(From[m], m)}
<1>4. 0 \in T
  <2>1. From[0] = <<>> /\ 0 \in 0..N
      BY <1>0, <1>3
  <2>2. <<>> \in Seq(1..Len(events)) /\ Len(<<>>) = 0 /\ DOMAIN <<>> = {}
      OBVIOUS
  <2>3. Good(<<>>, 0)
      BY <1>0, <2>2 DEF Ordered
  <2> QED
      BY <2>1, <2>3
<1>5. ASSUME NEW m \in 1..N, m - 1 \in T PROVE m \in T
  <2> DEFINE q == From[m - 1]
             x == cache[m]
  <2>1. From[m] = IF IsMaskedIn(x, c) THEN Append(q, x) ELSE q
    <3>1. m \in 0..N /\ m # 0
        BY <1>0
    <3>2. From[m] = Picked(cache, m, c, q)
        BY <1>3, <3>1
    <3> QED
        BY <3>2 DEF Picked
  <2>2. Good(q, m - 1)
      BY <1>5
  <2>3. x = Base + m /\ x \in 1..Len(events)
      BY <1>0, <1>b, <1>c DEF Recent
  <2> HIDE DEF q, x
  <2>4. /\ q \in Seq(1..Len(events)) /\ Ordered(q)
        /\ \A i \in 1..Len(q) : q[i] <= Base + m - 1 /\ q[i] \in Int
        /\ Len(q) \in Nat /\ DOMAIN q = 1..Len(q)
      BY <1>0, <2>2
  <2>5. Base \in Int /\ m \in 0..N
      BY <1>0
  <2>6. CASE IsMaskedIn(x, c)
    <3> DEFINE r == Append(q, x)
    <3>1. /\ r \in Seq(1..Len(events)) /\ Len(r) = Len(q) + 1 /\ DOMAIN r = 1..Len(q) + 1
          /\ \A i \in 1..Len(q) : r[i] = q[i]
          /\ r[Len(q) + 1] = x
        BY <2>3, <2>4, AppendProperties, LenProperties
    <3> HIDE DEF r
    <3>2. Ordered(r)
      <4> SUFFICES ASSUME NEW i \in 1..Len(q) + 1, NEW j \in 1..Len(q) + 1, i < j
                   PROVE  r[i] < r[j]
          BY <3>1 DEF Ordered
      <4>1. i \in 1..Len(q) /\ r[i] = q[i]
          BY <2>4, <3>1, SMTT(30)
      <4>2. CASE j = Len(q) + 1
          BY <2>3, <2>4, <2>5, <3>1, <4>1, <4>2
      <4>3. CASE j # Len(q) + 1
        <5>1. j \in 1..Len(q)
            BY <2>4, <4>3
        <5> QED
            BY <2>4, <3>1, <4>1, <5>1 DEF Ordered
      <4> QED
          BY <4>2, <4>3
    <3>3. \A i \in 1..Len(r) : r[i] <= Base + m
      <4> TAKE i \in 1..Len(r)
      <4>1. i \in 1..Len(q) \/ i = Len(q) + 1
          BY <2>4, <3>1
      <4> QED
          BY <2>3, <2>4, <2>5, <3>1, <4>1
    <3>4. ASSUME NEW n \in 1..Len(events), n > Base, n <= Base + m, IsMaskedIn(n, c)
          PROVE  Contains(r, n)
      <4>1. CASE n = Base + m
        <5>1. r[Len(r)] = n /\ Len(r) \in 1..Len(r)
            BY <2>3, <2>4, <3>1, <4>1
        <5> QED
            BY <5>1 DEF Contains
      <4>2. CASE n # Base + m
        <5>1. n <= Base + (m - 1)
          <6>1. n <= Base + m /\ n \in Int /\ m \in Int
              BY <3>4
          <6> QED
              BY <2>5, <4>2, <6>1
        <5>2. Contains(q, n)
            BY <2>2, <3>4, <5>1
        <5> QED
            BY <2>4, <3>1, <5>2 DEF Contains
      <4> QED
          BY <4>1, <4>2
    <3> QED
        BY <2>1, <2>5, <2>6, <3>1, <3>2, <3>3, <3>4 DEF r
  <2>7. CASE ~IsMaskedIn(x, c)
    <3>1. From[m] = q
        BY <2>1, <2>7
    <3>2. ASSUME NEW n \in 1..Len(events), n > Base, n <= Base + m, IsMaskedIn(n, c)
          PROVE  Contains(q, n)
      <4>1. n # x
          BY <2>7, <3>2
      <4>2. n <= Base + (m - 1)
          BY <1>0, <2>3, <2>5, <3>2, <4>1
      <4> QED
          BY <2>2, <3>2, <4>2
    <3>3. \A i \in 1..Len(q) : q[i] <= Base + m
        BY <2>4, <2>5
    <3> QED
        BY <2>4, <2>5, <3>1, <3>2, <3>3
  <2> QED
      BY <2>6, <2>7
<1> HIDE DEF T
<1>6. 0..N \subseteq T
    BY <1>0, <1>4, <1>5, UpTo
<1>7. Good(From[N], N)
    BY <1>0, <1>6 DEF T
<1>8. \A n \in 1..Len(events) : n <= Base + N
    BY <1>0
<1> QED
    BY <1>1, <1>7, <1>8, <1>b

-----------------------------------------------------------------------------
(* What a client holds.                                                    *)

Hand(c) == IF hand[c] = 0 THEN <<>> ELSE <<hand[c]>>

LEMMA Parts ==
    ASSUME TypeOK, Histories, NEW c \in Client
    PROVE  /\ Len(events) \in Nat
           /\ got[c] \in Seq(1..Len(events)) /\ wire[c] \in Seq(1..Len(events))
           /\ Hand(c) \in Seq(1..Len(events)) /\ queue[c] \in Seq(1..Len(events))
           /\ got[c] \o wire[c] \in Seq(1..Len(events))
           /\ Held(c) = ((got[c] \o wire[c]) \o Hand(c)) \o queue[c]
           /\ Held(c) \in Seq(1..Len(events))
<1>1. /\ Len(events) \in Nat
      /\ got[c] \in Seq(1..Len(events)) /\ wire[c] \in Seq(1..Len(events))
      /\ queue[c] \in Seq(1..Len(events)) /\ hand[c] \in 0..Len(events)
    BY LenProperties DEF TypeOK, Histories
<1>2. Hand(c) \in Seq(1..Len(events))
  <2>1. CASE hand[c] = 0
      BY <2>1, EmptySeq DEF Hand
  <2>2. CASE hand[c] # 0
    <3>1. hand[c] \in 1..Len(events)
        BY <1>1, <2>2
    <3>2. <<hand[c]>> \in Seq(1..Len(events))
        BY <3>1
    <3> QED
        BY <2>2, <3>2 DEF Hand
  <2> QED
      BY <2>1, <2>2
<1>3. Held(c) = ((got[c] \o wire[c]) \o Hand(c)) \o queue[c]
    BY DEF Held, Hand
<1>4. got[c] \o wire[c] \in Seq(1..Len(events))
    BY <1>1, ConcatProperties
<1>5. (got[c] \o wire[c]) \o Hand(c) \in Seq(1..Len(events))
    BY <1>2, <1>4, ConcatProperties
<1>6. Held(c) \in Seq(1..Len(events))
    BY <1>1, <1>3, <1>5, ConcatProperties
<1> QED
    BY <1>1, <1>2, <1>3, <1>4, <1>6

\* The first of q, moved to the end of p.
LEMMA Moved ==
    ASSUME NEW S, NEW p \in Seq(S), NEW q \in Seq(S), q # <<>>
    PROVE  /\ Append(p, Head(q)) \o Tail(q) = p \o q
           /\ <<Head(q)>> \o Tail(q) = q
           /\ Head(q) \in S /\ Tail(q) \in Seq(S)
<1>1. /\ Head(q) \in S /\ Head(q) = q[1] /\ Tail(q) \in Seq(S) /\ Len(Tail(q)) = Len(q) - 1
      /\ \A i \in 1..Len(q) - 1 : Tail(q)[i] = q[i + 1]
      /\ Len(q) \in Nat \ {0}
    BY HeadTailProperties, EmptySeq
<1> DEFINE x == Head(q)
           t == Tail(q)
<1>2. <<x>> \in Seq(S) /\ Len(<<x>>) = 1 /\ <<x>>[1] = x
    BY <1>1
<1> HIDE DEF x, t
<1>3. <<x>> \o t = q
  <2>1. /\ <<x>> \o t \in Seq(S) /\ Len(<<x>> \o t) = 1 + Len(t)
        /\ \A i \in 1..1 + Len(t) : (<<x>> \o t)[i] = IF i <= 1 THEN <<x>>[i] ELSE t[i - 1]
      BY <1>1, <1>2, ConcatProperties DEF t
  <2>2. Len(t) = Len(q) - 1
      BY <1>1 DEF t
  <2>3. ASSUME NEW i \in 1..Len(q) PROVE (<<x>> \o t)[i] = q[i]
    <3>1. CASE i = 1
        BY <1>1, <1>2, <2>1, <2>2, <3>1 DEF x
    <3>2. CASE i # 1
      <4>1. i - 1 \in 1..Len(q) - 1 /\ ~(i <= 1) /\ i \in 1..1 + Len(t)
          BY <1>1, <2>2, <3>2
      <4>2. t[i - 1] = q[(i - 1) + 1] /\ (i - 1) + 1 = i
          BY <1>1, <4>1 DEF t
      <4> QED
          BY <2>1, <4>1, <4>2
    <3> QED
        BY <3>1, <3>2
  <2>4. Len(<<x>> \o t) = Len(q)
    <3>1. Len(q) \in Nat /\ 1 + (Len(q) - 1) = Len(q)
        BY <1>1
    <3> QED
        BY <2>1, <2>2, <3>1
  <2> QED
      BY <2>1, <2>3, <2>4, SeqEqual
<1>4. Append(p, x) = p \o <<x>>
    BY <1>1, AppendIsConcat DEF x
<1>5. (p \o <<x>>) \o t = p \o (<<x>> \o t)
    BY <1>1, <1>2, ConcatAssociative, SMTT(30) DEF t
<1> QED
    BY <1>1, <1>3, <1>4, <1>5 DEF x, t

\* A step that moves events along.
LEMMA StillHeard ==
    ASSUME NoneMissed, Histories, events' = events,
           \A c \in Client : Listens(c)' =>
                Listens(c) /\ Held(c)' = Held(c) /\ first'[c] = first[c]
    PROVE  NoneMissed' /\ \A c \in Client : Listens(c)' => first'[c] >= 1
<1>0. NoneMissed' <=> (\A d \in Client : Listens(d) => Ordered(Held(d)) /\ NoGap(d))'
    BY MissesNone, PTL
<1>1. SUFFICES ASSUME NEW c \in Client, Listens(c)'
               PROVE  Ordered(Held(c))' /\ NoGap(c)' /\ first'[c] >= 1
    BY <1>0
<1>2. Listens(c) /\ Held(c)' = Held(c) /\ first'[c] = first[c]
    BY <1>1
<1>3. Ordered(Held(c)) /\ NoGap(c) /\ first[c] >= 1
    BY <1>2, MissesNone DEF Histories
<1> QED
    BY <1>2, <1>3 DEF Ordered, NoGap, IsMaskedIn

-----------------------------------------------------------------------------
(* The steps that leave what a listening client holds as it is.            *)

\* A client connects.
LEMMA Comes ==
    ASSUME EInv, NEW c \in Client, HandleIncomingConnection(c)
    PROVE  EInv'
<1>1. TypeOK /\ Recent /\ Unopened /\ Histories /\ NoneMissed
    BY DEF EInv
<1>2. TypeOK'
    BY <1>1 DEF TypeOK, HandleIncomingConnection, flight
<1>3. Recent' /\ events' = events
    BY <1>1 DEF Recent, HandleIncomingConnection, flight
<1>4. Unopened'
    BY <1>1 DEF Unopened, TypeOK, HandleIncomingConnection, flight
<1>5. ASSUME NEW d \in Client, Listens(d)'
      PROVE  Listens(d) /\ Held(d)' = Held(d) /\ first'[d] = first[d]
    BY <1>1, <1>5 DEF Listens, Held, TypeOK, Histories, HandleIncomingConnection, flight
<1>6. NoneMissed' /\ \A d \in Client : Listens(d)' => first'[d] >= 1
    BY <1>1, <1>3, <1>5, StillHeard
<1>7. Histories'
    BY <1>1, <1>6 DEF Histories, TypeOK, HandleIncomingConnection, flight
<1> QED
    BY <1>2, <1>3, <1>4, <1>6, <1>7 DEF EInv

\* A client says Init.
LEMMA Says ==
    ASSUME EInv, NEW c \in Client, HandleInit(c)
    PROVE  EInv'
<1>1. TypeOK /\ Recent /\ Unopened /\ Histories /\ NoneMissed
    BY DEF EInv
<1>2. TypeOK'
    BY <1>1 DEF TypeOK, HandleInit, flight
<1>3. Recent' /\ events' = events
    BY <1>1 DEF Recent, HandleInit, flight
<1>4. Unopened'
    BY <1>1 DEF Unopened, TypeOK, HandleInit, flight
<1>5. ASSUME NEW d \in Client, Listens(d)'
      PROVE  Listens(d) /\ Held(d)' = Held(d) /\ first'[d] = first[d]
    BY <1>1, <1>5 DEF Listens, Held, TypeOK, Histories, HandleInit, flight
<1>6. NoneMissed' /\ \A d \in Client : Listens(d)' => first'[d] >= 1
    BY <1>1, <1>3, <1>5, StillHeard
<1>7. Histories'
    BY <1>1, <1>6 DEF Histories, TypeOK, HandleInit, flight
<1> QED
    BY <1>2, <1>3, <1>4, <1>6, <1>7 DEF EInv

\* A client leaves, and listens no more.
LEMMA Leaves ==
    ASSUME EInv, NEW c \in Client, Closes(c)
    PROVE  EInv'
<1>1. TypeOK /\ Recent /\ Unopened /\ Histories /\ NoneMissed
    BY DEF EInv
<1>0. <<>> \in Seq(1..Len(events)) /\ Len(<<>>) = 0 /\ Room \in Nat
    BY EmptySeq, EventsAssumption DEF EventsAssumption
<1>2. TypeOK'
    BY <1>0, <1>1 DEF TypeOK, Closes, flight
<1>3. Recent' /\ events' = events
    BY <1>1 DEF Recent, Closes, flight
<1>4. Unopened'
    BY <1>1 DEF Unopened, TypeOK, Closes, flight
<1>5. ASSUME NEW d \in Client, Listens(d)'
      PROVE  Listens(d) /\ Held(d)' = Held(d) /\ first'[d] = first[d]
    BY <1>1, <1>5 DEF Listens, Held, TypeOK, Histories, Closes, flight
<1>6. NoneMissed' /\ \A d \in Client : Listens(d)' => first'[d] >= 1
    BY <1>1, <1>3, <1>5, StillHeard
<1>7. Histories'
    BY <1>1, <1>6 DEF Histories, TypeOK, Closes, flight
<1> QED
    BY <1>2, <1>3, <1>4, <1>6, <1>7 DEF EInv

\* A handler ends, and its client listens no more.
LEMMA IsForgotten ==
    ASSUME EInv, NEW c \in Client, RunEnds(c)
    PROVE  EInv'
<1>1. TypeOK /\ Recent /\ Unopened /\ Histories /\ NoneMissed
    BY DEF EInv
<1>0. <<>> \in Seq(1..Len(events)) /\ Len(<<>>) = 0 /\ Room \in Nat
    BY EmptySeq, EventsAssumption DEF EventsAssumption
<1>2. TypeOK'
    BY <1>0, <1>1 DEF TypeOK, RunEnds, Destroyed, client_handlers, flight
<1>3. Recent' /\ events' = events
    BY <1>1 DEF Recent, RunEnds, Destroyed, client_handlers, flight
<1>4. Unopened'
    BY <1>1 DEF Unopened, TypeOK, RunEnds, Destroyed, client_handlers, flight
<1>5. ASSUME NEW d \in Client, Listens(d)'
      PROVE  Listens(d) /\ Held(d)' = Held(d) /\ first'[d] = first[d]
    BY <1>1, <1>5 DEF Listens, Held, TypeOK, Histories, RunEnds, Destroyed, client_handlers, flight
<1>6. NoneMissed' /\ \A d \in Client : Listens(d)' => first'[d] >= 1
    BY <1>1, <1>3, <1>5, StillHeard
<1>7. Histories'
    BY <1>1, <1>6 DEF Histories, TypeOK, RunEnds, Destroyed, client_handlers, flight
<1> QED
    BY <1>2, <1>3, <1>4, <1>6, <1>7 DEF EInv

\* Capcom is gone.
LEMMA MonitorStops ==
    ASSUME EInv, MonitorEnds
    PROVE  EInv'
<1>1. TypeOK /\ Recent /\ Unopened /\ Histories /\ NoneMissed
    BY DEF EInv
<1>2. TypeOK'
    BY <1>1 DEF TypeOK, MonitorEnds, client_handlers
<1>3. Recent' /\ events' = events
    BY <1>1 DEF Recent, MonitorEnds, client_handlers
<1>4. Unopened'
    BY <1>1 DEF Unopened, TypeOK, MonitorEnds, client_handlers
<1>5. ASSUME NEW d \in Client, Listens(d)'
      PROVE  Listens(d) /\ Held(d)' = Held(d) /\ first'[d] = first[d]
    BY <1>1, <1>5 DEF Listens, Held, TypeOK, Histories, MonitorEnds, client_handlers
<1>6. NoneMissed' /\ \A d \in Client : Listens(d)' => first'[d] >= 1
    BY <1>1, <1>3, <1>5, StillHeard
<1>7. Histories'
    BY <1>1, <1>6 DEF Histories, TypeOK, MonitorEnds, client_handlers
<1> QED
    BY <1>2, <1>3, <1>4, <1>6, <1>7 DEF EInv

\* A sender wakes; the last to go destroys the handler.
LEMMA Wakens ==
    ASSUME EInv, NEW c \in Client, SenderWakes(c)
    PROVE  EInv'
<1>1. TypeOK /\ Recent /\ Unopened /\ Histories /\ NoneMissed
    BY DEF EInv
<1>0. <<>> \in Seq(1..Len(events)) /\ Len(<<>>) = 0 /\ Room \in Nat
    BY EmptySeq, EventsAssumption DEF EventsAssumption
<1>2. TypeOK'
  <2>1. UNCHANGED <<events, monitor, cache, handler, hand, wire, peer>>
      BY DEF SenderWakes, flight
  <2>2. PICK st \in {"flushing", "ended"} : sender' = [sender EXCEPT ![c] = st]
      BY DEF SenderWakes
  <2>3. /\ sender' \in [Client -> {"none", "waiting", "flushing", "sending", "ended"}]
        /\ \A d \in Client : hand'[d] # 0 <=> sender'[d] = "sending"
      BY <1>1, <2>1, <2>2 DEF TypeOK, SenderWakes
  <2>4. /\ queue' \in [Client -> Seq(1..Len(events))]
        /\ trigger' \in [Client -> BOOLEAN] /\ stop' \in [Client -> BOOLEAN]
    <3>1. \/ queue' = queue
          \/ queue' = [queue EXCEPT ![c] = <<>>]
        BY DEF SenderWakes, Destroyed
    <3>2. \/ trigger' = trigger
          \/ trigger' = [trigger EXCEPT ![c] = FALSE]
        BY DEF SenderWakes, Destroyed
    <3>3. \/ stop' = stop
          \/ stop' = [stop EXCEPT ![c] = FALSE]
        BY DEF SenderWakes, Destroyed
    <3>4. queue' \in [Client -> Seq(1..Len(events))]
        BY <1>0, <1>1, <3>1 DEF TypeOK
    <3> QED
        BY <1>1, <3>2, <3>3, <3>4 DEF TypeOK
  <2> QED
      BY <1>1, <2>1, <2>3, <2>4 DEF TypeOK
<1>3. Recent' /\ events' = events
    BY <1>1 DEF Recent, SenderWakes, Destroyed, flight
<1>4. Unopened'
    BY <1>1 DEF Unopened, TypeOK, SenderWakes, Destroyed, flight
<1>5. ASSUME NEW d \in Client, Listens(d)'
      PROVE  Listens(d) /\ Held(d)' = Held(d) /\ first'[d] = first[d]
    BY <1>1, <1>5 DEF Listens, Held, TypeOK, Histories, SenderWakes, Destroyed, flight
<1>6. NoneMissed' /\ \A d \in Client : Listens(d)' => first'[d] >= 1
    BY <1>1, <1>3, <1>5, StillHeard
<1>7. Histories'
    BY <1>1, <1>6 DEF Histories, TypeOK, SenderWakes, Destroyed, flight
<1> QED
    BY <1>2, <1>3, <1>4, <1>6, <1>7 DEF EInv

-----------------------------------------------------------------------------
(* The steps that move an event along.                                     *)

\* A client reads.
LEMMA ReadsNext ==
    ASSUME EInv, NEW c \in Client, Reads(c)
    PROVE  EInv'
<1>1. TypeOK /\ Recent /\ Unopened /\ Histories /\ NoneMissed
    BY DEF EInv
<1> DEFINE S == Seq(1..Len(events))
<1>2. /\ wire[c] # <<>> /\ got[c] \in S /\ wire[c] \in S
      /\ UNCHANGED <<events, monitor, cache, handler, queue, trigger, stop, sender, hand, peer, first>>
      /\ got' = [got EXCEPT ![c] = Append(got[c], Head(wire[c]))]
      /\ wire' = [wire EXCEPT ![c] = Tail(wire[c])]
    BY <1>1 DEF Reads, flight, TypeOK, Histories
<1>3. /\ Append(got[c], Head(wire[c])) \o Tail(wire[c]) = got[c] \o wire[c]
      /\ Append(got[c], Head(wire[c])) \in S /\ Tail(wire[c]) \in S
      /\ Len(Tail(wire[c])) = Len(wire[c]) - 1 /\ Len(wire[c]) \in Nat
  <2>1. /\ Append(got[c], Head(wire[c])) \o Tail(wire[c]) = got[c] \o wire[c]
        /\ Head(wire[c]) \in 1..Len(events) /\ Tail(wire[c]) \in S
    <3> DEFINE R == 1..Len(events)
               g == got[c]
               w == wire[c]
    <3>1. g \in Seq(R) /\ w \in Seq(R) /\ w # <<>>
        BY <1>2
    <3> HIDE DEF R, g, w
    <3>2. /\ Append(g, Head(w)) \o Tail(w) = g \o w
          /\ Head(w) \in R /\ Tail(w) \in Seq(R)
        BY <3>1, Moved
    <3> QED
        BY <3>2 DEF R, g, w
  <2>2. Append(got[c], Head(wire[c])) \in S
      BY <1>2, <2>1, AppendProperties
  <2>3. Len(Tail(wire[c])) = Len(wire[c]) - 1
      BY <1>2, HeadTailProperties
  <2>4. Len(wire[c]) \in Nat
      BY <1>2, LenProperties
  <2> QED
      BY <2>1, <2>2, <2>3, <2>4
<1>4. TypeOK'
  <2>1. wire' \in [Client -> S]
      BY <1>1, <1>2, <1>3 DEF TypeOK
  <2>2. Room \in Nat
      BY EventsAssumption DEF EventsAssumption
  <2>3. Len(wire[c]) <= Room
      BY <1>1 DEF TypeOK
  <2>4. Len(Tail(wire[c])) <= Room
      BY <1>3, <2>2, <2>3
  <2>5. \A d \in Client : Len(wire'[d]) <= Room
      BY <1>1, <1>2, <2>4 DEF TypeOK
  <2> QED
      BY <1>1, <1>2, <2>1, <2>5 DEF TypeOK
<1>5. Recent'
    BY <1>1, <1>2 DEF Recent
<1>6. Unopened'
    BY <1>1, <1>2, SMTT(30) DEF Unopened, TypeOK
<1>7. \A d \in Client : got'[d] \o wire'[d] = got[d] \o wire[d]
    BY <1>1, <1>2, <1>3 DEF TypeOK, Histories
<1>8. ASSUME NEW d \in Client, Listens(d)'
      PROVE  Listens(d) /\ Held(d)' = Held(d) /\ first'[d] = first[d]
    BY <1>2, <1>7, <1>8 DEF Listens, Held
<1>9. NoneMissed' /\ \A d \in Client : Listens(d)' => first'[d] >= 1
    BY <1>1, <1>2, <1>8, StillHeard
<1>10. Histories'
    BY <1>1, <1>2, <1>3, <1>9 DEF Histories
<1> QED
    BY <1>4, <1>5, <1>6, <1>9, <1>10 DEF EInv

\* The sender takes what is queued first, or waits.
LEMMA TakesNext ==
    ASSUME EInv, NEW c \in Client, SenderTakes(c)
    PROVE  EInv'
<1>1. TypeOK /\ Recent /\ Unopened /\ Histories /\ NoneMissed
    BY DEF EInv
<1> DEFINE S == Seq(1..Len(events))
<1>2. /\ sender[c] = "flushing" /\ hand[c] = 0 /\ queue[c] \in S
      /\ UNCHANGED <<events, monitor, cache, handler, trigger, stop, wire, peer, got, first>>
    BY <1>1 DEF SenderTakes, flight, TypeOK
<1>3. handler[c] \notin {"none", "new", "init"}
    BY <1>1, <1>2 DEF Unopened
<1>4. Recent'
    BY <1>1, <1>2 DEF Recent
<1>5. CASE queue[c] = <<>> /\ sender' = [sender EXCEPT ![c] = "waiting"] /\ UNCHANGED <<queue, hand>>
  <2>1. TypeOK'
      BY <1>1, <1>2, <1>5 DEF TypeOK
  <2>2. Unopened'
      BY <1>1, <1>2, <1>3, <1>5 DEF Unopened, TypeOK
  <2>3. ASSUME NEW d \in Client, Listens(d)'
        PROVE  Listens(d) /\ Held(d)' = Held(d) /\ first'[d] = first[d]
      BY <1>2, <1>5, <2>3 DEF Listens, Held
  <2>4. NoneMissed' /\ \A d \in Client : Listens(d)' => first'[d] >= 1
      BY <1>1, <1>2, <2>3, StillHeard
  <2>5. Histories'
      BY <1>1, <1>2, <2>4 DEF Histories
  <2> QED
      BY <1>4, <2>1, <2>2, <2>4, <2>5 DEF EInv
<1>6. CASE /\ queue[c] # <<>> /\ sender' = [sender EXCEPT ![c] = "sending"]
           /\ hand' = [hand EXCEPT ![c] = Head(queue[c])]
           /\ queue' = [queue EXCEPT ![c] = Tail(queue[c])]
  <2>1. /\ <<Head(queue[c])>> \o Tail(queue[c]) = queue[c]
        /\ Head(queue[c]) \in 1..Len(events) /\ Tail(queue[c]) \in S
      BY <1>2, <1>6, Moved
  <2>2. TypeOK'
    <3>1. queue' \in [Client -> S]
        BY <1>1, <1>6, <2>1 DEF TypeOK
    <3>2. /\ hand' \in [Client -> 0..Len(events)]
          /\ \A d \in Client : hand'[d] # 0 <=> sender'[d] = "sending"
        BY <1>1, <1>6, <2>1 DEF TypeOK
    <3> QED
        BY <1>1, <1>2, <1>6, <3>1, <3>2 DEF TypeOK
  <2>3. Unopened'
      BY <1>1, <1>2, <1>3, <1>6 DEF Unopened, TypeOK
  <2>4. Held(c)' = Held(c)
    <3>1. Held(c)' = ((got[c] \o wire[c]) \o <<Head(queue[c])>>) \o Tail(queue[c])
      <4>1. hand'[c] = Head(queue[c]) /\ hand'[c] # 0 /\ queue'[c] = Tail(queue[c])
          BY <1>1, <1>6, <2>1 DEF TypeOK
      <4> QED
          BY <1>2, <4>1 DEF Held
    <3>2. /\ got[c] \o wire[c] \in S /\ <<Head(queue[c])>> \in S
          /\ Held(c) = ((got[c] \o wire[c]) \o <<>>) \o queue[c]
      <4>1. got[c] \o wire[c] \in S /\ Held(c) = ((got[c] \o wire[c]) \o Hand(c)) \o queue[c]
          BY <1>1, Parts
      <4>2. Hand(c) = <<>>
          BY <1>2 DEF Hand
      <4>3. <<Head(queue[c])>> \in S
          BY <2>1
      <4> QED
          BY <4>1, <4>2, <4>3
    <3>3. (got[c] \o wire[c]) \o <<>> = got[c] \o wire[c]
        BY <3>2, ConcatEmptySeq
    <3>4. ((got[c] \o wire[c]) \o <<Head(queue[c])>>) \o Tail(queue[c])
            = (got[c] \o wire[c]) \o (<<Head(queue[c])>> \o Tail(queue[c]))
      <4> DEFINE a == got[c] \o wire[c]
                 h == <<Head(queue[c])>>
                 z == Tail(queue[c])
      <4>1. a \in S /\ h \in S /\ z \in S
          BY <2>1, <3>2
      <4> HIDE DEF a, h, z
      <4>2. (a \o h) \o z = a \o (h \o z)
          BY <4>1, ConcatAssociative, SMTT(30)
      <4> QED
          BY <4>2 DEF a, h, z
    <3> QED
        BY <2>1, <3>1, <3>2, <3>3, <3>4
  <2>5. ASSUME NEW d \in Client, Listens(d)'
        PROVE  Listens(d) /\ Held(d)' = Held(d) /\ first'[d] = first[d]
    <3>1. CASE d = c
        BY <1>2, <2>4, <2>5, <3>1 DEF Listens
    <3>2. CASE d # c
      <4>1. hand'[d] = hand[d] /\ queue'[d] = queue[d]
          BY <1>1, <1>6, <3>2 DEF TypeOK
      <4> QED
          BY <1>2, <2>5, <4>1 DEF Listens, Held
    <3> QED
        BY <3>1, <3>2
  <2>6. NoneMissed' /\ \A d \in Client : Listens(d)' => first'[d] >= 1
      BY <1>1, <1>2, <2>5, StillHeard
  <2>7. Histories'
      BY <1>1, <1>2, <2>6 DEF Histories
  <2> QED
      BY <1>4, <2>2, <2>3, <2>6, <2>7 DEF EInv
<1> QED
    BY <1>5, <1>6 DEF SenderTakes

\* The sender puts what is in its hand on the wire.
LEMMA SendsNext ==
    ASSUME EInv, NEW c \in Client, SenderSends(c)
    PROVE  EInv'
<1>1. TypeOK /\ Recent /\ Unopened /\ Histories /\ NoneMissed
    BY DEF EInv
<1> DEFINE S == Seq(1..Len(events))
<1>2. /\ sender[c] = "sending" /\ hand[c] # 0 /\ wire[c] \in S /\ hand[c] \in 1..Len(events)
      /\ UNCHANGED <<events, monitor, cache, handler, queue, trigger, stop, peer, got, first>>
      /\ hand' = [hand EXCEPT ![c] = 0] /\ sender' = [sender EXCEPT ![c] = "flushing"]
    BY <1>1 DEF SenderSends, Sent, flight, TypeOK
<1>3. handler[c] \notin {"none", "new", "init"}
    BY <1>1, <1>2 DEF Unopened
<1>4. Recent'
    BY <1>1, <1>2 DEF Recent
<1>5. \/ /\ peer[c] = "up" /\ Len(wire[c]) < Room
         /\ wire' = [wire EXCEPT ![c] = Append(wire[c], hand[c])]
      \/ peer[c] = "down" /\ wire' = wire
    BY DEF SenderSends
<1>6. /\ Append(wire[c], hand[c]) = wire[c] \o <<hand[c]>> /\ <<hand[c]>> \in S
      /\ Append(wire[c], hand[c]) \in S /\ Len(Append(wire[c], hand[c])) = Len(wire[c]) + 1
      /\ Len(wire[c]) \in Nat
  <2>1. Append(wire[c], hand[c]) = wire[c] \o <<hand[c]>>
      BY <1>2, AppendIsConcat
  <2>2. Append(wire[c], hand[c]) \in S /\ Len(Append(wire[c], hand[c])) = Len(wire[c]) + 1
      BY <1>2, AppendProperties
  <2>3. <<hand[c]>> \in S
      BY <1>2
  <2>4. Len(wire[c]) \in Nat
      BY <1>2, LenProperties
  <2> QED
      BY <2>1, <2>2, <2>3, <2>4
<1>7. TypeOK'
  <2>1. wire' \in [Client -> S]
      BY <1>1, <1>5, <1>6 DEF TypeOK
  <2>2. Room \in Nat
      BY EventsAssumption DEF EventsAssumption
  <2>3. Len(wire[c]) < Room => Len(Append(wire[c], hand[c])) <= Room
      BY <1>6, <2>2
  <2>4. \A d \in Client : Len(wire'[d]) <= Room
      BY <1>1, <1>5, <2>3 DEF TypeOK
  <2>5. /\ hand' \in [Client -> 0..Len(events)]
        /\ \A d \in Client : hand'[d] # 0 <=> sender'[d] = "sending"
      BY <1>1, <1>2 DEF TypeOK
  <2> QED
      BY <1>1, <1>2, <2>1, <2>4, <2>5 DEF TypeOK
<1>8. Unopened'
  <2>1. \A d \in Client \ {c} : hand'[d] = hand[d] /\ sender'[d] = sender[d] /\ wire'[d] = wire[d]
      BY <1>1, <1>2, <1>5 DEF TypeOK
  <2> QED
      BY <1>1, <1>2, <1>3, <2>1 DEF Unopened
<1>9. peer[c] = "up" => Held(c)' = Held(c)
  <2> SUFFICES ASSUME peer[c] = "up" PROVE Held(c)' = Held(c)
      OBVIOUS
  <2>1. wire'[c] = wire[c] \o <<hand[c]>> /\ hand'[c] = 0
      BY <1>1, <1>2, <1>5, <1>6 DEF TypeOK
  <2>2. Held(c)' = ((got[c] \o (wire[c] \o <<hand[c]>>)) \o <<>>) \o queue[c]
      BY <1>2, <2>1 DEF Held
  <2>3. got[c] \in S /\ got[c] \o wire[c] \in S /\ Held(c) = ((got[c] \o wire[c]) \o <<hand[c]>>) \o queue[c]
      BY <1>1, <1>2, Parts DEF Hand
  <2>4. got[c] \o (wire[c] \o <<hand[c]>>) = (got[c] \o wire[c]) \o <<hand[c]>>
    <3> DEFINE x == <<hand[c]>>
               g == got[c]
               w == wire[c]
    <3>1. x \in S /\ g \in S /\ w \in S
        BY <1>2, <1>6, <2>3
    <3> HIDE DEF x, g, w
    <3>2. (g \o w) \o x = g \o (w \o x)
        BY <3>1, ConcatAssociative, SMTT(30)
    <3> QED
        BY <3>2 DEF x, g, w
  <2>5. (got[c] \o wire[c]) \o <<hand[c]>> \in S
      BY <1>6, <2>3, ConcatProperties
  <2>6. ((got[c] \o wire[c]) \o <<hand[c]>>) \o <<>> = (got[c] \o wire[c]) \o <<hand[c]>>
      BY <2>5, ConcatEmptySeq
  <2> QED
      BY <2>2, <2>3, <2>4, <2>6
<1>10. ASSUME NEW d \in Client, Listens(d)'
       PROVE  Listens(d) /\ Held(d)' = Held(d) /\ first'[d] = first[d]
  <2>1. CASE d = c
      BY <1>2, <1>9, <1>10, <2>1 DEF Listens
  <2>2. CASE d # c
    <3>1. hand'[d] = hand[d] /\ wire'[d] = wire[d]
        BY <1>1, <1>2, <1>5, <2>2 DEF TypeOK
    <3>2. UNCHANGED <<handler, queue, peer, got, first>>
        BY <1>2
    <3> QED
        BY <1>10, <3>1, <3>2 DEF Listens, Held
  <2> QED
      BY <2>1, <2>2
<1>11. NoneMissed' /\ \A d \in Client : Listens(d)' => first'[d] >= 1
    BY <1>1, <1>2, <1>10, StillHeard
<1>12. Histories'
    BY <1>1, <1>2, <1>11 DEF Histories
<1> QED
    BY <1>4, <1>7, <1>8, <1>11, <1>12 DEF EInv

-----------------------------------------------------------------------------
(* The steps that give a client more to hold.                              *)

\* The channel opens with what the cache keeps.
LEMMA Opens ==
    ASSUME EInv, NEW c \in Client, OpensChannel(c)
    PROVE  EInv'
<1>1. TypeOK /\ Recent /\ Unopened /\ Histories /\ NoneMissed
    BY DEF EInv
<1> DEFINE S == Seq(1..Len(events))
           D == Dumped(c)
           f == IF cache = <<>> THEN Len(events) + 1 ELSE Head(cache)
<1>2. /\ D \in S /\ Ordered(D)
      /\ \A n \in 1..Len(events) :
            n > Len(events) - Len(cache) /\ IsMaskedIn(n, c) => Contains(D, n)
    BY <1>1, DumpedInOrder
<1> HIDE DEF D
<1>3. /\ handler[c] \in {"init", "gone"} /\ sender[c] = "none"
      /\ handler' = [handler EXCEPT ![c] = IF handler[c] = "init" THEN "open" ELSE handler[c]]
      /\ sender' = [sender EXCEPT ![c] = "waiting"]
      /\ queue' = [queue EXCEPT ![c] = queue[c] \o D]
      /\ trigger' = [trigger EXCEPT ![c] = trigger[c] \/ D # <<>>]
      /\ first' = [first EXCEPT ![c] = f]
      /\ UNCHANGED <<events, monitor, cache, stop, hand, wire, peer, got>>
    BY DEF OpensChannel, flight, D
<1>4. /\ f \in Nat /\ f >= 1
      /\ \A n \in f..Len(events) : n \in 1..Len(events) /\ n > Len(events) - Len(cache)
  <2>1. /\ Len(events) \in Nat /\ Len(cache) \in Nat /\ Len(cache) <= Len(events)
        /\ cache # <<>> => Len(cache) >= 1
      BY <1>1, LenProperties, EmptySeq DEF TypeOK, Recent
  <2>2. CASE cache = <<>>
      BY <2>1, <2>2
  <2>3. CASE cache # <<>>
    <3>1. Head(cache) = cache[1] /\ 1 \in 1..Len(cache)
        BY <2>1, <2>3
    <3>2. f = Len(events) - Len(cache) + 1
        BY <1>1, <2>3, <3>1 DEF Recent
    <3> HIDE DEF f
    <3> QED
        BY <2>1, <3>2
  <2> QED
      BY <2>2, <2>3
<1> HIDE DEF f
<1>5. TypeOK'
  <2>1. queue[c] \in S
      BY <1>1 DEF TypeOK
  <2>2. queue[c] \o D \in S
    <3> DEFINE q == queue[c]
    <3> HIDE DEF q
    <3>1. q \in S
        BY <2>1 DEF q
    <3>2. q \o D \in S
        BY <1>2, <3>1, ConcatProperties
    <3> QED
        BY <3>2 DEF q
  <2>3. queue' \in [Client -> S]
      BY <1>1, <1>3, <2>2 DEF TypeOK
  <2>4. trigger' \in [Client -> BOOLEAN]
      BY <1>1, <1>3 DEF TypeOK
  <2>5. handler' \in [Client -> {"none", "new", "init", "open", "gone"}]
      BY <1>1, <1>3 DEF TypeOK
  <2>6. /\ sender' \in [Client -> {"none", "waiting", "flushing", "sending", "ended"}]
        /\ \A d \in Client : hand'[d] # 0 <=> sender'[d] = "sending"
      BY <1>1, <1>3 DEF TypeOK
  <2> QED
      BY <1>1, <1>3, <2>3, <2>4, <2>5, <2>6 DEF TypeOK
<1>6. Recent'
    BY <1>1, <1>3 DEF Recent
<1>7. Unopened'
  <2>1. handler'[c] \in {"open", "gone"}
      BY <1>1, <1>3 DEF TypeOK
  <2>2. \A d \in Client \ {c} :
            handler'[d] = handler[d] /\ sender'[d] = sender[d] /\ queue'[d] = queue[d]
      BY <1>1, <1>3 DEF TypeOK
  <2> QED
      BY <1>1, <1>3, <2>1, <2>2 DEF Unopened
<1>8. ASSUME NEW d \in Client, Listens(d)'
      PROVE  Ordered(Held(d))' /\ NoGap(d)' /\ first'[d] >= 1
  <2>1. CASE d = c
    <3>1. handler[c] = "init"
        BY <1>1, <1>3, <1>8, <2>1 DEF Listens, TypeOK
    <3>2. got[c] = <<>> /\ wire[c] = <<>> /\ hand[c] = 0 /\ queue[c] = <<>>
        BY <1>1, <3>1 DEF Unopened
    <3>3. <<>> \o D = D
        BY <1>2, ConcatEmptySeq
    <3>4. queue'[c] = D
        BY <1>1, <1>3, <3>2, <3>3 DEF TypeOK
    <3>5. Held(c)' = ((<<>> \o <<>>) \o <<>>) \o D
        BY <1>3, <3>2, <3>4 DEF Held
    <3>6. <<>> \o <<>> = <<>>
        OBVIOUS
    <3>7. Held(c)' = D
        BY <3>3, <3>5, <3>6
    <3>8. first'[c] = f
        BY <1>1, <1>3 DEF Histories
    <3>9. NoGap(c)'
        BY <1>2, <1>3, <1>4, <3>7, <3>8 DEF NoGap, IsMaskedIn
    <3> QED
        BY <1>2, <1>4, <2>1, <3>7, <3>8, <3>9 DEF Ordered
  <2>2. CASE d # c
    <3>1. handler'[d] = handler[d] /\ queue'[d] = queue[d] /\ first'[d] = first[d]
        BY <1>1, <1>3, <2>2 DEF TypeOK, Histories
    <3>2. Listens(d) /\ Held(d)' = Held(d)
        BY <1>3, <1>8, <3>1 DEF Listens, Held
    <3>3. Ordered(Held(d)) /\ NoGap(d) /\ first[d] >= 1
        BY <1>1, <3>2, MissesNone DEF Histories
    <3> QED
        BY <1>3, <3>1, <3>2, <3>3 DEF Ordered, NoGap, IsMaskedIn
  <2> QED
      BY <2>1, <2>2
<1>9. NoneMissed'
    BY <1>8 DEF NoneMissed, Ordered, NoGap
<1>10. Histories'
    BY <1>1, <1>3, <1>4, <1>8 DEF Histories
<1> QED
    BY <1>5, <1>6, <1>7, <1>9, <1>10 DEF EInv

\* The cache after an event: the last events of Capcom, without a gap.
LEMMA Caches ==
    ASSUME TypeOK, Recent, NEW k \in Kind, events' = Append(events, k),
           cache' = CacheEvent(cache, Len(events) + 1)
    PROVE  /\ events' \in Seq(Kind) /\ Len(events)' = Len(events) + 1
           /\ \A n \in 1..Len(events) : events'[n] = events[n]
           /\ events'[Len(events) + 1] = k
           /\ cache' \in Seq(1..Len(events)') /\ Len(cache)' <= MaxCached
           /\ Recent'
<1> DEFINE L == Len(events)
           R == 1..L + 1
           q == IF Len(cache) = MaxCached THEN Tail(cache) ELSE cache
<1>1. L \in Nat /\ Len(cache) \in Nat /\ MaxCached \in Nat \ {0} /\ Len(cache) <= MaxCached
    BY LenProperties, EventsAssumption DEF TypeOK, EventsAssumption
<1>2. /\ events' \in Seq(Kind) /\ Len(events)' = L + 1
      /\ \A n \in 1..L : events'[n] = events[n]
      /\ events'[L + 1] = k
    BY AppendProperties DEF TypeOK
<1>3. cache \in Seq(R)
  <2>1. 1..L \subseteq R
      BY <1>1
  <2>2. cache \in Seq(1..L)
      BY DEF TypeOK
  <2> HIDE DEF L, R
  <2> QED
      BY <2>1, <2>2, SeqMonotonic
<1>4. /\ q \in Seq(R) /\ Len(q) \in Nat /\ Len(q) + 1 <= MaxCached /\ Len(q) <= L
      /\ \A i \in 1..Len(q) : q[i] = L - Len(q) + i
  <2>1. CASE Len(cache) = MaxCached
    <3>1. cache # <<>> /\ q = Tail(cache)
        BY <1>1, <2>1, EmptySeq
    <3>2. /\ Tail(cache) \in Seq(R) /\ Len(Tail(cache)) = Len(cache) - 1
          /\ \A i \in 1..Len(Tail(cache)) : Tail(cache)[i] = cache[i + 1]
      <4> HIDE DEF R
      <4> QED
          BY <1>3, <3>1, HeadTailProperties
    <3>3. Len(q) \in Nat /\ Len(q) + 1 <= MaxCached /\ Len(q) <= L
        BY <1>1, <2>1, <3>1, <3>2 DEF Recent
    <3>4. ASSUME NEW i \in 1..Len(q) PROVE q[i] = L - Len(q) + i
      <4>4. Len(q) = Len(cache) - 1
          BY <3>1, <3>2
      <4> HIDE DEF q
      <4>1. i + 1 \in 1..Len(cache) /\ i \in Nat
          BY <1>1, <3>3, <3>4, <4>4
      <4>2. q[i] = cache[i + 1]
        <5>1. q = Tail(cache) /\ i \in 1..Len(q)
            BY <3>1, <3>4
        <5> QED
            BY <3>2, <5>1
      <4>3. cache[i + 1] = L - Len(cache) + (i + 1)
          BY <4>1 DEF Recent
      <4>5. L - Len(cache) + (i + 1) = L - Len(q) + i
          BY <1>1, <4>1, <4>4
      <4> QED
          BY <4>2, <4>3, <4>5
    <3> QED
        BY <3>1, <3>2, <3>3, <3>4
  <2>2. CASE Len(cache) # MaxCached
    <3>1. q = cache
        BY <2>2
    <3>2. Len(cache) + 1 <= MaxCached
        BY <1>1, <2>2
    <3> HIDE DEF q
    <3> QED
        BY <1>1, <1>3, <3>1, <3>2 DEF Recent
  <2> QED
      BY <2>1, <2>2
<1>5. cache' = Append(q, L + 1)
    BY DEF CacheEvent
<1> HIDE DEF q
<1>6. /\ cache' \in Seq(R) /\ Len(cache)' = Len(q) + 1
      /\ \A i \in 1..Len(q) : cache'[i] = q[i]
      /\ cache'[Len(q) + 1] = L + 1
  <2> DEFINE x == L + 1
  <2>1. x \in R /\ q \in Seq(R)
      BY <1>1, <1>4
  <2>2. cache' = Append(q, x)
      BY <1>5
  <2> HIDE DEF x, R
  <2>3. /\ Append(q, x) \in Seq(R) /\ Len(Append(q, x)) = Len(q) + 1
        /\ \A i \in 1..Len(q) : Append(q, x)[i] = q[i]
        /\ Append(q, x)[Len(q) + 1] = x
      BY <2>1, AppendProperties
  <2>4. cache' \in Seq(R) /\ Len(cache)' = Len(q) + 1
      BY <2>2, <2>3
  <2>5. \A i \in 1..Len(q) : cache'[i] = q[i]
      BY <2>2, <2>3
  <2>6. cache'[Len(q) + 1] = x
      BY <2>2, <2>3
  <2> QED
      BY <2>4, <2>5, <2>6 DEF x
<1>7. Recent'
  <2>1. Len(cache)' <= Len(events)'
      BY <1>1, <1>2, <1>4, <1>6
  <2>2. ASSUME NEW i \in 1..Len(cache)' PROVE cache'[i] = Len(events)' - Len(cache)' + i
    <3>1. i \in 1..Len(q) \/ i = Len(q) + 1
        BY <1>4, <1>6
    <3>2. CASE i \in 1..Len(q)
      <4>1. cache'[i] = L - Len(q) + i
          BY <1>4, <1>6, <3>2
      <4>2. i \in Int /\ Len(q) \in Int /\ L \in Int
          BY <1>1, <1>4, <3>2
      <4>3. L + 1 - (Len(q) + 1) + i = L - Len(q) + i
          BY <4>2
      <4> QED
          BY <1>2, <1>6, <4>1, <4>3, SMTT(30)
    <3>3. CASE i = Len(q) + 1
        BY <1>1, <1>2, <1>4, <1>6, <3>3
    <3> QED
        BY <3>1, <3>2, <3>3
  <2> QED
      BY <2>1, <2>2 DEF Recent
<1> QED
    BY <1>1, <1>2, <1>4, <1>6, <1>7

\* Capcom's next event is kept, and queued if anybody wants it.
LEMMA MonitorsNext ==
    ASSUME EInv, NEW k \in Kind, Monitors(k)
    PROVE  EInv'
<1>1. TypeOK /\ Recent /\ Unopened /\ Histories /\ NoneMissed
    BY DEF EInv
<1> DEFINE L == Len(events)
           n == L + 1
           Old == Seq(1..L)
           New == Seq(1..n)
<1>2. PICK wants \in WantsEvent(k) :
        queue' = [c \in Client |->
            IF wants /\ c \in client_handlers THEN Queued(queue[c], c, n) ELSE queue[c]]
    BY DEF Monitors
<1>3. /\ events' = Append(events, k) /\ cache' = CacheEvent(cache, n)
      /\ UNCHANGED <<monitor, handler, stop, sender, hand, wire, peer, got, first>>
      /\ trigger' = [c \in Client |-> trigger[c] \/ queue'[c] # queue[c]]
    BY DEF Monitors
<1>4. /\ L \in Nat /\ events' \in Seq(Kind) /\ Len(events)' = n
      /\ \A m \in 1..L : events'[m] = events[m]
      /\ events'[n] = k
      /\ cache' \in New /\ Len(cache)' <= MaxCached
      /\ Recent'
  <2>1. L \in Nat
      BY <1>1, LenProperties DEF TypeOK
  <2> QED
      BY <1>1, <1>3, <2>1, Caches
<1>5. ASSUME NEW q \in Old PROVE q \in New
  <2>1. 1..L \subseteq 1..n
      BY <1>4
  <2> DEFINE A == 1..L
             B == 1..n
  <2>2. q \in Seq(A) /\ A \subseteq B
      BY <2>1
  <2> HIDE DEF A, B
  <2>3. q \in Seq(B)
      BY <2>2, SeqMonotonic
  <2> QED
      BY <2>3 DEF B
<1>6. ASSUME NEW d \in Client
      PROVE  /\ queue[d] \in Old
             /\ \/ queue'[d] = queue[d] /\ ~(wants /\ handler[d] = "open")
                \/ queue'[d] = Append(queue[d], n) /\ handler[d] = "open"
    BY <1>1, <1>2 DEF TypeOK, Queued, client_handlers
<1>7. ASSUME NEW q \in Old PROVE Append(q, n) \in New
  <2>1. q \in New /\ n \in 1..n
      BY <1>4, <1>5
  <2> DEFINE B == 1..n
             x == n
  <2>2. q \in Seq(B) /\ x \in B
      BY <2>1
  <2> HIDE DEF B, x
  <2>3. Append(q, x) \in Seq(B)
      BY <2>2, AppendProperties
  <2> QED
      BY <2>3 DEF B, x
<1>8. TypeOK'
  <2>1. queue' \in [Client -> New]
    <3>1. \A d \in Client : queue'[d] \in New
        BY <1>5, <1>6, <1>7
    <3> QED
        BY <1>2, <3>1
  <2>2. wire' \in [Client -> New] /\ \A d \in Client : Len(wire'[d]) <= Room
      BY <1>1, <1>3, <1>5 DEF TypeOK
  <2>3. hand' \in [Client -> 0..n] /\ \A d \in Client : hand'[d] # 0 <=> sender'[d] = "sending"
      BY <1>1, <1>3, <1>4 DEF TypeOK
  <2>4. trigger' \in [Client -> BOOLEAN]
      BY <1>3
  <2> QED
      BY <1>1, <1>3, <1>4, <2>1, <2>2, <2>3, <2>4 DEF TypeOK
<1>9. Unopened'
    BY <1>1, <1>3, <1>6 DEF Unopened
<1>10. Histories'
  <2>1. got' \in [Client -> New]
      BY <1>1, <1>3, <1>5 DEF Histories
  <2> QED
      BY <1>1, <1>3, <1>4, <2>1 DEF Histories, Listens
<1>11. ASSUME NEW d \in Client, Listens(d)
       PROVE  Ordered(Held(d))' /\ NoGap(d)'
  <2>1. Ordered(Held(d)) /\ NoGap(d) /\ first[d] >= 1 /\ first[d] \in Nat
      BY <1>1, <1>11, MissesNone DEF Histories
  <2> DEFINE h == Held(d)
             a == (got[d] \o wire[d]) \o Hand(d)
  <2>2. /\ h \in Old /\ h = a \o queue[d] /\ a \in Old /\ queue[d] \in Old
    <3>1. /\ h \in Old /\ h = a \o queue[d] /\ queue[d] \in Old
          /\ got[d] \o wire[d] \in Old /\ Hand(d) \in Old
        BY <1>1, Parts
    <3>2. a \in Old
        BY <3>1, ConcatProperties
    <3> QED
        BY <3>1, <3>2
  <2>3. Held(d)' = a \o queue'[d]
      BY <1>3 DEF Held, Hand
  <2> HIDE DEF h, a
  <2>4. Len(h) \in Nat /\ DOMAIN h = 1..Len(h) /\ \A i \in 1..Len(h) : h[i] \in 1..L
      BY <2>2, LenProperties
  <2>5. ASSUME NEW m \in first[d]..L, IsMaskedIn(m, d)' PROVE Contains(h, m)
    <3>1. m \in 1..L
        BY <1>4, <2>1
    <3>2. IsMaskedIn(m, d)
        BY <1>4, <2>5, <3>1 DEF IsMaskedIn
    <3> QED
        BY <2>1, <3>2 DEF NoGap, h
  <2>6. CASE queue'[d] = queue[d] /\ ~(wants /\ handler[d] = "open")
    <3>1. Held(d)' = h
        BY <2>2, <2>3, <2>6
    <3>2. events'[n] \notin Mask[d]
      <4>1. handler[d] = "open"
          BY <1>11 DEF Listens
      <4>2. wants = FALSE
          BY <1>2, <2>6, <4>1 DEF WantsEvent
      <4>3. k \notin Mask[d]
          BY <1>2, <4>1, <4>2 DEF WantsEvent
      <4> QED
          BY <1>4, <4>3
    <3>3. Ordered(Held(d))'
        BY <2>1, <3>1 DEF Ordered, h
    <3>4. ASSUME NEW m \in first[d]..n, IsMaskedIn(m, d)' PROVE Contains(h, m)
      <4>1. m # n
          BY <3>2, <3>4 DEF IsMaskedIn
      <4>2. m \in first[d]..L
          BY <1>4, <2>1, <4>1
      <4> QED
          BY <2>5, <3>4, <4>2
    <3> QED
        BY <1>3, <1>4, <3>1, <3>3, <3>4 DEF NoGap
  <2>7. CASE queue'[d] = Append(queue[d], n)
    <3> DEFINE r == Append(h, n)
    <3>1. Held(d)' = r
      <4> DEFINE B == 1..n
                 x == n
                 q == queue[d]
      <4>1. a \in Seq(B) /\ q \in Seq(B) /\ h \in Seq(B) /\ x \in B /\ <<x>> \in Seq(B)
          BY <1>4, <1>5, <2>2
      <4> HIDE DEF B, x, q
      <4>2. Append(q, x) = q \o <<x>>
          BY <4>1, AppendIsConcat
      <4>3. Append(h, x) = h \o <<x>>
          BY <4>1, AppendIsConcat
      <4>4. (a \o q) \o <<x>> = a \o (q \o <<x>>)
          BY <4>1, ConcatAssociative, SMTT(30)
      <4> QED
          BY <2>2, <2>3, <2>7, <4>2, <4>3, <4>4 DEF x, q
    <3>2. /\ Len(r) = Len(h) + 1 /\ DOMAIN r = 1..Len(h) + 1
          /\ \A i \in 1..Len(h) : r[i] = h[i]
          /\ r[Len(h) + 1] = n
      <4> DEFINE B == 1..n
                 x == n
      <4>1. h \in Seq(B) /\ x \in B
          BY <1>4, <1>5, <2>2
      <4> HIDE DEF B, x
      <4>2. /\ Append(h, x) \in Seq(B) /\ Len(Append(h, x)) = Len(h) + 1
            /\ \A i \in 1..Len(h) : Append(h, x)[i] = h[i]
            /\ Append(h, x)[Len(h) + 1] = x
          BY <4>1, AppendProperties
      <4>3. DOMAIN Append(h, x) = 1..Len(h) + 1
          BY <4>2, LenProperties
      <4> QED
          BY <4>2, <4>3 DEF x
    <3> HIDE DEF r
    <3>3. Ordered(r)
      <4> SUFFICES ASSUME NEW i \in 1..Len(h) + 1, NEW j \in 1..Len(h) + 1, i < j
                   PROVE  r[i] < r[j]
          BY <3>2 DEF Ordered
      <4>1. i \in 1..Len(h) /\ r[i] = h[i] /\ h[i] \in 1..L
          BY <2>4, <3>2
      <4>2. CASE j = Len(h) + 1
          BY <1>4, <3>2, <4>1, <4>2
      <4>3. CASE j # Len(h) + 1
        <5>1. j \in 1..Len(h)
            BY <2>4, <4>3
        <5>2. h[i] < h[j]
            BY <2>1, <2>4, <4>1, <5>1 DEF Ordered, h
        <5> QED
            BY <3>2, <4>1, <5>1, <5>2
      <4> QED
          BY <4>2, <4>3
    <3>4. ASSUME NEW m \in first[d]..n, IsMaskedIn(m, d)' PROVE Contains(r, m)
      <4>1. CASE m = n
        <5>1. r[Len(r)] = m /\ Len(r) \in 1..Len(r)
            BY <2>4, <3>2, <4>1
        <5> QED
            BY <5>1 DEF Contains
      <4>2. CASE m # n
        <5>1. m \in first[d]..L
            BY <1>4, <2>1, <4>2
        <5>2. Contains(h, m)
            BY <2>5, <3>4, <5>1
        <5> QED
            BY <2>4, <3>2, <5>2 DEF Contains
      <4> QED
          BY <4>1, <4>2
    <3> QED
        BY <1>3, <1>4, <3>1, <3>3, <3>4 DEF NoGap, Ordered
  <2> QED
      BY <1>6, <2>6, <2>7
<1>12. NoneMissed'
  <2>1. \A d \in Client : Listens(d)' <=> Listens(d)
      BY <1>3 DEF Listens
  <2> QED
      BY <1>11, <2>1 DEF NoneMissed, Ordered, NoGap
<1> QED
    BY <1>4, <1>8, <1>9, <1>10, <1>12 DEF EInv

-----------------------------------------------------------------------------
(* The theorems.                                                           *)

LEMMA EventsStart == Init => EInv
<1> SUFFICES ASSUME Init PROVE EInv
    OBVIOUS
<1>1. <<>> \in Seq(1..Len(events)) /\ Len(<<>>) = 0 /\ {MaxCached, Room} \subseteq Nat
    BY EmptySeq, EventsAssumption DEF EventsAssumption
<1>2. TypeOK
    BY <1>1 DEF Init, TypeOK
<1>3. Recent /\ Unopened /\ Histories /\ NoneMissed
    BY <1>1 DEF Init, Recent, Unopened, Histories, NoneMissed, Listens
<1> QED
    BY <1>2, <1>3 DEF EInv

LEMMA EventsStep == EInv /\ [Next]_vars => EInv'
<1> SUFFICES ASSUME EInv, [Next]_vars PROVE EInv'
    OBVIOUS
<1>1. CASE UNCHANGED vars
  <2>1. TypeOK' /\ Recent' /\ Unopened'
      BY <1>1 DEF vars, EInv, TypeOK, Recent, Unopened
  <2>2. UNCHANGED <<events, handler, queue, hand, wire, peer, got, first>>
      BY <1>1 DEF vars
  <2>3. \A d \in Client : Listens(d)' => Listens(d) /\ Held(d)' = Held(d) /\ first'[d] = first[d]
      BY <2>2 DEF Listens, Held
  <2>4. NoneMissed' /\ Histories'
      BY <2>2, <2>3, StillHeard DEF EInv, Histories
  <2> QED
      BY <2>1, <2>4 DEF EInv
<1>2. ASSUME NEW c \in Client, HandleIncomingConnection(c) PROVE EInv'
    BY <1>2, Comes
<1>3. ASSUME NEW c \in Client, HandleInit(c) PROVE EInv'
    BY <1>3, Says
<1>4. ASSUME NEW c \in Client, OpensChannel(c) PROVE EInv'
    BY <1>4, Opens
<1>5. ASSUME NEW c \in Client, Closes(c) PROVE EInv'
    BY <1>5, Leaves
<1>6. ASSUME NEW c \in Client, Reads(c) PROVE EInv'
    BY <1>6, ReadsNext
<1>7. ASSUME NEW c \in Client, RunEnds(c) PROVE EInv'
    BY <1>7, IsForgotten
<1>8. ASSUME NEW c \in Client, Sends(c) PROVE EInv'
    BY <1>8, Wakens, TakesNext, SendsNext DEF Sends
<1>9. ASSUME NEW k \in Kind, Monitors(k) PROVE EInv'
    BY <1>9, MonitorsNext
<1>10. CASE MonitorEnds
    BY <1>10, MonitorStops
<1> QED
    BY <1>1, <1>2, <1>3, <1>4, <1>5, <1>6, <1>7, <1>8, <1>9, <1>10 DEF Next

\* The types hold, the cache is the end of what Capcom sent, and a client that
\* never opened its channel holds nothing, in every reachable state.
THEOREM EventsInvariance == Spec => []EInv
BY EventsStart, EventsStep, PTL DEF Spec

\* TypeOK: handlers, senders, queues and sockets keep their types, no socket and
\* no cache holds more than its limit, and a hand is full exactly while it sends.
THEOREM TypesOfEvents == Spec => []TypeOK
<1>1. EInv => TypeOK
    BY DEF EInv
<1> QED
    BY <1>1, EventsInvariance, PTL

\* NoneMissed: a client that listens is sent, in Capcom's order and once each,
\* all it asked for of what was kept when its channel opened (DumpEventCache)
\* and of what came later, whatever Capcom, the sender, the client and the other
\* clients did in between.
THEOREM MissesNoEvent == Spec => []NoneMissed
<1>1. EInv => NoneMissed
    BY DEF EInv
<1> QED
    BY <1>1, EventsInvariance, PTL

=============================================================================
