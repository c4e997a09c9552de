------------------------------- MODULE Events -------------------------------
(***************************************************************************)
(* The event channels of FlightDirector's clients: TCPClientHandler of     *)
(* src/common/tcp_client_handler.h as src/flight uses it.  FlightDirector  *)
(* reads the events of Capcom, keeps the last ones for clients to come,    *)
(* and queues them for the clients it has; a coroutine per client sends    *)
(* what is queued.  Commands are in Flight.                                *)
(***************************************************************************)
EXTENDS Integers, Sequences, SequencesExt

CONSTANTS
    Client, Kind,
    Mask,        \* [Client -> SUBSET Kind]: the event mask each asks for
    MaxCached,   \* kMaxEvents
    Room,        \* how many events a socket holds
    MaxEvents,   \* bound: events of Capcom
    Leavers,     \* bound: the clients that may go
    Fails        \* bound: whether Capcom may fail

ASSUME EventsAssumption ==
    /\ Mask \in [Client -> SUBSET Kind] /\ Leavers \subseteq Client
    /\ {MaxCached, Room} \subseteq Nat \ {0} /\ MaxEvents \in Nat /\ Fails \in BOOLEAN

VARIABLES
    events,    \* the kinds of Capcom's events, the n-th is event n
    monitor,   \* EventMonitorCoroutine: "on", or "off" when Capcom is gone
    cache,     \* event_cache_
    handler,   \* of each client: in client_handlers_ when "new", "init" or "open"
    queue,     \* events_
    trigger,   \* event_trigger_
    stop,      \* stop_trigger_
    sender,    \* EventSenderCoroutine
    hand,      \* the event it is sending
    wire,      \* the event socket
    peer,      \* the client's end
    got,       \* (history) events the client has read, as long as it is there
    first      \* (history) the oldest event that was kept when its channel opened

vars == <<events, monitor, cache, handler, queue, trigger, stop, sender, hand, wire, peer, got, first>>
flight == <<events, monitor, cache>>

Init ==
    /\ events = <<>> /\ monitor = "on" /\ cache = <<>>
    /\ handler = [c \in Client |-> "none"] /\ sender = [c \in Client |-> "none"]
    /\ queue = [c \in Client |-> <<>>] /\ wire = [c \in Client |-> <<>>]
    /\ got = [c \in Client |-> <<>>]
    /\ trigger = [c \in Client |-> FALSE] /\ stop = [c \in Client |-> FALSE]
    /\ hand = [c \in Client |-> 0] /\ first = [c \in Client |-> 0]
    /\ peer = [c \in Client |-> "none"]

client_handlers == {c \in Client : handler[c] \in {"new", "init", "open"}}
IsMaskedIn(n, c) == events[n] \in Mask[c]

----------------------------------------------------------------------------
(* A client comes.                                                         *)

HandleIncomingConnection(c) ==
    /\ handler[c] = "none"
    /\ handler' = [handler EXCEPT ![c] = "new"]
    /\ peer' = [peer EXCEPT ![c] = "up"]
    /\ UNCHANGED <<flight, queue, trigger, stop, sender, hand, wire, got, first>>

\* Its mask is set, and a coroutine waits for it to open the event channel.  The
\* triggers are opened anew: a stop that was not seen yet is lost.
HandleInit(c) ==
    /\ handler[c] = "new" /\ peer[c] = "up"
    /\ handler' = [handler EXCEPT ![c] = "init"]
    /\ stop' = [stop EXCEPT ![c] = FALSE]
    /\ UNCHANGED <<flight, queue, trigger, sender, hand, wire, peer, got, first>>

\* QueueEvent fails unless the event socket is connected.
Queued(q, c, n) == IF handler[c] = "open" THEN Append(q, n) ELSE q

\* (mutant) The channel opens with nothing in it.
DumpedNone(c) == <<>>

\* DumpEventCache: SendEvent for each event that is kept.
Dumped(c) ==
    LET From[i \in 0..Len(cache)] ==
            IF i = 0 THEN <<>>
            ELSE IF IsMaskedIn(cache[i], c) THEN Append(From[i - 1], cache[i])
            ELSE From[i - 1]
    IN From[Len(cache)]

\* The acceptor: the sender is started, and what is kept is queued for it.  It
\* keeps a handler that was told to stop.
OpensChannel(c) ==
    /\ handler[c] \in {"init", "gone"} /\ sender[c] = "none" /\ peer[c] = "up"
    /\ handler' = [handler EXCEPT ![c] = IF @ = "init" THEN "open" ELSE @]
    /\ sender' = [sender EXCEPT ![c] = "waiting"]
    /\ queue' = [queue EXCEPT ![c] = @ \o Dumped(c)]
    /\ trigger' = [trigger EXCEPT ![c] = @ \/ Dumped(c) # <<>>]
    /\ first' = [first EXCEPT ![c] = IF cache = <<>> THEN Len(events) + 1 ELSE Head(cache)]
    /\ UNCHANGED <<flight, stop, hand, wire, peer, got>>

Closes(c) ==
    /\ c \in Leavers /\ peer[c] = "up"
    /\ peer' = [peer EXCEPT ![c] = "down"]
    /\ wire' = [wire EXCEPT ![c] = <<>>]
    /\ got' = [got EXCEPT ![c] = <<>>] /\ first' = [first EXCEPT ![c] = 0]
    /\ UNCHANGED <<flight, handler, queue, trigger, stop, sender, hand>>

Reads(c) ==
    /\ peer[c] = "up" /\ wire[c] # <<>>
    /\ got' = [got EXCEPT ![c] = Append(@, Head(wire[c]))]
    /\ wire' = [wire EXCEPT ![c] = Tail(@)]
    /\ UNCHANGED <<flight, handler, queue, trigger, stop, sender, hand, peer, first>>

Destroyed(c) ==
    /\ queue' = [queue EXCEPT ![c] = <<>>]
    /\ trigger' = [trigger EXCEPT ![c] = FALSE]
    /\ stop' = [stop EXCEPT ![c] = FALSE]

\* Run ends when the client is gone or it is to stop, and the handler is
\* forgotten.  The acceptor or a sender keeps it and its sockets; the last to
\* let it go destroys it, and what is queued goes to nobody.
RunEnds(c) ==
    /\ c \in client_handlers /\ (peer[c] = "down" \/ stop[c])
    /\ handler' = [handler EXCEPT ![c] = "gone"]
    /\ peer' = [peer EXCEPT ![c] = IF handler[c] = "new" THEN "down" ELSE @]
    /\ IF handler[c] = "new" \/ sender[c] = "ended" THEN Destroyed(c) ELSE UNCHANGED <<queue, trigger, stop>>
    /\ UNCHANGED <<flight, sender, hand, wire, got, first>>

----------------------------------------------------------------------------
(* EventMonitorCoroutine.                                                  *)

\* Whether anybody wants it: the mask of a client that has not said Init is
\* not initialized.
WantsEvent(k) ==
    IF \E c \in Client : handler[c] \in {"init", "open"} /\ k \in Mask[c] THEN {TRUE}
    ELSE {FALSE} \cup {TRUE : c \in {c \in Client : handler[c] = "new"}}

\* (mutant) The oldest stays.
CacheAll(q, n) == Append(q, n)

CacheEvent(q, n) == Append(IF Len(q) = MaxCached THEN Tail(q) ELSE q, n)

\* One that wants it makes all clients have it.
Monitors(k) ==
    LET n == Len(events) + 1 IN
    /\ monitor = "on" /\ Len(events) < MaxEvents
    /\ events' = Append(events, k)
    /\ cache' = CacheEvent(cache, n)
    /\ \E wants \in WantsEvent(k) :
        /\ queue' = [c \in Client |->
               IF wants /\ c \in client_handlers THEN Queued(queue[c], c, n) ELSE queue[c]]
        /\ trigger' = [c \in Client |-> trigger[c] \/ queue'[c] # queue[c]]
    /\ UNCHANGED <<monitor, handler, stop, sender, hand, wire, peer, got, first>>

\* Capcom is gone: every client is to stop.
MonitorEnds ==
    /\ Fails /\ monitor = "on"
    /\ monitor' = "off"
    /\ stop' = [c \in Client |-> stop[c] \/ c \in client_handlers]
    /\ UNCHANGED <<events, cache, handler, queue, trigger, sender, hand, wire, peer, got, first>>

----------------------------------------------------------------------------
(* EventSenderCoroutine.                                                   *)

\* (mutant) It does not look whether the client is still there.
WakesWhenTold(c) == trigger[c] \/ stop[c]

Wakes(c) == trigger[c] \/ stop[c] \/ peer[c] = "down"

\* It ends when it is the socket that wakes it.  The stop trigger is waited for
\* by another number than it is compared with, so that it never ends it.
SenderWakes(c) ==
    /\ sender[c] = "waiting" /\ Wakes(c)
    /\ UNCHANGED <<flight, handler, hand, wire, peer, got, first>>
    /\ \/ /\ trigger[c] \/ stop[c]
          /\ trigger' = [trigger EXCEPT ![c] = FALSE]
          /\ sender' = [sender EXCEPT ![c] = "flushing"]
          /\ UNCHANGED <<queue, stop>>
       \/ /\ peer[c] = "down"
          /\ sender' = [sender EXCEPT ![c] = "ended"]
          /\ IF handler[c] = "gone" THEN Destroyed(c) ELSE UNCHANGED <<queue, trigger, stop>>

\* FlushEvents takes events off the queue one by one.
SenderTakes(c) ==
    /\ sender[c] = "flushing"
    /\ \/ /\ queue[c] = <<>>
          /\ sender' = [sender EXCEPT ![c] = "waiting"]
          /\ UNCHANGED <<queue, hand>>
       \/ /\ queue[c] # <<>>
          /\ sender' = [sender EXCEPT ![c] = "sending"]
          /\ hand' = [hand EXCEPT ![c] = Head(queue[c])]
          /\ queue' = [queue EXCEPT ![c] = Tail(@)]
    /\ UNCHANGED <<flight, handler, trigger, stop, wire, peer, got, first>>

\* (mutant) It sends one event each time it is woken.
SentOne == "waiting"

Sent == "flushing"

\* SendMessage waits for room; an error is logged.
SenderSends(c) ==
    /\ sender[c] = "sending"
    /\ \/ peer[c] = "up" /\ Len(wire[c]) < Room /\ wire' = [wire EXCEPT ![c] = Append(@, hand[c])]
       \/ peer[c] = "down" /\ UNCHANGED wire
    /\ hand' = [hand EXCEPT ![c] = 0]
    /\ sender' = [sender EXCEPT ![c] = Sent]
    /\ UNCHANGED <<flight, handler, queue, trigger, stop, peer, got, first>>

----------------------------------------------------------------------------
Sends(c) == SenderWakes(c) \/ SenderTakes(c) \/ SenderSends(c)

Next ==
    \/ \E c \in Client :
        \/ HandleIncomingConnection(c) \/ HandleInit(c) \/ OpensChannel(c)
        \/ Closes(c) \/ Reads(c) \/ RunEnds(c) \/ Sends(c)
    \/ \E k \in Kind : Monitors(k)
    \/ MonitorEnds

Spec == Init /\ [][Next]_vars

\* The coroutines of FlightDirector go on when they can; a client reads.  Of a
\* sender that is to stop nothing is assumed but that it takes its turns.
FairSpec ==
    Spec /\ \A c \in Client : WF_vars(Sends(c)) /\ WF_vars(Reads(c)) /\ WF_vars(RunEnds(c))

----------------------------------------------------------------------------
(* Properties.                                                             *)

Held(c) == got[c] \o wire[c] \o (IF hand[c] = 0 THEN <<>> ELSE <<hand[c]>>) \o queue[c]
Listens(c) == handler[c] = "open" /\ peer[c] = "up"

\* The types of the variables, and how much is kept.
TypeOK ==
    /\ events \in Seq(Kind) /\ monitor \in {"on", "off"}
    /\ cache \in Seq(1..Len(events)) /\ Len(cache) <= MaxCached
    /\ handler \in [Client -> {"none", "new", "init", "open", "gone"}]
    /\ queue \in [Client -> Seq(1..Len(events))]
    /\ trigger \in [Client -> BOOLEAN] /\ stop \in [Client -> BOOLEAN]
    /\ sender \in [Client -> {"none", "waiting", "flushing", "sending", "ended"}]
    /\ hand \in [Client -> 0..Len(events)]
    /\ \A c \in Client : hand[c] # 0 <=> sender[c] = "sending"
    /\ wire \in [Client -> Seq(1..Len(events))] /\ \A c \in Client : Len(wire[c]) <= Room
    /\ peer \in [Client -> {"none", "up", "down"}]

\* While a client listens, it is sent what was kept when it came and what came
\* later in the order of Capcom, each event once and none left out that it
\* asked for, whatever was queued while its channel opened or a send waited.
NoneMissed ==
    \A c \in Client : Listens(c) =>
        /\ \A i, j \in DOMAIN Held(c) : i < j => Held(c)[i] < Held(c)[j]
        /\ \A n \in first[c]..Len(events) : IsMaskedIn(n, c) => Contains(Held(c), n)

\* An event that is queued while the sender clears its trigger or waits for
\* room is sent all the same.
Delivered ==
    \A c \in Client :
        queue[c] # <<>> ~> (queue[c] = <<>> /\ hand[c] = 0 /\ wire[c] = <<>>) \/ peer[c] = "down"

\* A client that goes is forgotten, and its sender ends, however much is queued,
\* unless it was told to stop: that keeps waking the sender.
Released ==
    \A c \in Client :
        peer[c] = "down" /\ handler[c] = "open"
            ~> handler[c] = "gone" /\ (sender[c] = "ended" \/ stop[c])

\* The event mask specifies what types of events a client wants to see.
OnlyWanted ==
    \A c \in Client : \A i \in DOMAIN got[c] : IsMaskedIn(got[c][i], c)
=============================================================================
