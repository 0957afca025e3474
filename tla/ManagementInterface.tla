------------------------- MODULE ManagementInterface -------------------------
(***************************************************************************)
(* The management interface's server and the events it sends to subscribers:  *)
(* tunnel states and settings by the daemon's loop, relay lists by the        *)
(* updater's thread.  What is sent to a client waits in a queue of the IPC     *)
(* server (external); notify waits while it is full.                         *)
(***************************************************************************)
EXTENDS Naturals, Sequences, FiniteSets

CONSTANTS
    Clients,
    Capacity,           \* of the queue of a client
    MaxEvents           \* bound: events of each thread

VARIABLES
    server,             \* "none", "open", "closed"
    subscriptions,      \* the clients that have one
    connected,          \* the clients that are connected
    queue,              \* what waits for each client
    notifying,          \* for each thread, the clients it still has to send its event to
    sent,               \* how many events each thread has begun to send
    seen                \* history: for each client and thread, the number of the last event it
                        \* read, or that was sent before it subscribed

interfaceVars == <<server, subscriptions, connected, queue, notifying, sent, seen>>

Threads == {"loop", "updater"}
Zero == [t \in Threads |-> 0]
Event == [thread : Threads, number : 0 .. MaxEvents]

InterfaceInit ==
    /\ server = "none" /\ subscriptions = {} /\ connected = {}
    /\ queue = [c \in Clients |-> <<>>] /\ notifying = [t \in Threads |-> {}]
    /\ sent = Zero /\ seen = [c \in Clients |-> Zero]

Connect(c) ==
    /\ server = "open" /\ c \notin connected \cup subscriptions /\ connected' = connected \cup {c}
    /\ UNCHANGED <<server, subscriptions, queue, notifying, sent, seen>>

\* The threads that notify hold the lock for reading until they are done.
WriteLock == \A t \in Threads : notifying[t] = {}

daemon_event_subscribe(c) ==
    /\ server = "open" /\ c \in connected \ subscriptions /\ WriteLock
    /\ subscriptions' = subscriptions \cup {c}
    /\ seen' = [seen EXCEPT ![c] = sent]
    /\ UNCHANGED <<server, connected, queue, notifying, sent>>

\* A client asks for it, or its session has ended; it does not look at what comes later.
daemon_event_unsubscribe(c) ==
    /\ server = "open" /\ c \in subscriptions /\ WriteLock
    /\ subscriptions' = subscriptions \ {c} /\ queue' = [queue EXCEPT ![c] = <<>>]
    /\ UNCHANGED <<server, connected, notifying, sent, seen>>

ClientGoes(c) ==
    /\ c \in connected /\ connected' = connected \ {c} /\ queue' = [queue EXCEPT ![c] = <<>>]
    /\ UNCHANGED <<server, subscriptions, notifying, sent, seen>>

ClientReads(c) ==
    /\ queue[c] # <<>> /\ queue' = [queue EXCEPT ![c] = Tail(@)]
    /\ seen' = [seen EXCEPT ![c][Head(queue[c]).thread] = Head(queue[c]).number]
    /\ UNCHANGED <<server, subscriptions, connected, notifying, sent>>

\* ManagementInterfaceEventBroadcaster::notify takes the lock ...
Notify(t) ==
    /\ notifying[t] = {} /\ sent[t] < MaxEvents /\ server # "none"
    /\ sent' = [sent EXCEPT ![t] = @ + 1] /\ notifying' = [notifying EXCEPT ![t] = subscriptions]
    /\ UNCHANGED <<server, subscriptions, connected, queue, seen>>

\* Mutant: an event that a client has no room for is dropped.
SendsIfRoom(t, c) ==
    /\ c \in notifying[t] /\ notifying' = [notifying EXCEPT ![t] = @ \ {c}]
    /\ queue' = IF c \in connected /\ Len(queue[c]) < Capacity
                THEN [queue EXCEPT ![c] = Append(@, [thread |-> t, number |-> sent[t]])] ELSE queue
    /\ UNCHANGED <<server, subscriptions, connected, sent, seen>>

\* ... and sends to one subscriber after the other; one that is gone is passed over.
SendTo(t, c) ==
    /\ c \in notifying[t] /\ notifying' = [notifying EXCEPT ![t] = @ \ {c}]
    /\ \/ c \notin connected /\ UNCHANGED queue
       \/ /\ c \in connected /\ Len(queue[c]) < Capacity
          /\ queue' = [queue EXCEPT ![c] = Append(@, [thread |-> t, number |-> sent[t]])]
    /\ UNCHANGED <<server, subscriptions, connected, sent, seen>>

\* Dropping any one copy of the broadcaster closes the server: its clients are cut off.
CloseServer ==
    /\ server' = "closed" /\ connected' = {} /\ queue' = [c \in Clients |-> <<>>]
    /\ UNCHANGED <<subscriptions, notifying, sent, seen>>

ClientStep == \E c \in Clients :
    Connect(c) \/ daemon_event_subscribe(c) \/ daemon_event_unsubscribe(c) \/ ClientGoes(c)
Delivery == \/ \E c \in Clients : ClientReads(c)
            \/ \E t \in Threads, c \in Clients : SendTo(t, c)

-----------------------------------------------------------------------------
InterfaceTypeOK ==
    /\ server \in {"none", "open", "closed"}
    /\ subscriptions \subseteq Clients /\ connected \subseteq Clients
    /\ queue \in [Clients -> Seq(Event)] /\ \A c \in Clients : Len(queue[c]) <= Capacity
    /\ notifying \in [Threads -> SUBSET subscriptions]
    /\ sent \in [Threads -> 0 .. MaxEvents] /\ seen \in [Clients -> [Threads -> 0 .. MaxEvents]]

\* The last event of a thread that was sent to a client.
LastFor(c, t) == IF c \in notifying[t] THEN sent[t] - 1 ELSE sent[t]

\* A client that stays subscribed misses no event and sees those of each thread in order:
\* what it has read, what waits for it and what is still to be sent to it is everything
\* since it subscribed.
NoEventIsLost ==
    \A c \in subscriptions \cap connected, t \in Threads :
        LET Waits(k) == k \in DOMAIN queue[c] /\ queue[c][k].thread = t
        IN  /\ seen[c][t] <= LastFor(c, t)
            /\ \A n \in seen[c][t] + 1 .. LastFor(c, t) :
                   \E k \in DOMAIN queue[c] : queue[c][k] = [thread |-> t, number |-> n]
            /\ \A k \in DOMAIN queue[c] :
                   Waits(k) => queue[c][k].number \in seen[c][t] + 1 .. LastFor(c, t)
            /\ \A j, k \in DOMAIN queue[c] :
                   j < k /\ Waits(j) /\ Waits(k) => queue[c][j].number < queue[c][k].number
=============================================================================
