-------------------------------- MODULE EventBus --------------------------------
(***************************************************************************)
(* The event bus and its readers.  Publish holds the read lock while it    *)
(* offers the event to every subscriber in turn; a subscriber whose buffer *)
(* is full does not get it.  Unsubscribing takes the write lock and closes *)
(* the channel.                                                            *)
(***************************************************************************)
EXTENDS Integers, Sequences, FiniteSets

CONSTANTS
    Publishers,  \* goroutines that publish, each its events in order
    Subscribers, \* SSE requests
    Buffer,      \* capacity of a subscriber's channel, 64 in the code
    MaxEvents    \* bound: events of each publisher

ASSUME BusConstantsOK == Buffer \in Nat \ {0} /\ MaxEvents \in Nat

VARIABLES
    subs,    \* subscribers in the map
    closed,  \* channels that have been closed
    queue,   \* events in each channel
    pub,     \* each publisher: events so far, and the subscribers still to be offered the last
    seen     \* history: number of the last event a reader got of each publisher

busVars == <<subs, closed, queue, pub, seen>>

BusInit ==
    /\ subs = {} /\ closed = {}
    /\ queue = [s \in Subscribers |-> <<>>]
    /\ pub = [p \in Publishers |-> [n |-> 0, todo |-> {}, busy |-> FALSE]]
    /\ seen = [s \in Subscribers |-> [p \in Publishers |-> 0]]

Readers == {p \in Publishers : pub[p].busy}

BeginPublish(p) ==
    /\ ~pub[p].busy /\ pub[p].n < MaxEvents
    /\ pub' = [pub EXCEPT ![p] = [n |-> @.n + 1, todo |-> subs, busy |-> TRUE]]
    /\ UNCHANGED <<subs, closed, queue, seen>>

\* The map is visited in no particular order; the send does not block.
Offer(p) ==
    /\ \E s \in pub[p].todo :
          /\ pub' = [pub EXCEPT ![p].todo = @ \ {s}]
          /\ queue' = IF Len(queue[s]) < Buffer
                      THEN [queue EXCEPT ![s] = Append(@, [by |-> p, n |-> pub[p].n])]
                      ELSE queue
    /\ UNCHANGED <<subs, closed, seen>>

EndPublish(p) ==
    /\ pub[p].busy /\ pub[p].todo = {}
    /\ pub' = [pub EXCEPT ![p].busy = FALSE]
    /\ UNCHANGED <<subs, closed, queue, seen>>

\* Both take the write lock, which waits for the publishers.
Subscribe(s) ==
    /\ Readers = {}
    /\ s \notin subs \cup closed
    /\ subs' = subs \cup {s}
    /\ UNCHANGED <<closed, queue, pub, seen>>

\* Mutated Unsubscribe: the channel is closed without the lock.
CloseUnlocked(s) ==
    /\ s \in subs
    /\ subs' = subs \ {s}
    /\ closed' = closed \cup {s}
    /\ UNCHANGED <<queue, pub, seen>>

Unsubscribe(s) ==
    /\ Readers = {}
    /\ s \in subs
    /\ subs' = subs \ {s}
    /\ closed' = closed \cup {s}
    /\ UNCHANGED <<queue, pub, seen>>

\* The loop of sse takes the next event and writes it to the client.
Read(s) ==
    /\ s \in subs /\ queue[s] # <<>>
    /\ queue' = [queue EXCEPT ![s] = Tail(@)]
    /\ seen' = [seen EXCEPT ![s][Head(queue[s]).by] = Head(queue[s]).n]
    /\ UNCHANGED <<subs, closed, pub>>

BusNext ==
    \/ \E p \in Publishers : BeginPublish(p) \/ Offer(p) \/ EndPublish(p)
    \/ \E s \in Subscribers : Subscribe(s) \/ Unsubscribe(s) \/ Read(s)

BusSpec == BusInit /\ [][BusNext]_busVars

-----------------------------------------------------------------------------
\* No event is offered to a channel that has been closed (a send on it would panic), and no
\* channel holds more than its buffer.
NoSendOnClosed ==
    /\ \A p \in Publishers : pub[p].todo \cap closed = {}
    /\ \A s \in Subscribers : Len(queue[s]) <= Buffer

\* A reader sees the events of one publisher in their order: what it is about to read of a run
\* is never older than what it has read, so a run does not go from finished back to started.
InOrder ==
    \A s \in Subscribers : \A i \in 1 .. Len(queue[s]) :
        /\ queue[s][i].n > seen[s][queue[s][i].by]
        /\ \A j \in 1 .. i - 1 : queue[s][j].by = queue[s][i].by => queue[s][j].n < queue[s][i].n

\* Both: delivery loses events only to a full buffer, and never panics or turns them round.
Delivery == NoSendOnClosed /\ InOrder

=============================================================================
