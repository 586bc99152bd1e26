------------------------------- MODULE EventBus -------------------------------
(***************************************************************************)
(* The bus of domain events (shared): publishers send to one exchange, each *)
(* subscription has a durable queue, and a handler that throws has its      *)
(* event published again later, to the exchange and not to its queue; the   *)
(* last try is rejected. The subscriber names a dead-letter exchange for    *)
(* its queue, but nothing binds a queue to that exchange, so the broker     *)
(* discards what is rejected.                                               *)
(*                                                                         *)
(* All queues here are bound to one event type. A message is the event and  *)
(* the number of its retries; what a queue holds is a bag, since handlers   *)
(* run concurrently and the broker delivers again what was not              *)
(* acknowledged.                                                            *)
(***************************************************************************)
EXTENDS Integers, FiniteSets, Bags

Copies == INSTANCE BagsExt

CONSTANTS
    Queues,        \* one per subscription
    Events,        \* what may be published
    MaxRetries,    \* RABBITMQ_CONFIG.retry.maxRetries
    MaxRestarts    \* bound on the restarts of subscribers

BusAssumption == MaxRetries \in Nat /\ MaxRestarts \in Nat

VARIABLES
    queue,         \* [queue |-> the messages to be delivered]
    unacked,       \* [queue |-> those its handler has and did not acknowledge]
    timers,        \* [queue |-> the retries its subscriber will publish]
    published,     \* history: the events that were published
    handled,       \* history: [queue |-> the events its handler ended well]
    failed,        \* history: [queue |-> the messages its handler failed]
    lost,          \* history: [queue |-> the events whose retry its restart lost]
    restarts

vars == <<queue, unacked, timers, published, handled, failed, lost, restarts>>
History == <<published, handled, failed, lost, restarts>>

\* prefetchCount 10 is more than the messages of these instances; the delays are not
\* modelled, and maxRetries is a constant.
RABBITMQ_CONFIG == [maxRetries |-> MaxRetries]

Message == [event : Events, retries : 0..MaxRetries]

TypeOK ==
    /\ \A q \in Queues : /\ DOMAIN queue[q] \subseteq Message
                         /\ DOMAIN unacked[q] \subseteq Message
                         /\ DOMAIN timers[q] \subseteq Message
    /\ published \subseteq Events
    /\ handled \in [Queues -> SUBSET Events] /\ lost \in [Queues -> SUBSET Events]
    /\ failed \in [Queues -> SUBSET Message]
    /\ restarts \in 0..MaxRestarts

\* onModuleInit and subscribe: every queue is declared and bound.
Init ==
    /\ queue = [q \in Queues |-> EmptyBag]
    /\ unacked = queue /\ timers = queue
    /\ published = {}
    /\ handled = [q \in Queues |-> {}] /\ failed = handled /\ lost = handled
    /\ restarts = 0

\* What the exchange does with a message: a copy for every queue.
Routed(m) == [q \in Queues |-> Copies!BagAdd(queue[q], m)]

\* publish of EventPublisher.
Publish(e) ==
    /\ e \notin published
    /\ queue' = Routed([event |-> e, retries |-> 0])
    /\ published' = published \cup {e}
    /\ UNCHANGED <<unacked, timers, handled, failed, lost, restarts>>

Deliver(q, m) ==
    /\ queue' = [queue EXCEPT ![q] = Copies!BagRemove(@, m)]
    /\ unacked' = [unacked EXCEPT ![q] = Copies!BagAdd(@, m)]
    /\ UNCHANGED <<timers, History>>

\* The handler ends well and its message is acknowledged.
Handled(q, m) ==
    /\ unacked' = [unacked EXCEPT ![q] = Copies!BagRemove(@, m)]
    /\ handled' = [handled EXCEPT ![q] = @ \cup {m.event}]
    /\ UNCHANGED <<queue, timers, published, failed, lost, restarts>>

\* Mutant of Retries: the retry forgets how many came before it.
RetriesAgain(m) == [m EXCEPT !.retries = 0]

Retries(m) == [m EXCEPT !.retries = @ + 1]

\* Mutant of Failed: the first delivery is counted among the retries.
FailedEarly(q, m) ==
    /\ unacked' = [unacked EXCEPT ![q] = Copies!BagRemove(@, m)]
    /\ failed' = [failed EXCEPT ![q] = @ \cup {m}]
    /\ timers' = IF m.retries + 1 < RABBITMQ_CONFIG.maxRetries
                 THEN [timers EXCEPT ![q] = Copies!BagAdd(@, Retries(m))] ELSE timers
    /\ UNCHANGED <<queue, published, handled, lost, restarts>>

\* The handler throws: a retry is set on a timer and the message acknowledged, or,
\* after the last one, it is rejected without requeueing, and it is gone.
Failed(q, m) ==
    /\ unacked' = [unacked EXCEPT ![q] = Copies!BagRemove(@, m)]
    /\ failed' = [failed EXCEPT ![q] = @ \cup {m}]
    /\ timers' = IF m.retries < RABBITMQ_CONFIG.maxRetries
                 THEN [timers EXCEPT ![q] = Copies!BagAdd(@, Retries(m))] ELSE timers
    /\ UNCHANGED <<queue, published, handled, lost, restarts>>

\* The timer of a retry publishes it to the exchange: every queue gets it.
Republish(q, m) ==
    /\ timers' = [timers EXCEPT ![q] = Copies!BagRemove(@, m)]
    /\ queue' = Routed(m)
    /\ UNCHANGED <<unacked, History>>

\* The service of a queue restarts: the broker takes back what was not acknowledged,
\* and the timers are gone.
Restart(q) ==
    /\ restarts < MaxRestarts
    /\ restarts' = restarts + 1
    /\ queue' = [queue EXCEPT ![q] = @ (+) unacked[q]]
    /\ unacked' = [unacked EXCEPT ![q] = EmptyBag]
    /\ lost' = [lost EXCEPT ![q] = @ \cup {m.event : m \in DOMAIN timers[q]}]
    /\ timers' = [timers EXCEPT ![q] = EmptyBag]
    /\ UNCHANGED <<published, handled, failed>>

Working(q) ==
    \/ \E m \in DOMAIN queue[q] : Deliver(q, m)
    \/ \E m \in DOMAIN unacked[q] : Handled(q, m) \/ Failed(q, m)
    \/ \E m \in DOMAIN timers[q] : Republish(q, m)

Next ==
    \/ \E e \in Events : Publish(e)
    \/ \E q \in Queues : Working(q) \/ Restart(q)

\* The broker delivers, handlers end and timers fire.
Spec == Init /\ [][Next]_vars /\ \A q \in Queues : WF_vars(Working(q))

(***************************************************************************)
(* Properties                                                              *)
(***************************************************************************)
Pending(q) == DOMAIN queue[q] \cup DOMAIN unacked[q] \cup DOMAIN timers[q]

\* The handler of the queue failed the first n tries of the event.
FailedFirst(q, e, n) == \A k \in 0..(n - 1) : [event |-> e, retries |-> k] \in failed[q]

\* No queue loses an event before its own handler failed every one of its tries: it
\* has handled the event, or failed so many tries of it and still has or awaits the
\* next, or failed them all. What other queues retry or restart does not shorten its
\* tries; only its own restart does, when a retry was waiting.
NothingForgotten ==
    \A q \in Queues : \A e \in published \ lost[q] :
        \/ e \in handled[q]
        \/ \E m \in Pending(q) : m.event = e /\ FailedFirst(q, e, m.retries)
        \/ FailedFirst(q, e, RABBITMQ_CONFIG.maxRetries + 1)

\* Nothing is left to do.
AllOut == published = Events
AtRest == \A q \in Queues : queue[q] = EmptyBag /\ unacked[q] = EmptyBag /\ timers[q] = EmptyBag

\* Every event comes to rest, however its handlers fail: no retries go on for ever,
\* although each of them makes more.
Settles == [](AllOut => <>[]AtRest)
===============================================================================
