------------------------------ MODULE EventBus ------------------------------
(***************************************************************************)
(* core/event_bus.py: subscribers, publishers that start the dispatcher    *)
(* when they find none, dispatcher threads over one queue, and stop() with *)
(* its sentinel, its join with a timeout and the reference it forgets.     *)
(*                                                                         *)
(* publish checks for a dispatcher without the lock and start() checks     *)
(* again under it, so the check and the start are one step; the put is     *)
(* another.                                                                *)
(***************************************************************************)
EXTENDS Integers, Sequences, FiniteSets, SequencesExt

CONSTANTS Publishers, Stoppers, Handlers,
          MaxDispatchers, \* bound on the dispatcher threads ever started
          MaxPublished,  \* bound on what one publisher publishes
          MaxSubscribed \* bound on the subscriber list

ASSUME BusAssumption ==
    /\ IsFiniteSet(Stoppers) /\ MaxDispatchers \in Nat \ {0}
    /\ MaxPublished \in Nat /\ MaxSubscribed \in Nat

VARIABLES
    subscribers, \* the handlers of the event (specific, then universal)
    queue,       \* what is put and not taken: events and sentinels
    running,     \* _running
    dispatcher,  \* _dispatcher
    thread,      \* what each dispatcher thread does
    holding,     \* the event it is dispatching
    publisher,   \* where each publisher is
    stopper,     \* where each call of stop is and the thread it joins
    owed         \* history: the handlers each published event has yet to reach

busVars == <<running, dispatcher>>
vars == <<subscribers, queue, running, dispatcher, thread, holding, publisher, stopper, owed>>

Dispatchers == 1..MaxDispatchers \* numbered in the order they are started
NoDispatcher == 0

EventIds == Publishers \X (1..MaxPublished)
Event == [id : EventIds, todo : Seq(Handlers)]
Sentinel == [id |-> <<"shutdown", 0>>, todo |-> <<>>]
NoEvent == [id |-> <<"none", 0>>, todo |-> <<>>]

Serving == {d \in Dispatchers : thread[d] \in {"waiting", "handling"}}
Draining == {d \in Dispatchers : thread[d] \in {"draining", "finishing"}}
Alive == Serving \cup Draining

\* start() under the lock finds a bus that runs.
Started == running /\ dispatcher \in Alive

Init ==
    /\ subscribers = <<>> /\ queue = <<>> /\ running = TRUE
    /\ dispatcher = 1
    /\ thread = [d \in Dispatchers |-> IF d = 1 THEN "waiting" ELSE "unborn"]
    /\ holding = [d \in Dispatchers |-> NoEvent]
    /\ publisher = [p \in Publishers |-> [pc |-> "idle", n |-> 0, todo |-> <<>>]]
    /\ stopper = [s \in Stoppers |-> "idle"]
    /\ owed = [id \in EventIds |-> <<>>]

-----------------------------------------------------------------------------
Subscribe(h) ==
    /\ Len(subscribers) < MaxSubscribed
    /\ subscribers' = Append(subscribers, h)
    /\ UNCHANGED <<queue, busVars, thread, holding, publisher, stopper, owed>>

\* list.remove: the first occurrence, or nothing.
Unsubscribe(h) ==
    /\ \/ /\ \A i \in DOMAIN subscribers : subscribers[i] # h
          /\ UNCHANGED subscribers
       \/ \E i \in DOMAIN subscribers :
            /\ subscribers[i] = h /\ \A j \in 1..i - 1 : subscribers[j] # h
            /\ subscribers' = RemoveAt(subscribers, i)
    /\ UNCHANGED <<queue, busVars, thread, holding, publisher, stopper, owed>>

-----------------------------------------------------------------------------
\* publish_lightweight copies the subscribers under the lock.
Publish(p) ==
    /\ publisher[p].pc = "idle" /\ publisher[p].n < MaxPublished
    /\ publisher' = [publisher EXCEPT ![p] = [pc |-> "check", n |-> @.n + 1, todo |-> subscribers]]
    /\ owed' = [owed EXCEPT ![<<p, publisher[p].n + 1>>] = subscribers]
    /\ UNCHANGED <<subscribers, queue, busVars, thread, holding, stopper>>

EnsureStarted(p) ==
    /\ publisher[p].pc = "check"
    /\ publisher' = [publisher EXCEPT ![p].pc = "put"]
    /\ \/ Started /\ UNCHANGED <<busVars, thread>>
       \/ /\ ~Started
          /\ \E d \in Dispatchers :
               /\ thread[d] = "unborn" /\ \A e \in 1..d - 1 : thread[e] # "unborn"
               /\ running' = TRUE /\ dispatcher' = d
               /\ thread' = [thread EXCEPT ![d] = "waiting"]
    /\ UNCHANGED <<subscribers, queue, holding, stopper, owed>>

\* stop forgets the dispatcher between the two places where publish reads it:
\* `None.is_alive()' raises, and the event is refused.
PublishRaises(s, p) ==
    /\ publisher[p].pc = "check" /\ running /\ dispatcher # NoDispatcher
    /\ stopper[s] = "wait"
    /\ dispatcher' = NoDispatcher
    /\ stopper' = [stopper EXCEPT ![s] = "idle"]
    /\ publisher' = [publisher EXCEPT ![p].pc = "idle", ![p].todo = <<>>]
    /\ owed' = [owed EXCEPT ![<<p, publisher[p].n>>] = <<>>]
    /\ UNCHANGED <<subscribers, queue, running, thread, holding>>

Put(p) ==
    /\ publisher[p].pc = "put"
    /\ queue' = Append(queue, [id |-> <<p, publisher[p].n>>, todo |-> publisher[p].todo])
    /\ publisher' = [publisher EXCEPT ![p].pc = "idle", ![p].todo = <<>>]
    /\ UNCHANGED <<subscribers, busVars, thread, holding, stopper, owed>>

-----------------------------------------------------------------------------
StopAgain(s) ==
    /\ stopper[s] = "idle"
    /\ running' = FALSE
    /\ stopper' = [stopper EXCEPT ![s] = "signal"]
    /\ UNCHANGED <<subscribers, queue, dispatcher, thread, holding, publisher, owed>>

\* stop() does nothing on a bus that does not run.
Stop(s) == running /\ StopAgain(s)

Signal(s) ==
    /\ stopper[s] = "signal"
    /\ queue' = Append(queue, Sentinel)
    /\ stopper' = [stopper EXCEPT ![s] = "join"]
    /\ UNCHANGED <<subscribers, busVars, thread, holding, publisher, owed>>

\* It joins whatever _dispatcher is by now, with a timeout.
Join(s) ==
    /\ stopper[s] = "join"
    /\ stopper' = [stopper EXCEPT ![s] = IF dispatcher \in Alive THEN "wait" ELSE "idle"]
    /\ UNCHANGED <<subscribers, queue, busVars, thread, holding, publisher, owed>>

\* The join ends with the thread or before it (timeout); the reference that is
\* forgotten may be to a newer thread.
Forget(s) ==
    /\ stopper[s] = "wait"
    /\ dispatcher' = NoDispatcher
    /\ stopper' = [stopper EXCEPT ![s] = "idle"]
    /\ UNCHANGED <<subscribers, queue, running, thread, holding, publisher, owed>>

-----------------------------------------------------------------------------
(* _dispatcher_loop and _dispatch_event of thread d                        *)

Rest == Tail(queue) \* what Queue.get leaves

ExitAtOnce(d) == thread' = [thread EXCEPT ![d] = "dead"]
StartDraining(d) == thread' = [thread EXCEPT ![d] = "draining"]

Take(d) ==
    /\ thread[d] = "waiting" /\ queue # <<>>
    /\ queue' = Rest
    /\ IF Head(queue) = Sentinel
       THEN StartDraining(d) /\ UNCHANGED holding
       ELSE /\ holding' = [holding EXCEPT ![d] = Head(queue)]
            /\ thread' = [thread EXCEPT ![d] = "handling"]
    /\ UNCHANGED <<subscribers, busVars, publisher, stopper, owed>>

DropWhileDraining(d) ==
    /\ thread[d] = "draining" /\ queue # <<>>
    /\ queue' = Rest
    /\ UNCHANGED <<subscribers, busVars, thread, holding, publisher, stopper, owed>>

DrainAny(d) ==
    /\ thread[d] = "draining" /\ queue # <<>>
    /\ queue' = Rest
    /\ holding' = [holding EXCEPT ![d] = Head(queue)]
    /\ thread' = [thread EXCEPT ![d] = "finishing"]
    /\ UNCHANGED <<subscribers, busVars, publisher, stopper, owed>>

\* After a sentinel: every event left is dispatched, other sentinels are dropped.
Drain(d) ==
    /\ thread[d] = "draining" /\ queue # <<>>
    /\ queue' = Rest
    /\ IF Head(queue) = Sentinel
       THEN UNCHANGED <<thread, holding>>
       ELSE /\ holding' = [holding EXCEPT ![d] = Head(queue)]
            /\ thread' = [thread EXCEPT ![d] = "finishing"]
    /\ UNCHANGED <<subscribers, busVars, publisher, stopper, owed>>

Exit(d) ==
    /\ thread[d] = "draining" /\ queue = <<>>
    /\ thread' = [thread EXCEPT ![d] = "dead"]
    /\ UNCHANGED <<subscribers, queue, busVars, holding, publisher, stopper, owed>>

\* One handler, whether it returns or raises; the copy in the event decides who
\* is called, not the subscribers of now.
Call(d) ==
    /\ thread[d] \in {"handling", "finishing"} /\ holding[d].todo # <<>>
    /\ holding' = [holding EXCEPT ![d].todo = Tail(@)]
    /\ owed' = [owed EXCEPT ![holding[d].id] = Tail(@)]
    /\ UNCHANGED <<subscribers, queue, busVars, thread, publisher, stopper>>

Done(d) ==
    /\ thread[d] \in {"handling", "finishing"} /\ holding[d].todo = <<>>
    /\ holding' = [holding EXCEPT ![d] = NoEvent]
    /\ thread' = [thread EXCEPT ![d] = IF @ = "handling" THEN "waiting" ELSE "draining"]
    /\ UNCHANGED <<subscribers, queue, busVars, publisher, stopper, owed>>

Dispatch(d) == Take(d) \/ Drain(d) \/ Exit(d) \/ Call(d) \/ Done(d)

Publishing(p) == EnsureStarted(p) \/ Put(p)
Stopping(s) == Signal(s) \/ Join(s) \/ Forget(s)

Next == \/ \E h \in Handlers : Subscribe(h) \/ Unsubscribe(h)
        \/ \E p \in Publishers : Publish(p) \/ Publishing(p)
        \/ \E s \in Stoppers : Stop(s) \/ Stopping(s)
        \/ \E s \in Stoppers, p \in Publishers : PublishRaises(s, p)
        \/ \E d \in Dispatchers : Dispatch(d)

Spec == Init /\ [][Next]_vars

\* Threads that have work to do are scheduled.
FairSpec == /\ Spec
            /\ \A d \in Dispatchers : WF_vars(Dispatch(d))
            /\ \A p \in Publishers : WF_vars(Publishing(p))
            /\ \A s \in Stoppers : WF_vars(Stopping(s))

-----------------------------------------------------------------------------
(* Properties *)

BusTypeOK ==
    /\ subscribers \in Seq(Handlers)
    /\ queue \in Seq(Event \cup {Sentinel})
    /\ running \in BOOLEAN /\ dispatcher \in Dispatchers \cup {NoDispatcher}
    /\ thread \in [Dispatchers -> {"unborn", "waiting", "handling", "draining", "finishing", "dead"}]
    /\ holding \in [Dispatchers -> Event \cup {NoEvent}]
    /\ publisher \in [Publishers -> [pc : {"idle", "check", "put"}, n : 0..MaxPublished,
                                     todo : Seq(Handlers)]]
    /\ stopper \in [Stoppers -> {"idle", "signal", "join", "wait"}]
    /\ owed \in [EventIds -> Seq(Handlers)]

Sentinels == {i \in DOMAIN queue : queue[i] = Sentinel}
Signalling == {s \in Stoppers : stopper[s] = "signal"}

\* A bus that runs is served: there are more dispatchers at work than sentinels
\* under way to end one, however often it has been stopped and started, joined
\* too early, or had its reference forgotten.
RunningIsServed ==
    Cardinality(Serving) >= Cardinality(Sentinels) + Cardinality(Signalling)
                            + (IF running THEN 1 ELSE 0)

\* Where an event is: with its publisher, in the queue or with a dispatcher.
Publishes(p, id) == publisher[p].pc # "idle" /\ id = <<p, publisher[p].n>>
Queued(id) == \E i \in DOMAIN queue : queue[i].id = id
Held(id) == \E d \in Dispatchers : holding[d].id = id

\* Every handler that was subscribed when an event was published, and no other,
\* is called with it, once and in the order of subscription: until then the event
\* has exactly the handlers it is owed left, wherever it is, however many
\* dispatchers share the queue, whoever drains it ("draining all queued events")
\* and whoever subscribes or unsubscribes meanwhile.  (Publishing an event to a
\* bus whose last dispatcher ends before the put leaves it queued, not lost.)
OnceInFull == \A id \in EventIds :
    /\ owed[id] # <<>> => (\E p \in Publishers : Publishes(p, id)) \/ Queued(id) \/ Held(id)
    /\ \A p \in Publishers : Publishes(p, id) => publisher[p].todo = owed[id]
    /\ \A i \in DOMAIN queue : queue[i].id = id => queue[i].todo = owed[id]
    /\ \A d \in Dispatchers : holding[d].id = id => holding[d].todo = owed[id]

Places(id) == Cardinality({i \in DOMAIN queue : queue[i].id = id})
              + Cardinality({d \in Dispatchers : holding[d].id = id})

\* As long as some dispatcher lives, every queued event is taken and handled.
Drained == \A id \in EventIds :
    Places(id) = 1 /\ Alive # {} ~> Places(id) = 0
=============================================================================
