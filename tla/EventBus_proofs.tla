--------------------------- MODULE EventBus_proofs ---------------------------
(***************************************************************************)
(* For every number of publishers, stoppers and dispatchers: a bus that    *)
(* runs is served, and every event reaches each of its handlers once.      *)
(***************************************************************************)
EXTENDS EventBus, FiniteSetTheorems, FunctionTheorems, SequenceTheorems, TLAPS

\* A publisher that puts an event has numbered it, which tells it from a sentinel.
Numbered == \A p \in Publishers : publisher[p].pc # "idle" => publisher[p].n # 0

\* An event is in one place at a time, and one that is not published yet is nowhere.
Unpublished(id) == \E p \in Publishers, n \in Nat : id = <<p, n>> /\ n > publisher[p].n
Placed(id) ==
    /\ \A i, j \in DOMAIN queue : queue[i].id = id /\ queue[j].id = id => i = j
    /\ \A d, e \in Dispatchers : holding[d].id = id /\ holding[e].id = id => d = e
    /\ Queued(id) => ~Held(id)
    /\ Queued(id) \/ Held(id) => \A p \in Publishers : ~Publishes(p, id)
    /\ Unpublished(id) => ~Queued(id) /\ ~Held(id) /\ owed[id] = <<>>
    /\ owed[id] # <<>> => (\E p \in Publishers : Publishes(p, id)) \/ Queued(id) \/ Held(id)
    /\ \A p \in Publishers : Publishes(p, id) => publisher[p].todo = owed[id]
    /\ \A i \in DOMAIN queue : queue[i].id = id => queue[i].todo = owed[id]
    /\ \A d \in Dispatchers : holding[d].id = id => holding[d].todo = owed[id]
OnePlace == \A id \in EventIds : Placed(id)

\* A dispatcher that waits for an event holds none.
FreeHands == \A d \in Dispatchers : thread[d] \notin {"handling", "finishing"} => holding[d] = NoEvent

IInv == BusTypeOK /\ Numbered /\ RunningIsServed /\ OnePlace /\ FreeHands

USE BusAssumption DEF BusAssumption

\* The sentinels of a queue.
SentinelsIn(q) == {i \in DOMAIN q : q[i] = Sentinel}

LEMMA SentinelsFinite ==
    ASSUME NEW T, NEW q \in Seq(T)
    PROVE  IsFiniteSet(SentinelsIn(q)) /\ Cardinality(SentinelsIn(q)) \in Nat
<1>1. Len(q) \in Nat /\ DOMAIN q = 1..Len(q)  BY LenProperties
<1>2. IsFiniteSet(1..Len(q))  BY <1>1, FS_Interval
<1>3. SentinelsIn(q) \in SUBSET (1..Len(q))  BY <1>1 DEF SentinelsIn
<1>4. IsFiniteSet(SentinelsIn(q))  BY <1>2, <1>3, FS_Subset
<1> QED  BY <1>4, FS_CardinalityType

LEMMA SentinelsAppended ==
    ASSUME NEW T, NEW q \in Seq(T), NEW x \in T
    PROVE  Cardinality(SentinelsIn(Append(q, x))) =
             Cardinality(SentinelsIn(q)) + (IF x = Sentinel THEN 1 ELSE 0)
<1> DEFINE n == Len(q) + 1
<1>1. Len(q) \in Nat /\ DOMAIN q = 1..Len(q)  BY LenProperties
<1>2. /\ DOMAIN Append(q, x) = 1..n /\ Append(q, x)[n] = x
      /\ \A i \in 1..Len(q) : Append(q, x)[i] = q[i]
  BY <1>1
<1>3. SentinelsIn(Append(q, x)) = IF x = Sentinel THEN SentinelsIn(q) \cup {n} ELSE SentinelsIn(q)
  BY <1>1, <1>2 DEF SentinelsIn
<1>4. n \notin SentinelsIn(q)  BY <1>1 DEF SentinelsIn
<1>5. IsFiniteSet(SentinelsIn(q)) /\ Cardinality(SentinelsIn(q)) \in Nat  BY SentinelsFinite
<1>6. Cardinality(SentinelsIn(q) \cup {n}) = Cardinality(SentinelsIn(q)) + 1  BY <1>4, <1>5, FS_AddElement
<1> HIDE DEF n
<1> QED  BY <1>3, <1>5, <1>6

LEMMA SentinelsTaken ==
    ASSUME NEW T, NEW q \in Seq(T), q # <<>>
    PROVE  Cardinality(SentinelsIn(q)) =
             Cardinality(SentinelsIn(Tail(q))) + (IF Head(q) = Sentinel THEN 1 ELSE 0)
<1> DEFINE later == SentinelsIn(q) \ {1}
           shift == [i \in SentinelsIn(Tail(q)) |-> i + 1]
<1>1. Len(q) \in Nat \ {0} /\ DOMAIN q = 1..Len(q)  BY LenProperties, EmptySeq
<1>2. /\ DOMAIN Tail(q) = 1..Len(q) - 1 /\ Head(q) = q[1] /\ Tail(q) \in Seq(T)
      /\ \A i \in 1..Len(q) - 1 : Tail(q)[i] = q[i + 1]
  BY <1>1, HeadTailProperties, LenProperties
<1>3. shift \in [SentinelsIn(Tail(q)) -> later]  BY <1>1, <1>2 DEF SentinelsIn
<1>4. \A a, b \in SentinelsIn(Tail(q)) : shift[a] = shift[b] => a = b  BY <1>1, <1>2 DEF SentinelsIn
<1>5. \A t \in later : \E s \in SentinelsIn(Tail(q)) : shift[s] = t
  <2> SUFFICES ASSUME NEW t \in later PROVE t - 1 \in SentinelsIn(Tail(q)) /\ shift[t - 1] = t
    OBVIOUS
  <2>1. t \in 2..Len(q) /\ q[t] = Sentinel  BY <1>1 DEF SentinelsIn
  <2>2. t - 1 \in 1..Len(q) - 1 /\ (t - 1) + 1 = t  BY <1>1, <2>1
  <2>3. t - 1 \in SentinelsIn(Tail(q))  BY <1>2, <2>1, <2>2 DEF SentinelsIn
  <2> QED  BY <2>2, <2>3
<1>6. shift \in Bijection(SentinelsIn(Tail(q)), later)
  <2> HIDE DEF shift, later
  <2> QED  BY <1>3, <1>4, <1>5, Fun_IsBij
<1>7. Cardinality(later) = Cardinality(SentinelsIn(Tail(q)))
  <2>1. IsFiniteSet(SentinelsIn(Tail(q)))  BY <1>2, SentinelsFinite
  <2>2. ExistsBijection(SentinelsIn(Tail(q)), later)  BY <1>6 DEF ExistsBijection
  <2> HIDE DEF shift, later
  <2> QED  BY <2>1, <2>2, FS_Bijection
<1>8. IsFiniteSet(SentinelsIn(q)) /\ Cardinality(SentinelsIn(q)) \in Nat  BY SentinelsFinite
<1>9. 1 \in SentinelsIn(q) <=> Head(q) = Sentinel  BY <1>1, <1>2 DEF SentinelsIn
<1>10. Cardinality(later) = IF 1 \in SentinelsIn(q) THEN Cardinality(SentinelsIn(q)) - 1
                            ELSE Cardinality(SentinelsIn(q))
  BY <1>8, FS_RemoveElement
<1> HIDE DEF later
<1> QED  BY <1>7, <1>8, <1>9, <1>10

-----------------------------------------------------------------------------
LEMMA InitIInv == Init => IInv
<1> SUFFICES ASSUME Init PROVE IInv  OBVIOUS
<1>1. BusTypeOK  BY EmptySeq DEF Init, BusTypeOK, Dispatchers
<1>2. Numbered  BY DEF Init, Numbered
<1>3. RunningIsServed
  <2>1. Serving = {1}  BY DEF Init, Serving, Dispatchers
  <2>2. Sentinels = {} /\ Signalling = {}  BY DEF Init, Sentinels, Signalling
  <2>3. Cardinality(Serving) = 1  BY <2>1, FS_Singleton
  <2> QED  BY <2>2, <2>3, FS_EmptySet DEF Init, RunningIsServed
<1>4. OnePlace /\ FreeHands
  <2>1. DOMAIN queue = {} /\ \A d \in Dispatchers : holding[d].id = <<"none", 0>>
    BY DEF Init, NoEvent
  <2>2. \A id \in EventIds : ~Queued(id) /\ ~Held(id) /\ owed[id] = <<>>
                               /\ \A p \in Publishers : ~Publishes(p, id)
    BY <2>1 DEF Init, Queued, Held, Publishes, EventIds
  <2>3. FreeHands  BY DEF Init, FreeHands
  <2> QED  BY <2>1, <2>2, <2>3 DEF Placed, OnePlace, Held
<1> QED  BY <1>1, <1>2, <1>3, <1>4 DEF IInv

LEMMA RemovedTyped ==
    ASSUME NEW T, NEW s \in Seq(T), NEW i \in DOMAIN s
    PROVE  RemoveAt(s, i) \in Seq(T)
<1>1. Len(s) \in Nat /\ DOMAIN s = 1..Len(s) /\ \A j \in 1..Len(s) : s[j] \in T  BY LenProperties
<1>2. SubSeq(s, 1, i - 1) \in Seq(T) /\ SubSeq(s, i + 1, Len(s)) \in Seq(T)  BY <1>1, SubSeqProperties
<1> QED  BY <1>2, ConcatProperties DEF RemoveAt

\* What is in the queue, and what Queue.get takes from it.
LEMMA QueueTyped ==
    ASSUME BusTypeOK, queue # <<>>
    PROVE  /\ Rest \in Seq(Event \cup {Sentinel})
           /\ Head(queue) \in Event \/ Head(queue) = Sentinel
BY HeadTailProperties DEF BusTypeOK, Rest

\* A handler is called only with an event that is owed to somebody.
LEMMA OwedTyped ==
    ASSUME BusTypeOK, OnePlace, NEW d \in Dispatchers, Call(d)
    PROVE  /\ holding[d] \in Event /\ holding[d].id \in EventIds
           /\ owed[holding[d].id] = holding[d].todo
           /\ [owed EXCEPT ![holding[d].id] = Tail(@)] \in [EventIds -> Seq(Handlers)]
<1>1. holding[d] \in Event  BY DEF Call, BusTypeOK, NoEvent
<1>2. holding[d].id \in EventIds /\ owed[holding[d].id] = holding[d].todo  BY <1>1 DEF Event, OnePlace, Placed
<1>3. Tail(owed[holding[d].id]) \in Seq(Handlers)
  BY <1>1, <1>2, HeadTailProperties DEF Call, Event
<1> QED  BY <1>1, <1>2, <1>3 DEF BusTypeOK

LEMMA StepTypeOK == IInv /\ [Next]_vars => BusTypeOK' /\ Numbered'
<1> SUFFICES ASSUME BusTypeOK, Numbered, OnePlace, [Next]_vars PROVE BusTypeOK' /\ Numbered'  BY DEF IInv
<1>1. CASE UNCHANGED vars  BY <1>1 DEF vars, BusTypeOK, Numbered
<1>2. ASSUME NEW h \in Handlers, Subscribe(h) \/ Unsubscribe(h) PROVE BusTypeOK' /\ Numbered'
  <2>1. subscribers' \in Seq(Handlers)
    <3>1. CASE Subscribe(h)  BY <3>1 DEF Subscribe, BusTypeOK
    <3>2. CASE Unsubscribe(h)  BY <3>2, RemovedTyped DEF Unsubscribe, BusTypeOK
    <3> QED  BY <1>2, <3>1, <3>2
  <2> QED  BY <1>2, <2>1 DEF Subscribe, Unsubscribe, BusTypeOK, Numbered, busVars
<1>3. ASSUME NEW p \in Publishers, Publish(p) PROVE BusTypeOK' /\ Numbered'
  <2>1. owed' \in [EventIds -> Seq(Handlers)]  BY <1>3 DEF Publish, BusTypeOK
  <2> QED  BY <1>3, <2>1 DEF Publish, BusTypeOK, Numbered, busVars
<1>4. ASSUME NEW p \in Publishers, EnsureStarted(p) PROVE BusTypeOK' /\ Numbered'
  <2>1. /\ publisher' \in [Publishers -> [pc : {"idle", "check", "put"}, n : 0..MaxPublished,
                                         todo : Seq(Handlers)]]
        /\ Numbered'
    <3>1. publisher' = [publisher EXCEPT ![p].pc = "put"] /\ publisher[p].pc = "check"
      BY <1>4 DEF EnsureStarted
    <3> QED  BY <3>1 DEF BusTypeOK, Numbered
  <2>2. /\ running' \in BOOLEAN /\ dispatcher' \in Dispatchers \cup {NoDispatcher}
        /\ thread' \in [Dispatchers -> {"unborn", "waiting", "handling", "draining", "finishing", "dead"}]
    BY <1>4 DEF EnsureStarted, BusTypeOK, busVars
  <2> QED  BY <1>4, <2>1, <2>2 DEF EnsureStarted, BusTypeOK
<1>5. ASSUME NEW p \in Publishers, Put(p) PROVE BusTypeOK' /\ Numbered'
  <2> DEFINE e == [id |-> <<p, publisher[p].n>>, todo |-> publisher[p].todo]
  <2>1. publisher[p].n \in 1..MaxPublished /\ publisher[p].todo \in Seq(Handlers)
    BY <1>5 DEF Put, Numbered, BusTypeOK
  <2>2. e \in Event  BY <2>1 DEF Event, EventIds
  <2>3. queue' = Append(queue, e)  BY <1>5 DEF Put
  <2> HIDE DEF e
  <2>4. queue' \in Seq(Event \cup {Sentinel})  BY <2>2, <2>3 DEF BusTypeOK
  <2>5. publisher' = [publisher EXCEPT ![p] = [publisher[p] EXCEPT !.pc = "idle", !.todo = <<>>]]
    BY <1>5 DEF Put, BusTypeOK
  <2>6. /\ publisher' \in [Publishers -> [pc : {"idle", "check", "put"}, n : 0..MaxPublished,
                                         todo : Seq(Handlers)]]
        /\ Numbered'
    BY <2>5, EmptySeq DEF BusTypeOK, Numbered
  <2> QED  BY <1>5, <2>4, <2>6 DEF Put, BusTypeOK, busVars
<1>6. ASSUME NEW s \in Stoppers, Stop(s) \/ Stopping(s) PROVE BusTypeOK' /\ Numbered'
  <2>1. CASE Stop(s)  BY <2>1 DEF Stop, StopAgain, BusTypeOK, Numbered
  <2>2. CASE Signal(s)
    <3>1. queue' \in Seq(Event \cup {Sentinel})  BY <2>2 DEF Signal, BusTypeOK
    <3> QED  BY <2>2, <3>1 DEF Signal, BusTypeOK, Numbered, busVars
  <2>3. CASE Join(s) \/ Forget(s)  BY <2>3 DEF Join, Forget, BusTypeOK, Numbered, busVars
  <2> QED  BY <1>6, <2>1, <2>2, <2>3 DEF Stopping
<1>7. ASSUME NEW d \in Dispatchers, Dispatch(d) PROVE BusTypeOK' /\ Numbered'
  <2>1. CASE Take(d) \/ Drain(d)
    <3>1. queue # <<>> /\ queue' = Rest  BY <2>1 DEF Take, Drain
    <3>2. queue' \in Seq(Event \cup {Sentinel})  BY <3>1, QueueTyped
    <3>3. holding' = holding \/ (Head(queue) # Sentinel /\ holding' = [holding EXCEPT ![d] = Head(queue)])
      BY <2>1 DEF Take, Drain
    <3>4. holding' \in [Dispatchers -> Event \cup {NoEvent}]  BY <3>1, <3>3, QueueTyped DEF BusTypeOK
    <3>5. thread' \in [Dispatchers -> {"unborn", "waiting", "handling", "draining", "finishing", "dead"}]
      BY <2>1 DEF Take, Drain, StartDraining, BusTypeOK
    <3> QED  BY <2>1, <3>2, <3>4, <3>5 DEF Take, Drain, BusTypeOK, Numbered, busVars
  <2>2. CASE Exit(d)  BY <2>2 DEF Exit, BusTypeOK, Numbered, busVars
  <2>3. CASE Call(d)
    <3>1. holding[d] \in Event  BY <2>3 DEF Call, BusTypeOK, NoEvent
    <3>2. holding[d].todo \in Seq(Handlers) /\ holding[d].todo # <<>>  BY <2>3, <3>1 DEF Call, Event
    <3>3. Tail(holding[d].todo) \in Seq(Handlers)  BY <3>2, HeadTailProperties
    <3>4. [holding[d] EXCEPT !.todo = Tail(@)] \in Event  BY <3>1, <3>3 DEF Event
    <3>5. holding' \in [Dispatchers -> Event \cup {NoEvent}]  BY <2>3, <3>4 DEF Call, BusTypeOK
    <3>6. owed' \in [EventIds -> Seq(Handlers)]  BY <2>3, <3>1, OwedTyped DEF Call
    <3> QED  BY <2>3, <3>5, <3>6 DEF Call, BusTypeOK, Numbered, busVars
  <2>4. CASE Done(d)  BY <2>4 DEF Done, BusTypeOK, Numbered, busVars
  <2> QED  BY <1>7, <2>1, <2>2, <2>3, <2>4 DEF Dispatch
<1>8. ASSUME NEW s \in Stoppers, NEW p \in Publishers, PublishRaises(s, p) PROVE BusTypeOK' /\ Numbered'
  <2>1. owed' \in [EventIds -> Seq(Handlers)]  BY <1>8, EmptySeq DEF PublishRaises, BusTypeOK
  <2>2. /\ publisher' \in [Publishers -> [pc : {"idle", "check", "put"}, n : 0..MaxPublished,
                                         todo : Seq(Handlers)]]
        /\ Numbered'
    BY <1>8, EmptySeq DEF PublishRaises, BusTypeOK, Numbered
  <2> QED  BY <1>8, <2>1, <2>2 DEF PublishRaises, BusTypeOK
<1> QED  BY <1>1, <1>2, <1>3, <1>4, <1>5, <1>6, <1>7, <1>8 DEF Next, Publishing

-----------------------------------------------------------------------------
(* Counting.                                                                 *)

LEMMA ServingFinite ==
    ASSUME NEW th
    PROVE  LET serving == {d \in Dispatchers : th[d] \in {"waiting", "handling"}}
           IN  IsFiniteSet(serving) /\ Cardinality(serving) \in Nat
<1>1. IsFiniteSet(Dispatchers)  BY FS_Interval DEF Dispatchers
<1> QED  BY <1>1, FS_Subset, FS_CardinalityType

LEMMA SignallingFinite ==
    ASSUME NEW st
    PROVE  LET signalling == {s \in Stoppers : st[s] = "signal"}
           IN  IsFiniteSet(signalling) /\ Cardinality(signalling) \in Nat
BY FS_Subset, FS_CardinalityType

LEMMA StepServed == IInv /\ [Next]_vars => RunningIsServed'
<1> SUFFICES ASSUME IInv, [Next]_vars PROVE RunningIsServed'  OBVIOUS
<1> DEFINE S == Cardinality(Serving)  Q == Cardinality(Sentinels)  G == Cardinality(Signalling)
           R == IF running THEN 1 ELSE 0
<1>a. BusTypeOK /\ Numbered /\ BusTypeOK' /\ S >= Q + G + R
  BY StepTypeOK DEF IInv, RunningIsServed
<1>b. IsFiniteSet(Serving) /\ S \in Nat /\ IsFiniteSet(Serving') /\ S' \in Nat
  BY ServingFinite DEF Serving
<1>c. IsFiniteSet(Signalling) /\ G \in Nat /\ IsFiniteSet(Signalling') /\ G' \in Nat
  BY SignallingFinite DEF Signalling
<1>d. Sentinels = SentinelsIn(queue) /\ Sentinels' = SentinelsIn(queue')  BY DEF Sentinels, SentinelsIn
<1>e. queue \in Seq(Event \cup {Sentinel}) /\ queue' \in Seq(Event \cup {Sentinel})
  BY <1>a DEF BusTypeOK
<1>f. Q \in Nat /\ Q' \in Nat  BY <1>d, <1>e, SentinelsFinite
<1>g. running \in BOOLEAN /\ running' \in BOOLEAN  BY <1>a DEF BusTypeOK
<1>h. UNCHANGED thread => S' = S  BY DEF Serving
<1>i. UNCHANGED queue => Q' = Q  BY <1>d
<1>j. UNCHANGED stopper => G' = G  BY DEF Signalling
<1>k. SUFFICES S' >= Q' + G' + R'  BY DEF RunningIsServed
<1> HIDE DEF S, Q, G
<1>1. CASE UNCHANGED vars  BY <1>1, <1>a, <1>h, <1>i, <1>j DEF vars
<1>2. ASSUME NEW h \in Handlers, Subscribe(h) \/ Unsubscribe(h) PROVE S' >= Q' + G' + R'
  BY <1>2, <1>a, <1>h, <1>i, <1>j DEF Subscribe, Unsubscribe, busVars
<1>3. ASSUME NEW p \in Publishers, Publish(p) PROVE S' >= Q' + G' + R'
  BY <1>3, <1>a, <1>h, <1>i, <1>j DEF Publish, busVars
<1>4. ASSUME NEW p \in Publishers, EnsureStarted(p) PROVE S' >= Q' + G' + R'
  <2>1. UNCHANGED <<queue, stopper>>  BY <1>4 DEF EnsureStarted
  <2>2. CASE UNCHANGED <<busVars, thread>>
    BY <2>1, <2>2, <1>a, <1>h, <1>i, <1>j DEF busVars
  <2>3. ASSUME NEW d \in Dispatchers, thread[d] = "unborn", thread' = [thread EXCEPT ![d] = "waiting"],
               running' = TRUE
        PROVE  S' >= Q' + G' + R'
    <3>1. Serving' = Serving \cup {d} /\ d \notin Serving  BY <1>a, <2>3 DEF Serving, BusTypeOK
    <3>2. S' = S + 1  BY <1>b, <3>1, FS_AddElement DEF S
    <3> QED  BY <1>a, <1>b, <1>c, <1>f, <1>i, <1>j, <2>1, <2>3, <3>2
  <2> QED  BY <1>4, <2>2, <2>3 DEF EnsureStarted
<1>5. ASSUME NEW p \in Publishers, Put(p) PROVE S' >= Q' + G' + R'
  <2> DEFINE e == [id |-> <<p, publisher[p].n>>, todo |-> publisher[p].todo]
  <2>1. publisher[p].n \in 1..MaxPublished /\ publisher[p].todo \in Seq(Handlers)
    BY <1>5, <1>a DEF Put, Numbered, BusTypeOK
  <2>2. e \in Event /\ e # Sentinel  BY <2>1 DEF Event, EventIds, Sentinel
  <2>3. queue' = Append(queue, e)  BY <1>5 DEF Put
  <2> HIDE DEF e
  <2>4. Q' = Q  BY <1>d, <1>e, <1>f, <2>2, <2>3, SentinelsAppended DEF Q
  <2> QED  BY <1>5, <1>a, <1>h, <1>j, <2>4 DEF Put, busVars
<1>6. ASSUME NEW s \in Stoppers, Stop(s) PROVE S' >= Q' + G' + R'
  <2>1. Signalling' = Signalling \cup {s} /\ s \notin Signalling
    BY <1>6, <1>a DEF Stop, StopAgain, Signalling, BusTypeOK
  <2>2. G' = G + 1  BY <1>c, <2>1, FS_AddElement DEF G
  <2>3. running /\ ~running' /\ UNCHANGED <<queue, thread>>  BY <1>6 DEF Stop, StopAgain
  <2> QED  BY <1>a, <1>b, <1>c, <1>f, <1>h, <1>i, <2>2, <2>3
<1>7. ASSUME NEW s \in Stoppers, Signal(s) PROVE S' >= Q' + G' + R'
  <2>1. Signalling' = Signalling \ {s} /\ s \in Signalling  BY <1>7, <1>a DEF Signal, Signalling, BusTypeOK
  <2>2. G' = G - 1  BY <1>c, <2>1, FS_RemoveElement DEF G
  <2>3. queue' = Append(queue, Sentinel) /\ UNCHANGED <<thread, running>>  BY <1>7 DEF Signal, busVars
  <2>4. Q' = Q + 1  BY <1>d, <1>e, <1>f, <2>3, SentinelsAppended DEF Q
  <2> QED  BY <1>a, <1>b, <1>c, <1>f, <1>h, <2>2, <2>3, <2>4
<1>8. ASSUME NEW s \in Stoppers, Join(s) \/ Forget(s) PROVE S' >= Q' + G' + R'
  <2>1. Signalling' = Signalling  BY <1>8, <1>a DEF Join, Forget, Signalling, BusTypeOK
  <2>2. G' = G  BY <2>1 DEF G
  <2> QED  BY <1>8, <1>a, <1>h, <1>i, <2>2 DEF Join, Forget, busVars
<1>9. ASSUME NEW d \in Dispatchers, Take(d) \/ Drain(d) PROVE S' >= Q' + G' + R'
  <2>1. queue # <<>> /\ queue' = Tail(queue) /\ UNCHANGED <<running, stopper>>
    BY <1>9 DEF Take, Drain, Rest, busVars
  <2>2. IF Head(queue) = Sentinel THEN Q' = Q - 1 ELSE Q' = Q
    <3>1. Cardinality(SentinelsIn(queue')) \in Nat  BY <1>e, SentinelsFinite
    <3> QED  BY <1>d, <1>e, <2>1, <3>1, SentinelsTaken DEF Q
  <2>3. CASE Head(queue) = Sentinel /\ Take(d)
    <3>1. Serving' = Serving \ {d} /\ d \in Serving
      BY <1>a, <2>3 DEF Take, StartDraining, Serving, BusTypeOK
    <3>2. S' = S - 1  BY <1>b, <3>1, FS_RemoveElement DEF S
    <3>3. Q' = Q - 1  BY <2>2, <2>3
    <3> QED  BY <1>a, <1>b, <1>c, <1>f, <1>j, <2>1, <3>2, <3>3
  <2>4. CASE ~(Head(queue) = Sentinel /\ Take(d))
    <3>1. Serving' = Serving
      BY <1>9, <1>a, <2>4 DEF Take, Drain, Serving, BusTypeOK
    <3>2. S' = S  BY <3>1 DEF S
    <3>3. CASE Q' = Q  BY <1>a, <1>b, <1>c, <1>f, <1>j, <2>1, <3>2, <3>3
    <3>4. CASE Q' = Q - 1  BY <1>a, <1>b, <1>c, <1>f, <1>j, <2>1, <3>2, <3>4
    <3> QED  BY <2>2, <3>3, <3>4
  <2> QED  BY <2>3, <2>4
<1>10. ASSUME NEW d \in Dispatchers, Exit(d) \/ Call(d) \/ Done(d) PROVE S' >= Q' + G' + R'
  <2>1. Serving' = Serving
    <3>1. CASE Exit(d) \/ Call(d)  BY <1>a, <3>1 DEF Exit, Call, Serving, BusTypeOK
    <3>2. CASE Done(d)  BY <1>a, <3>2 DEF Done, Serving, BusTypeOK
    <3> QED  BY <1>10, <3>1, <3>2
  <2>2. S' = S  BY <2>1 DEF S
  <2> QED  BY <1>10, <1>a, <1>i, <1>j, <2>2 DEF Exit, Call, Done, busVars
<1>11. ASSUME NEW s \in Stoppers, NEW p \in Publishers, PublishRaises(s, p) PROVE S' >= Q' + G' + R'
  <2>1. Signalling' = Signalling  BY <1>11, <1>a DEF PublishRaises, Signalling, BusTypeOK
  <2>2. G' = G  BY <2>1 DEF G
  <2> QED  BY <1>11, <1>a, <1>h, <1>i, <2>2 DEF PublishRaises
<1> QED  BY <1>1, <1>2, <1>3, <1>4, <1>5, <1>6, <1>7, <1>8, <1>9, <1>10, <1>11
         DEF Next, Publishing, Stopping, Dispatch

-----------------------------------------------------------------------------
(* Where events are.                                                         *)

LEMMA StepFreeHands == IInv /\ [Next]_vars => FreeHands'
<1> SUFFICES ASSUME IInv, [Next]_vars PROVE FreeHands'  OBVIOUS
<1> USE DEF FreeHands
<1>1. /\ FreeHands /\ holding \in [Dispatchers -> Event \cup {NoEvent}]
      /\ thread \in [Dispatchers -> {"unborn", "waiting", "handling", "draining", "finishing", "dead"}]
  BY DEF IInv, BusTypeOK
<1>2. CASE UNCHANGED <<thread, holding>>  BY <1>1, <1>2
<1>3. ASSUME NEW p \in Publishers, EnsureStarted(p) PROVE FreeHands'
  BY <1>1, <1>3 DEF EnsureStarted
<1>4. ASSUME NEW d \in Dispatchers, Dispatch(d) PROVE FreeHands'
  <2>1. CASE Take(d)  BY <1>1, <2>1 DEF Take, StartDraining
  <2>2. CASE Drain(d)  BY <1>1, <2>2 DEF Drain
  <2>3. CASE Exit(d) \/ Call(d) \/ Done(d)  BY <1>1, <2>3 DEF Exit, Call, Done
  <2> QED  BY <1>4, <2>1, <2>2, <2>3 DEF Dispatch
<1> QED
  BY <1>2, <1>3, <1>4 DEF Next, Publishing, Stopping, Subscribe, Unsubscribe, Publish, Put, Stop, StopAgain,
     Signal, Join, Forget, PublishRaises, vars

\* An event that no step moves, numbers or calls stays placed; the queue may have
\* lost k elements at its head.
LEMMA Unmoved ==
    ASSUME NEW id \in EventIds, Placed(id), NEW k \in {0, 1}, DOMAIN queue' \subseteq Nat,
           \A i \in DOMAIN queue' : queue'[i].id = id => i + k \in DOMAIN queue /\ queue'[i] = queue[i + k],
           Queued(id) => Queued(id)',
           \A d \in Dispatchers : holding'[d] = holding[d] \/ (holding'[d].id # id /\ holding[d].id # id),
           \A p \in Publishers : /\ Publishes(p, id)' <=> Publishes(p, id)
                                 /\ Publishes(p, id) => publisher'[p].todo = publisher[p].todo,
           owed'[id] = owed[id], Unpublished(id)' => Unpublished(id)
    PROVE  Placed(id)'
<1>1. (Queued(id)' <=> Queued(id)) /\ (Held(id)' <=> Held(id))  BY DEF Queued, Held
<1>2. \A d \in Dispatchers : holding'[d].id = id => holding'[d] = holding[d]  OBVIOUS
<1>3. /\ \A i, j \in DOMAIN queue' : queue'[i].id = id /\ queue'[j].id = id => i = j
      /\ \A i \in DOMAIN queue' : queue'[i].id = id => queue'[i].todo = owed'[id]
  BY DEF Placed
<1>4. /\ \A d, e \in Dispatchers : holding'[d].id = id /\ holding'[e].id = id => d = e
      /\ \A d \in Dispatchers : holding'[d].id = id => holding'[d].todo = owed'[id]
  BY <1>2 DEF Placed
<1>5. \A p \in Publishers : Publishes(p, id)' => publisher'[p].todo = owed'[id]
  BY DEF Placed, Publishes
<1>6. \A p \in Publishers : Publishes(p, id)' <=> Publishes(p, id)  OBVIOUS
<1>7. /\ Queued(id) => ~Held(id)
      /\ Queued(id) \/ Held(id) => \A p \in Publishers : ~Publishes(p, id)
      /\ Unpublished(id) => ~Queued(id) /\ ~Held(id) /\ owed[id] = <<>>
      /\ owed[id] # <<>> => (\E p \in Publishers : Publishes(p, id)) \/ Queued(id) \/ Held(id)
  BY DEF Placed
<1>8. /\ (Queued(id) => ~Held(id))'
      /\ (Queued(id) \/ Held(id) => \A p \in Publishers : ~Publishes(p, id))'
      /\ (Unpublished(id) => ~Queued(id) /\ ~Held(id) /\ owed[id] = <<>>)'
      /\ (owed[id] # <<>> => (\E p \in Publishers : Publishes(p, id)) \/ Queued(id) \/ Held(id))'
  BY <1>1, <1>6, <1>7
<1> QED  BY <1>3, <1>4, <1>5, <1>8 DEF Placed

LEMMA StepPlaces == IInv /\ [Next]_vars => OnePlace'
<1> SUFFICES ASSUME IInv, [Next]_vars, NEW id \in EventIds PROVE Placed(id)'  BY DEF OnePlace
<1>a. /\ BusTypeOK /\ Numbered /\ Placed(id) /\ FreeHands
      /\ queue \in Seq(Event \cup {Sentinel})
      /\ Len(queue) \in Nat /\ DOMAIN queue = 1..Len(queue)
      /\ publisher \in [Publishers -> [pc : {"idle", "check", "put"}, n : 0..MaxPublished,
                                       todo : Seq(Handlers)]]
      /\ holding \in [Dispatchers -> Event \cup {NoEvent}]
      /\ owed \in [EventIds -> Seq(Handlers)]
  BY LenProperties DEF IInv, BusTypeOK, OnePlace
<1>b. UNCHANGED queue => /\ Queued(id)' <=> Queued(id)
                         /\ \A i \in DOMAIN queue' : i + 0 \in DOMAIN queue /\ queue'[i] = queue[i + 0]
                         /\ DOMAIN queue' \subseteq Nat
  BY <1>a DEF Queued
<1>c. UNCHANGED publisher => /\ \A p \in Publishers : /\ Publishes(p, id)' <=> Publishes(p, id)
                                                      /\ publisher'[p].todo = publisher[p].todo
                             /\ Unpublished(id)' <=> Unpublished(id)
  BY DEF Publishes, Unpublished
<1>d. Sentinel.id # id /\ NoEvent.id # id  BY DEF Sentinel, NoEvent, EventIds
<1>1. CASE UNCHANGED <<queue, holding, publisher, owed>>
  BY <1>1, <1>a, <1>b, <1>c, Unmoved
<1>3. ASSUME NEW p \in Publishers, Publish(p) PROVE Placed(id)'
  <2>1. /\ UNCHANGED <<queue, holding>> /\ publisher[p].pc = "idle" /\ publisher[p].n \in Nat
        /\ \A q \in Publishers \ {p} : publisher'[q] = publisher[q]
        /\ publisher'[p] = [pc |-> "check", n |-> publisher[p].n + 1, todo |-> subscribers]
    BY <1>3, <1>a DEF Publish
  <2>2. CASE id = <<p, publisher[p].n + 1>>
    <3>1. Unpublished(id)  BY <2>1, <2>2 DEF Unpublished
    <3>2. ~Queued(id)' /\ ~Held(id)'  BY <1>a, <2>1, <3>1 DEF Placed, Queued, Held
    <3>3. owed'[id] = subscribers  BY <1>3, <1>a, <2>2 DEF Publish
    <3>4. \A q \in Publishers : Publishes(q, id)' <=> q = p  BY <2>1, <2>2 DEF Publishes
    <3>5. ~Unpublished(id)'  BY <2>1, <2>2 DEF Unpublished
    <3> QED  BY <2>1, <3>2, <3>3, <3>4, <3>5 DEF Placed, Queued, Held
  <2>3. CASE id # <<p, publisher[p].n + 1>>
    <3>1. owed'[id] = owed[id]  BY <1>3, <1>a, <2>3 DEF Publish
    <3>2. \A q \in Publishers : /\ Publishes(q, id)' <=> Publishes(q, id)
                                /\ Publishes(q, id) => publisher'[q].todo = publisher[q].todo
      BY <2>1, <2>3 DEF Publishes
    <3>3. Unpublished(id)' => Unpublished(id)
      <4> SUFFICES ASSUME NEW q \in Publishers, NEW n \in Nat, id = <<q, n>>, n > publisher'[q].n
                   PROVE  n > publisher[q].n
        BY DEF Unpublished
      <4> QED  BY <2>1
    <3> QED  BY <1>a, <1>b, <2>1, <3>1, <3>2, <3>3, Unmoved
  <2> QED  BY <2>2, <2>3
<1>4. ASSUME NEW p \in Publishers, EnsureStarted(p) PROVE Placed(id)'
  <2>1. /\ UNCHANGED <<queue, holding, owed>> /\ publisher[p].pc = "check" /\ publisher'[p].pc = "put"
        /\ \A q \in Publishers : publisher'[q].n = publisher[q].n /\ publisher'[q].todo = publisher[q].todo
        /\ \A q \in Publishers \ {p} : publisher'[q] = publisher[q]
    BY <1>4, <1>a DEF EnsureStarted
  <2>2. \A q \in Publishers : Publishes(q, id)' <=> Publishes(q, id)  BY <2>1 DEF Publishes
  <2>3. Unpublished(id)' => Unpublished(id)  BY <2>1 DEF Unpublished
  <2> QED  BY <1>a, <1>b, <2>1, <2>2, <2>3, Unmoved
<1>5. ASSUME NEW p \in Publishers, Put(p) PROVE Placed(id)'
  <2> DEFINE e == [id |-> <<p, publisher[p].n>>, todo |-> publisher[p].todo]
  <2>1. /\ queue' = Append(queue, e) /\ UNCHANGED <<holding, owed>>
        /\ publisher[p].pc = "put" /\ publisher'[p].pc = "idle" /\ publisher[p].n \in Nat
        /\ \A q \in Publishers : publisher'[q].n = publisher[q].n
        /\ \A q \in Publishers \ {p} : publisher'[q] = publisher[q]
    BY <1>5, <1>a DEF Put
  <2>2. e.id = <<p, publisher[p].n>> /\ e.todo = publisher[p].todo  OBVIOUS
  <2> HIDE DEF e
  <2>3. /\ DOMAIN queue' = 1..(Len(queue) + 1) /\ queue'[Len(queue) + 1] = e
        /\ \A i \in 1..Len(queue) : queue'[i] = queue[i]
    BY <1>a, <2>1
  <2>4. Unpublished(id)' => Unpublished(id)  BY <2>1 DEF Unpublished
  <2>5. CASE id = e.id
    <3>1. Publishes(p, id)  BY <2>1, <2>2, <2>5 DEF Publishes
    <3>2. ~Queued(id) /\ ~Held(id) /\ publisher[p].todo = owed[id]  BY <1>a, <3>1 DEF Placed
    <3>3. \A q \in Publishers : ~Publishes(q, id)'  BY <2>1, <2>2, <2>5 DEF Publishes
    <3>4. ~Unpublished(id)  BY <2>1, <2>2, <2>5 DEF Unpublished
    <3>5. \A i \in DOMAIN queue' : queue'[i].id = id => i = Len(queue) + 1
      BY <1>a, <2>3, <3>2 DEF Queued
    <3>6. Queued(id)' /\ ~Held(id)' /\ e.todo = owed'[id]
      <4>1. Len(queue) + 1 \in DOMAIN queue' /\ queue'[Len(queue) + 1].id = id  BY <1>a, <2>3, <2>5
      <4>2. Queued(id)'  BY <4>1 DEF Queued
      <4>3. ~Held(id)'  BY <2>1, <3>2 DEF Held
      <4> QED  BY <2>1, <2>2, <3>2, <4>2, <4>3
    <3> QED  BY <1>a, <2>1, <2>3, <2>4, <3>3, <3>4, <3>5, <3>6 DEF Placed, Held
  <2>6. CASE id # e.id
    <3>1. \A q \in Publishers : /\ Publishes(q, id)' <=> Publishes(q, id)
                                /\ Publishes(q, id) => publisher'[q].todo = publisher[q].todo
      BY <2>1, <2>2, <2>6 DEF Publishes
    <3>2. \A i \in DOMAIN queue' : queue'[i].id = id => i + 0 \in DOMAIN queue /\ queue'[i] = queue[i + 0]
      BY <1>a, <2>3, <2>6
    <3>3. Queued(id) => Queued(id)'  BY <1>a, <2>3 DEF Queued
    <3>4. DOMAIN queue' \subseteq Nat  BY <1>a, <2>3
    <3> QED  BY <1>a, <2>1, <2>4, <3>1, <3>2, <3>3, <3>4, Unmoved
  <2> QED  BY <2>5, <2>6
<1>6. ASSUME NEW s \in Stoppers, Signal(s) PROVE Placed(id)'
  <2>1. queue' = Append(queue, Sentinel) /\ UNCHANGED <<holding, owed, publisher>>  BY <1>6 DEF Signal
  <2>2. /\ DOMAIN queue' = 1..(Len(queue) + 1) /\ queue'[Len(queue) + 1] = Sentinel
        /\ \A i \in 1..Len(queue) : queue'[i] = queue[i]
    BY <1>a, <2>1
  <2>3. \A i \in DOMAIN queue' : queue'[i].id = id => i + 0 \in DOMAIN queue /\ queue'[i] = queue[i + 0]
    BY <1>a, <1>d, <2>2
  <2>4. Queued(id) => Queued(id)'  BY <1>a, <2>2 DEF Queued
  <2>5. DOMAIN queue' \subseteq Nat  BY <1>a, <2>2
  <2> QED  BY <1>a, <1>c, <2>1, <2>3, <2>4, <2>5, Unmoved
<1>7. ASSUME NEW d \in Dispatchers, Take(d) \/ Drain(d) PROVE Placed(id)'
  <2>1. queue # <<>> /\ queue' = Tail(queue) /\ UNCHANGED <<publisher, owed>>
    BY <1>7 DEF Take, Drain, Rest
  <2>2. /\ DOMAIN queue' = 1..(Len(queue) - 1) /\ Head(queue) = queue[1] /\ 1 \in DOMAIN queue
        /\ \A i \in 1..(Len(queue) - 1) : queue'[i] = queue[i + 1] /\ i + 1 \in DOMAIN queue
    BY <1>a, <2>1, HeadTailProperties, LenProperties
  <2>3. DOMAIN queue' \subseteq Nat  BY <1>a, <2>2
  <2>4. holding[d] = NoEvent  BY <1>7, <1>a DEF Take, Drain, FreeHands
  <2>5. IF Head(queue) = Sentinel THEN UNCHANGED holding ELSE holding' = [holding EXCEPT ![d] = Head(queue)]
    BY <1>7 DEF Take, Drain
  <2>6. CASE Head(queue).id # id
    <3>1. Queued(id) => Queued(id)'
      <4> SUFFICES ASSUME NEW i \in DOMAIN queue, queue[i].id = id, i # 1 PROVE Queued(id)'
        BY <2>2, <2>6 DEF Queued
      <4>1. i - 1 \in 1..(Len(queue) - 1) /\ (i - 1) + 1 = i  BY <1>a
      <4> QED  BY <2>2, <4>1 DEF Queued
    <3>2. \A e \in Dispatchers : holding'[e] = holding[e] \/ (holding'[e].id # id /\ holding[e].id # id)
      BY <1>a, <1>d, <2>4, <2>5, <2>6
    <3> QED  BY <1>a, <1>c, <2>1, <2>2, <2>3, <3>1, <3>2, Unmoved
  <2>7. CASE Head(queue).id = id
    <3>1. /\ holding'[d] = Head(queue) /\ Head(queue) = queue[1]
          /\ \A e \in Dispatchers \ {d} : holding'[e] = holding[e]
      BY <1>a, <1>d, <2>2, <2>5, <2>7
    <3>2. Queued(id)  BY <2>2, <2>7 DEF Queued
    <3>3. ~Held(id) /\ Head(queue).todo = owed[id] /\ \A p \in Publishers : ~Publishes(p, id)
      BY <1>a, <2>2, <2>7, <3>2 DEF Placed
    <3>4. ~Queued(id)'
      <4> SUFFICES ASSUME NEW i \in DOMAIN queue', queue'[i].id = id PROVE FALSE  BY DEF Queued
      <4>1. i + 1 \in DOMAIN queue /\ queue[i + 1].id = id /\ i + 1 # 1  BY <1>a, <2>2
      <4> QED  BY <1>a, <2>2, <2>7, <4>1 DEF Placed
    <3>5. Held(id)' /\ \A e \in Dispatchers : holding'[e].id = id => e = d
      BY <2>7, <3>1, <3>3 DEF Held
    <3>6. ~Unpublished(id)'  BY <1>a, <1>c, <2>1, <3>2 DEF Placed
    <3> QED  BY <1>c, <2>1, <3>1, <3>3, <3>4, <3>5, <3>6 DEF Placed, Queued
  <2> QED  BY <2>6, <2>7
<1>8. ASSUME NEW d \in Dispatchers, Call(d) PROVE Placed(id)'
  <2>1. holding[d] \in Event /\ holding[d].id \in EventIds /\ owed[holding[d].id] = holding[d].todo
    BY <1>8, OwedTyped DEF IInv
  <2>2. /\ UNCHANGED <<queue, publisher>>
        /\ \A e \in Dispatchers \ {d} : holding'[e] = holding[e]
        /\ holding'[d].id = holding[d].id /\ holding'[d].todo = Tail(holding[d].todo)
        /\ holding[d].todo # <<>>
    BY <1>8, <1>a, <2>1 DEF Call, Event
  <2>3. CASE holding[d].id # id
    <3>1. owed'[id] = owed[id]  BY <1>8, <1>a, <2>3 DEF Call
    <3> QED  BY <1>a, <1>b, <1>c, <2>2, <2>3, <3>1, Unmoved
  <2>4. CASE holding[d].id = id
    <3>1. owed'[id] = Tail(owed[id])  BY <1>8, <1>a, <2>4 DEF Call
    <3>2. Held(id) /\ Held(id)'  BY <2>2, <2>4 DEF Held
    <3>3. ~Queued(id) /\ (\A p \in Publishers : ~Publishes(p, id)) /\ ~Unpublished(id)
      BY <1>a, <3>2 DEF Placed
    <3>4. \A e \in Dispatchers : holding'[e].id = id => e = d  BY <1>a, <2>2, <2>4 DEF Placed
    <3>5. ~Queued(id)' /\ (\A p \in Publishers : ~Publishes(p, id)') /\ ~Unpublished(id)'
      BY <1>b, <1>c, <2>2, <3>3
    <3> QED  BY <2>1, <2>2, <2>4, <3>1, <3>2, <3>4, <3>5 DEF Placed, Queued
  <2> QED  BY <2>3, <2>4
<1>9. ASSUME NEW d \in Dispatchers, Done(d) PROVE Placed(id)'
  <2>1. /\ holding[d].todo = <<>> /\ UNCHANGED <<queue, publisher, owed>> /\ holding'[d] = NoEvent
        /\ \A e \in Dispatchers \ {d} : holding'[e] = holding[e]
    BY <1>9, <1>a DEF Done
  <2>2. CASE holding[d].id # id  BY <1>a, <1>b, <1>c, <1>d, <2>1, <2>2, Unmoved
  <2>3. CASE holding[d].id = id
    <3>1. Held(id)  BY <2>3 DEF Held
    <3>2. ~Queued(id)' /\ (\A p \in Publishers : ~Publishes(p, id)') /\ ~Unpublished(id)' /\ owed'[id] = <<>>
      BY <1>a, <1>b, <1>c, <2>1, <2>3, <3>1 DEF Placed
    <3>3. \A e \in Dispatchers : holding'[e].id # id  BY <1>a, <1>d, <2>1, <2>3 DEF Placed
    <3> QED  BY <3>2, <3>3 DEF Placed, Held, Queued
  <2> QED  BY <2>2, <2>3
<1>10. ASSUME NEW s \in Stoppers, NEW p \in Publishers, PublishRaises(s, p) PROVE Placed(id)'
  <2>1. /\ publisher[p].pc = "check" /\ publisher'[p].pc = "idle" /\ UNCHANGED <<queue, holding>>
        /\ \A q \in Publishers : publisher'[q].n = publisher[q].n
        /\ \A q \in Publishers \ {p} : publisher'[q] = publisher[q]
    BY <1>10, <1>a DEF PublishRaises
  <2>2. Unpublished(id)' => Unpublished(id)  BY <2>1 DEF Unpublished
  <2>3. CASE id = <<p, publisher[p].n>>
    <3>1. Publishes(p, id)  BY <2>1, <2>3 DEF Publishes
    <3>2. ~Queued(id)' /\ ~Held(id)'  BY <1>a, <2>1, <3>1 DEF Placed, Queued, Held
    <3>3. owed'[id] = <<>>  BY <1>10, <1>a, <2>3 DEF PublishRaises
    <3>4. \A q \in Publishers : ~Publishes(q, id)'  BY <2>1, <2>3 DEF Publishes
    <3> QED  BY <3>2, <3>3, <3>4 DEF Placed, Queued, Held
  <2>4. CASE id # <<p, publisher[p].n>>
    <3>1. owed'[id] = owed[id]  BY <1>10, <1>a, <2>4 DEF PublishRaises
    <3>2. \A q \in Publishers : /\ Publishes(q, id)' <=> Publishes(q, id)
                                /\ Publishes(q, id) => publisher'[q].todo = publisher[q].todo
      BY <2>1, <2>4 DEF Publishes
    <3> QED  BY <1>a, <1>b, <2>1, <2>2, <3>1, <3>2, Unmoved
  <2> QED  BY <2>3, <2>4
<1>11. ASSUME NEW d \in Dispatchers, Exit(d) PROVE UNCHANGED <<queue, holding, publisher, owed>>
  BY <1>11 DEF Exit
<1>12. ASSUME NEW s \in Stoppers, Stop(s) \/ Join(s) \/ Forget(s)
       PROVE  UNCHANGED <<queue, holding, publisher, owed>>
  BY <1>12 DEF Stop, StopAgain, Join, Forget
<1>13. ASSUME NEW h \in Handlers, Subscribe(h) \/ Unsubscribe(h)
       PROVE  UNCHANGED <<queue, holding, publisher, owed>>
  BY <1>13 DEF Subscribe, Unsubscribe
<1>14. UNCHANGED vars => UNCHANGED <<queue, holding, publisher, owed>>  BY DEF vars
<1> QED  BY <1>1, <1>3, <1>4, <1>5, <1>6, <1>7, <1>8, <1>9, <1>10, <1>11, <1>12, <1>13, <1>14
         DEF Next, Publishing, Stopping, Dispatch

-----------------------------------------------------------------------------
\* The inductive invariant holds in every reachable state.
LEMMA Inductive == Spec => []IInv
<1>1. IInv /\ [Next]_vars => IInv'  BY StepTypeOK, StepServed, StepFreeHands, StepPlaces DEF IInv
<1> QED  BY <1>1, InitIInv, PTL DEF Spec

\* For any number of threads the bus's state stays well formed: what is queued is
\* an event or a sentinel, and a dispatcher that calls handlers holds an event.
THEOREM TypeCorrect == Spec => []BusTypeOK
BY Inductive, PTL DEF IInv

\* A bus that runs has a dispatcher to serve it, and one more for every sentinel
\* under way, for any number of publishers that start it and callers that stop it.
THEOREM RunningServed == Spec => []RunningIsServed
BY Inductive, PTL DEF IInv

\* For any number of publishers, subscribers, stops and dispatchers: every handler
\* an event was published for is called with it once, and nothing else is.
THEOREM DeliveredOnce == Spec => []OnceInFull
<1>1. IInv => OnceInFull  BY DEF IInv, OnePlace, Placed, OnceInFull
<1> QED  BY <1>1, Inductive, PTL
=============================================================================
