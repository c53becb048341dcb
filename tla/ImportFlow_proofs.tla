-------------------------- MODULE ImportFlow_proofs --------------------------
(***************************************************************************)
(* For every number of downloads, threads and names: what the library      *)
(* mutex gives the threads of process_batch, and what the I/O guards give  *)
(* the library.                                                            *)
(***************************************************************************)
EXTENDS ImportFlow, TLAPS

\* A thread of process_batch is at work exactly while it has the mutex.
MutexHeld == \A t \in Batches : worker[t].pc \notin {"idle", "waiting"} <=> mutex = t

\* A thread that does nothing has no batch, and one that finalises outside the
\* mutex never has one.
NoBatchLeft ==
    /\ \A t \in Batches : worker[t].pc = "idle" => worker[t].todo = {}
    /\ \A t \in Reviewers : worker[t].pc \notin {"waiting", "filter", "next"}

\* A batch finalises a file of its own, and what a broken batch left registered is
\* no other batch's.
OwnFile ==
    /\ \A t \in Batches : worker[t].pc \in Finalising => worker[t].at \in worker[t].todo
    /\ InFlight \cap abandoned = {}

\* What is not yet complete, and whose writer never paused, has no settled age, no
\* review task, and no thread that will finalise it.
NotYet(d) == file[d] \in {"awaited", "growing"} /\ d \notin paused
GuardsHold ==
    \A d \in Downloads : NotYet(d) =>
        /\ age[d] # "settled" /\ review[d] = "none"
        /\ \A t \in Threads : /\ worker[t].at # d
                              /\ d \in worker[t].todo => worker[t].pc \in {"waiting", "filter"}

\* The name that a batch chose is not one that a batch has used since.
NameFree == \A t \in Batches : worker[t].pc = "move" => ~library[worker[t].slot].batch

IInv == /\ ImportTypeOK /\ MutexHeld /\ NoBatchLeft /\ ProcessingAccounted /\ OwnFile
        /\ GuardsHold /\ NameFree

USE ImportAssumption DEF ImportAssumption

-----------------------------------------------------------------------------
LEMMA InitIInv == Init => IInv
<1> SUFFICES ASSUME Init PROVE IInv  OBVIOUS
<1> USE DEF Init, Idle, Free, Batches, Threads
<1>1. ImportTypeOK  BY DEF ImportTypeOK, Slots, Present, Task, Finalising, Held
<1>2. MutexHeld /\ NoBatchLeft  BY DEF MutexHeld, NoBatchLeft
<1>3. ProcessingAccounted /\ OwnFile  BY DEF ProcessingAccounted, OwnFile, InFlight, Finalising
<1>4. GuardsHold /\ NameFree  BY DEF GuardsHold, NotYet, NameFree
<1> QED  BY <1>1, <1>2, <1>3, <1>4 DEF IInv

-----------------------------------------------------------------------------
\* What a step does to one thread's record keeps the records' type.
Tasked == /\ worker \in [Threads -> Task]
          /\ \A t \in Threads : worker[t].at # NoOne <=> worker[t].pc \in Finalising

LEMMA Reassigned ==
    ASSUME ImportTypeOK, NEW t \in Threads, NEW w \in Task, w.at # NoOne <=> w.pc \in Finalising,
           worker' = [worker EXCEPT ![t] = w]
    PROVE  Tasked'
<1>1. worker \in [Threads -> Task] /\ Tasked  BY DEF ImportTypeOK, Tasked
<1>2. worker' \in [Threads -> Task]  BY <1>1
<1>3. \A u \in Threads : worker'[u] = IF u = t THEN w ELSE worker[u]  BY <1>1
<1> QED  BY <1>1, <1>2, <1>3 DEF Tasked

LEMMA Slot0 == 0 \in Slots  BY DEF Slots

LEMMA IdleTyped == Idle \in Task /\ Idle.at = NoOne /\ Idle.pc \notin Finalising
BY Slot0 DEF Idle, Task, Finalising

\* The batch goes on with its next file.
LEMMA DecidedTyped ==
    ASSUME ImportTypeOK, NEW t \in Threads, NEW d \in Downloads, Decided(t, d)
    PROVE  Tasked' /\ processing' \subseteq Downloads
<1> DEFINE w == [Idle EXCEPT !.pc = "next", !.todo = worker[t].todo \ {d}]
<1>1. worker[t].todo \subseteq Downloads  BY DEF ImportTypeOK, Task
<1>2. w \in Task  BY <1>1, Slot0 DEF Idle, Task
<1>3. w.at = NoOne /\ w.pc = "next"  BY DEF Idle
<1>4. worker' = [worker EXCEPT ![t] = w]  BY DEF Decided
<1>5. Tasked'
  <2> HIDE DEF w
  <2> QED  BY <1>2, <1>3, <1>4, Reassigned DEF Finalising
<1> QED  BY <1>5 DEF Decided, ImportTypeOK

LEMMA AskedTyped ==
    ASSUME ImportTypeOK, NEW d \in Downloads, NEW n \in 0..MaxFaults, Asked(d, n)
    PROVE  /\ review' \in [Downloads -> {"none", "pending", "ignored", "closed"}]
           /\ faults' \in 0..MaxFaults
           /\ untasked' \cup paused' \cup abandoned' \subseteq Downloads
BY DEF Asked, ImportTypeOK

LEMMA FailTyped ==
    ASSUME ImportTypeOK, NEW t \in Threads, worker[t].pc \in Finalising,
           NEW n \in 0..MaxFaults, Fail(t, n)
    PROVE  /\ Tasked'
           /\ processing' \cup untasked' \cup paused' \cup abandoned' \subseteq Downloads
           /\ faults' \in 0..MaxFaults
           /\ review' \in [Downloads -> {"none", "pending", "ignored", "closed"}]
<1>1. At(t) \in Downloads  BY DEF ImportTypeOK, Task, At
<1>2. CASE t \in Batches /\ Asked(At(t), n) /\ Decided(t, At(t))
  BY <1>1, <1>2, DecidedTyped, AskedTyped
<1>3. CASE /\ worker' = [worker EXCEPT ![t] = Idle] /\ faults' = n
           /\ UNCHANGED <<review, processing, untasked, paused, abandoned>>
  BY <1>3, IdleTyped, Reassigned DEF ImportTypeOK
<1> QED  BY <1>2, <1>3 DEF Fail

LEMMA StepTypeOK == IInv /\ [Next]_vars => ImportTypeOK'
<1> SUFFICES ASSUME ImportTypeOK, MutexHeld, NoBatchLeft, [Next]_vars PROVE ImportTypeOK'  BY DEF IInv
<1> DEFINE Rest == /\ file \in [Downloads -> Present \cup {"awaited", "gone"}]
                   /\ age \in [Downloads -> {"fresh", "quiet", "settled"}]
                   /\ timer \subseteq Downloads
                   /\ library \in [Slots -> Held]
                   /\ review \in [Downloads -> {"none", "pending", "ignored", "closed"}]
                   /\ mutex \in Batches \cup {NoOne}
                   /\ processing \cup untasked \cup paused \cup abandoned \subseteq Downloads
                   /\ faults \in 0..MaxFaults
<1>a. Rest /\ Tasked  BY DEF ImportTypeOK, Tasked
<1>b. SUFFICES Rest' /\ Tasked'  BY DEF ImportTypeOK, Tasked
<1> USE <1>a DEF Present, OnDisk, env, aside
<1>1. CASE UNCHANGED vars  BY <1>1 DEF vars, Tasked
<1>2. ASSUME NEW d \in Downloads, Create(d) \/ MoveIn(d) \/ Grow(d) \/ Ripen(d) \/ Pause(d)
      PROVE  Rest' /\ Tasked'
  <2>1. CASE Pause(d)  BY <2>1 DEF Pause, Faulty, Tasked
  <2> QED  BY <1>2, <2>1 DEF Create, MoveIn, Grow, Ripen, Tasked
<1>3. ASSUME NEW d \in Downloads, Reject(d) \/ Ignore(d) \/ Expire(d) PROVE Rest' /\ Tasked'
  BY <1>3 DEF Reject, Ignore, Expire, Vanish, Tasked
<1>4. ASSUME NEW d \in Downloads, NEW t \in Watchers, Fire(t, d) PROVE Rest' /\ Tasked'
  <2> DEFINE w == [Idle EXCEPT !.pc = "waiting", !.todo = {d}]
  <2>1. w \in Task /\ w.at = NoOne /\ w.pc = "waiting"  BY Slot0 DEF Idle, Task
  <2>2. worker' = [worker EXCEPT ![t] = w]  BY <1>4 DEF Fire
  <2>3. Rest'  BY <1>4 DEF Fire
  <2> HIDE DEF w
  <2> QED  BY <2>1, <2>2, <2>3, Reassigned DEF Finalising, Threads, Batches
<1>5. ASSUME NEW d \in Downloads, NEW t \in Reviewers, Retry(t, d) \/ Approve(t, d) PROVE Rest' /\ Tasked'
  <2> DEFINE w(job) == [Idle EXCEPT !.pc = "tag", !.job = job, !.at = d]
  <2>1. ASSUME NEW job \in {"retry", "approval"} PROVE w(job) \in Task /\ w(job).at = d /\ w(job).pc = "tag"
    BY Slot0 DEF Idle, Task, Finalising
  <2>2. PICK job \in {"retry", "approval"} : worker' = [worker EXCEPT ![t] = w(job)]
    BY <1>5 DEF Retry, Approve
  <2>3. Rest'  BY <1>5 DEF Retry, Approve
  <2>4. w(job) \in Task /\ w(job).at # NoOne /\ w(job).pc \in Finalising  BY <2>1 DEF Finalising
  <2> HIDE DEF w
  <2> QED  BY <2>2, <2>3, <2>4, Reassigned DEF Threads
<1>6. ASSUME NEW again \in BOOLEAN, Scan(again) PROVE Rest' /\ Tasked'
  <2>1. PICK found \in SUBSET Downloads :
           worker' = [worker EXCEPT ![Scanner] = [Idle EXCEPT !.pc = "filter", !.todo = found]]
    BY <1>6 DEF Scan
  <2> DEFINE w == [Idle EXCEPT !.pc = "filter", !.todo = found]
  <2>2. w \in Task /\ w.at = NoOne /\ w.pc = "filter"  BY Slot0 DEF Idle, Task
  <2>3. Rest'  BY <1>6 DEF Scan, Batches
  <2>4. worker' = [worker EXCEPT ![Scanner] = w]  BY <2>1
  <2> HIDE DEF w
  <2> QED  BY <2>2, <2>3, <2>4, Reassigned DEF Finalising, Threads, Batches
<1>7. CASE TrackImported  BY <1>7 DEF TrackImported, Tasked
<1>8. ASSUME NEW t \in Threads, Work(t) PROVE Rest' /\ Tasked'
  <2>0. /\ worker[t] \in Task /\ worker[t].todo \subseteq Downloads
        /\ worker[t].at # NoOne <=> worker[t].pc \in Finalising
    BY DEF Tasked, Task
  <2>1. CASE Acquire(t)
    <3> DEFINE w == [worker[t] EXCEPT !.pc = "filter"]
    <3>1. worker[t].pc = "waiting"  BY <2>1 DEF Acquire, AcquireAnyway
    <3>2. t \in Batches  BY <3>1 DEF NoBatchLeft, Threads
    <3>3. w \in Task /\ w.at = NoOne /\ w.pc = "filter"  BY <2>0, <3>1 DEF Task, Finalising
    <3>4. Rest' /\ worker' = [worker EXCEPT ![t] = w]  BY <2>1, <3>2 DEF Acquire, AcquireAnyway
    <3> HIDE DEF w
    <3> QED  BY <3>3, <3>4, Reassigned DEF Finalising
  <2>2. CASE TimeOut(t) \/ Finish(t)
    BY <2>2, IdleTyped, Reassigned DEF TimeOut, Finish
  <2>10. CASE FilterBreaks(t)
    <3>1. PICK left \in SUBSET Downloads :
             processing' = processing \cup left /\ abandoned' = abandoned \cup left
      BY <2>0, <2>10 DEF FilterBreaks
    <3>2. worker' = [worker EXCEPT ![t] = Idle] /\ mutex' = NoOne /\ faults' \in 0..MaxFaults
      BY <2>10 DEF FilterBreaks, Faulty
    <3>3. UNCHANGED <<file, age, timer, library, review, untasked, paused>>
      BY <2>10 DEF FilterBreaks
    <3>4. Tasked'  BY <3>2, IdleTyped, Reassigned
    <3>5. Rest'  BY <3>1, <3>2, <3>3
    <3> QED  BY <3>4, <3>5
  <2>3. CASE Filter(t)
    <3>1. PICK kept \in SUBSET Downloads :
             /\ processing' = processing \cup kept
             /\ worker' = [worker EXCEPT ![t] = [worker[t] EXCEPT !.pc = "next", !.todo = kept]]
      BY <2>0, <2>3 DEF Filter
    <3> DEFINE w == [worker[t] EXCEPT !.pc = "next", !.todo = kept]
    <3>2. w \in Task /\ w.at = NoOne /\ w.pc = "next"  BY <2>0, <2>3 DEF Filter, Task, Finalising
    <3>3. Rest' /\ worker' = [worker EXCEPT ![t] = w]  BY <3>1, <2>3 DEF Filter
    <3> HIDE DEF w
    <3> QED  BY <3>2, <3>3, Reassigned DEF Finalising
  <2>4. CASE Resolve(t)
    <3>1. PICK d \in worker[t].todo :
             \/ /\ worker' = [worker EXCEPT ![t] = [worker[t] EXCEPT !.pc = "tag", !.at = d]]
                /\ UNCHANGED <<review, processing, aside>>
             \/ Asked(d, faults) /\ Decided(t, d)
      BY <2>4 DEF Resolve
    <3>2. d \in Downloads /\ UNCHANGED <<file, age, timer, library, mutex>>  BY <2>0, <2>4 DEF Resolve
    <3>3. CASE Asked(d, faults) /\ Decided(t, d)
      BY <3>2, <3>3, DecidedTyped, AskedTyped
    <3>4. CASE /\ worker' = [worker EXCEPT ![t] = [worker[t] EXCEPT !.pc = "tag", !.at = d]]
               /\ UNCHANGED <<review, processing, aside>>
      <4> DEFINE w == [worker[t] EXCEPT !.pc = "tag", !.at = d]
      <4>1. w \in Task /\ w.at # NoOne /\ w.pc \in Finalising  BY <2>0, <3>2 DEF Task, Finalising
      <4> HIDE DEF w
      <4> QED  BY <3>2, <3>4, <4>1, Reassigned DEF w
    <3> QED  BY <3>1, <3>3, <3>4
  <2>5. CASE Tag(t)
    <3> DEFINE w == [worker[t] EXCEPT !.pc = "place"]
    <3>1. worker[t].pc = "tag" /\ At(t) \in Downloads  BY <2>0, <2>5 DEF Tag, At, Task, Finalising
    <3>2. w \in Task /\ w.at # NoOne /\ w.pc \in Finalising  BY <2>0, <3>1 DEF Task, Finalising
    <3>3. Rest' /\ worker' = [worker EXCEPT ![t] = w]  BY <2>5, <3>1 DEF Tag
    <3> HIDE DEF w
    <3> QED  BY <3>2, <3>3, Reassigned
  <2>6. CASE TagFails(t) \/ MoveFails(t) \/ RecordFails(t)
    <3>1. PICK n \in 0..MaxFaults : worker[t].pc \in Finalising /\ Fail(t, n)
      BY <2>6 DEF TagFails, MoveFails, RecordFails, Finalising
    <3>2. library' \in [Slots -> Held]
      <4> DEFINE held == [of |-> At(t), batch |-> t \in Batches, broken |-> TRUE]
      <4>1. At(t) \in Downloads  BY <2>0, <3>1 DEF At, Task
      <4>2. held \in Held  BY <4>1 DEF Held
      <4>3. library' = library \/ library' = [library EXCEPT ![worker[t].slot] = held]
        BY <2>6 DEF TagFails, MoveFails, RecordFails
      <4> HIDE DEF held
      <4> QED  BY <4>2, <4>3
    <3>3. UNCHANGED <<file, age, timer, mutex>>  BY <2>6 DEF TagFails, MoveFails, RecordFails
    <3> QED  BY <3>1, <3>2, <3>3, FailTyped
  <2>7. CASE Place(t)
    <3>1. PICK k \in Slots : worker' = [worker EXCEPT ![t] = [worker[t] EXCEPT !.pc = "move", !.slot = k]]
      BY <2>7 DEF Place, FreeSlots
    <3> DEFINE w == [worker[t] EXCEPT !.pc = "move", !.slot = k]
    <3>2. w \in Task /\ w.at # NoOne /\ w.pc \in Finalising  BY <2>0, <2>7 DEF Place, Task, Finalising
    <3>3. Rest' /\ worker' = [worker EXCEPT ![t] = w]  BY <2>7, <3>1 DEF Place
    <3> HIDE DEF w
    <3> QED  BY <3>2, <3>3, Reassigned
  <2>8. CASE Move(t)
    <3> DEFINE w == [worker[t] EXCEPT !.pc = "record", !.slot = 0]
               held == [of |-> At(t), batch |-> t \in Batches, broken |-> FALSE]
    <3>1. At(t) \in Downloads  BY <2>0, <2>8 DEF Move, At, Task, Finalising
    <3>2. w \in Task /\ w.at # NoOne /\ w.pc \in Finalising  BY <2>0, <2>8, Slot0 DEF Move, Task, Finalising
    <3>3. held \in Held  BY <3>1 DEF Held
    <3>4. library' = [library EXCEPT ![worker[t].slot] = held]  BY <2>8 DEF Move
    <3>5. worker' = [worker EXCEPT ![t] = w]  BY <2>8 DEF Move
    <3>6. Rest'
      <4> HIDE DEF held
      <4>1. library' \in [Slots -> Held]  BY <3>3, <3>4
      <4> QED  BY <2>8, <3>1, <4>1 DEF Move, Vanish, Faulty
    <3> HIDE DEF w
    <3> QED  BY <3>2, <3>5, <3>6, Reassigned
  <2>9. CASE Record(t)
    <3>1. At(t) \in Downloads  BY <2>0, <2>9 DEF Record, At, Task, Finalising
    <3>2. review' \in [Downloads -> {"none", "pending", "ignored", "closed"}]  BY <2>9 DEF Record
    <3>3. CASE Decided(t, At(t))  BY <2>9, <3>1, <3>2, <3>3, DecidedTyped DEF Record
    <3>4. CASE worker' = [worker EXCEPT ![t] = Idle] /\ UNCHANGED processing
      BY <2>9, <3>2, <3>4, IdleTyped, Reassigned DEF Record
    <3> QED  BY <2>9, <3>3, <3>4 DEF Record
  <2> QED  BY <1>8, <2>1, <2>2, <2>10, <2>3, <2>4, <2>5, <2>6, <2>7, <2>8, <2>9 DEF Work
<1> QED  BY <1>1, <1>2, <1>3, <1>4, <1>5, <1>6, <1>7, <1>8 DEF Next

-----------------------------------------------------------------------------
\* What a record says after a step that changed some of its fields.
LEMMA Fields ==
    ASSUME ImportTypeOK, NEW t \in Threads
    PROVE  /\ worker \in [Threads -> Task] /\ worker[t] \in Task
           /\ \A p \in {"filter", "place"} :
                /\ [worker[t] EXCEPT !.pc = p].pc = p
                /\ [worker[t] EXCEPT !.pc = p].todo = worker[t].todo
                /\ [worker[t] EXCEPT !.pc = p].at = worker[t].at
           /\ \A k : LET w == [worker[t] EXCEPT !.pc = "next", !.todo = k]
                     IN  w.pc = "next" /\ w.todo = k /\ w.at = worker[t].at
           /\ \A d : LET w == [worker[t] EXCEPT !.pc = "tag", !.at = d]
                     IN  w.pc = "tag" /\ w.todo = worker[t].todo /\ w.at = d
           /\ \A p \in {"move", "record"} : \A k :
                LET w == [worker[t] EXCEPT !.pc = p, !.slot = k]
                IN  w.pc = p /\ w.todo = worker[t].todo /\ w.at = worker[t].at /\ w.slot = k
<1>1. worker \in [Threads -> Task] /\ worker[t] \in Task  BY DEF ImportTypeOK
<1> QED  BY <1>1 DEF Task

\* The kinds of step a thread takes, by what they do to its record, the mutex
\* and _processing_files: from now to then.
Took(t, now, then) ==
    /\ now.pc = "waiting" /\ then.pc = "filter" /\ then.at = now.at /\ then.todo = now.todo
    /\ mutex = NoOne /\ mutex' = t /\ UNCHANGED <<processing, abandoned>>
Left(t, now, then) ==
    /\ now.pc = "waiting" /\ then = Idle /\ UNCHANGED <<mutex, processing, abandoned>>
Registered(t, now, then) ==
    /\ now.pc = "filter" /\ then.pc = "next" /\ then.at = now.at
    /\ \A d \in then.todo : Guarded(d) /\ d \notin processing
    /\ processing' = processing \cup then.todo /\ UNCHANGED <<mutex, abandoned>>
Broke(t, now, then) ==
    /\ now.pc = "filter" /\ then = Idle /\ mutex' = NoOne
    /\ \E left : /\ processing' = processing \cup left /\ left \cap processing = {}
                 /\ abandoned' = abandoned \cup left
Ended(t, now, then) ==
    /\ now.pc = "next" /\ now.todo = {} /\ then = Idle
    /\ mutex' = NoOne /\ UNCHANGED <<processing, abandoned>>
Finalises(t, now, then) ==
    /\ now.pc \in Finalising \cup {"next"} /\ then.pc \in Finalising
    /\ then.todo = now.todo /\ (then.at = now.at \/ (now.pc = "next" /\ then.at \in now.todo))
    /\ then.pc = "move" => then.slot \in FreeSlots
    /\ UNCHANGED <<mutex, processing, abandoned>>
Drops(t, now, then, d) ==
    /\ t \in Batches \/ now.pc = "next"
    /\ now.pc \in Finalising \cup {"next"} /\ then.pc = "next" /\ then.at = NoOne
    /\ IF now.pc = "next" THEN d \in now.todo ELSE d = now.at
    /\ then.todo = now.todo \ {d} /\ processing' = processing \ {d}
    /\ UNCHANGED <<mutex, abandoned>>
GivesUp(t, now, then) ==
    /\ now.pc \in Finalising /\ t \in Reviewers
    /\ then = Idle /\ UNCHANGED <<mutex, processing, abandoned>>

Effect(t, now, then) ==
    \/ Took(t, now, then) \/ Left(t, now, then) \/ Registered(t, now, then) \/ Broke(t, now, then)
    \/ Ended(t, now, then) \/ Finalises(t, now, then) \/ GivesUp(t, now, then)
    \/ \E d : Drops(t, now, then, d)

\* Every step of a thread changes its own record only, in one of these ways.
LEMMA WorkEffect ==
    ASSUME ImportTypeOK, NEW t \in Threads, Work(t)
    PROVE  /\ \A u \in Threads \ {t} : worker'[u] = worker[u]
           /\ Effect(t, worker[t], worker'[t])
<1>0. worker \in [Threads -> Task]  BY DEF ImportTypeOK
<1>a. ASSUME NEW w, worker' = [worker EXCEPT ![t] = w]
      PROVE  worker'[t] = w /\ \A u \in Threads \ {t} : worker'[u] = worker[u]
  BY <1>0, <1>a
<1>b. ASSUME NEW d, Decided(t, d), UNCHANGED <<mutex, abandoned>>,
             \/ t \in Batches /\ worker[t].pc \in Finalising /\ d = worker[t].at
             \/ worker[t].pc = "next" /\ d \in worker[t].todo
      PROVE  Drops(t, worker[t], worker'[t], d) /\ \A u \in Threads \ {t} : worker'[u] = worker[u]
  <2> DEFINE w == [Idle EXCEPT !.pc = "next", !.todo = worker[t].todo \ {d}]
  <2>1. w.pc = "next" /\ w.at = NoOne /\ w.todo = worker[t].todo \ {d}  BY DEF Idle
  <2>2. worker' = [worker EXCEPT ![t] = w] /\ processing' = processing \ {d}  BY <1>b DEF Decided
  <2> HIDE DEF w
  <2> QED  BY <1>a, <1>b, <2>1, <2>2 DEF Drops, Finalising
<1>c. ASSUME NEW n, Fail(t, n), worker[t].pc \in Finalising, UNCHANGED mutex
      PROVE  /\ \A u \in Threads \ {t} : worker'[u] = worker[u]
             /\ Drops(t, worker[t], worker'[t], At(t)) \/ GivesUp(t, worker[t], worker'[t])
  BY <1>a, <1>b, <1>c DEF Fail, GivesUp, Asked, At
<1>2. CASE Acquire(t)
  <2> DEFINE w == [worker[t] EXCEPT !.pc = "filter"]
  <2>1. w.pc = "filter" /\ w.at = worker[t].at /\ w.todo = worker[t].todo  BY Fields
  <2>2. worker' = [worker EXCEPT ![t] = w]  BY <1>2 DEF Acquire, AcquireAnyway
  <2> HIDE DEF w
  <2>3. Took(t, worker[t], w)  BY <1>2, <2>1 DEF Took, Acquire, AcquireAnyway, aside
  <2> QED  BY <1>a, <2>2, <2>3 DEF Effect
<1>3. CASE TimeOut(t)  BY <1>3, <1>a DEF TimeOut, Left, Effect, aside
<1>4. CASE Filter(t)
  <2>1. PICK kept : /\ \A d \in kept : Guarded(d) /\ d \notin processing
                    /\ processing' = processing \cup kept
                    /\ worker' = [worker EXCEPT ![t] = [worker[t] EXCEPT !.pc = "next", !.todo = kept]]
    BY <1>4 DEF Filter
  <2> DEFINE w == [worker[t] EXCEPT !.pc = "next", !.todo = kept]
  <2>2. w.pc = "next" /\ w.at = worker[t].at /\ w.todo = kept  BY Fields
  <2>3. worker' = [worker EXCEPT ![t] = w]  BY <2>1
  <2> HIDE DEF w
  <2>4. Registered(t, worker[t], w)  BY <1>4, <2>1, <2>2 DEF Registered, Filter, aside
  <2> QED  BY <1>a, <2>3, <2>4 DEF Effect
<1>13. CASE FilterBreaks(t)
  <2>1. \E left : /\ processing' = processing \cup left /\ left \cap processing = {}
                  /\ abandoned' = abandoned \cup left
    BY <1>13 DEF FilterBreaks
  <2>2. Broke(t, worker[t], Idle) /\ worker' = [worker EXCEPT ![t] = Idle]
    BY <1>13, <2>1 DEF Broke, FilterBreaks
  <2> QED  BY <1>a, <2>2 DEF Effect
<1>5. CASE Resolve(t)
  <2>1. PICK d \in worker[t].todo :
           \/ /\ worker' = [worker EXCEPT ![t] = [worker[t] EXCEPT !.pc = "tag", !.at = d]]
              /\ UNCHANGED <<review, processing, aside>>
           \/ Asked(d, faults) /\ Decided(t, d)
    BY <1>5 DEF Resolve
  <2>2. worker[t].pc = "next" /\ UNCHANGED mutex  BY <1>5 DEF Resolve
  <2>3. CASE Asked(d, faults) /\ Decided(t, d)  BY <1>b, <2>2, <2>3 DEF Effect, Asked
  <2>4. CASE /\ worker' = [worker EXCEPT ![t] = [worker[t] EXCEPT !.pc = "tag", !.at = d]]
             /\ UNCHANGED <<processing, abandoned>>
    <3> DEFINE w == [worker[t] EXCEPT !.pc = "tag", !.at = d]
    <3>1. w.pc = "tag" /\ w.at = d /\ w.todo = worker[t].todo  BY Fields
    <3>2. worker' = [worker EXCEPT ![t] = w]  BY <2>4
    <3> HIDE DEF w
    <3>3. Finalises(t, worker[t], w)  BY <2>2, <2>4, <3>1 DEF Finalises, Finalising
    <3> QED  BY <1>a, <3>2, <3>3 DEF Effect
  <2> QED  BY <2>1, <2>3, <2>4 DEF aside
<1>6. CASE Finish(t)  BY <1>6, <1>a DEF Finish, Ended, Effect, aside
<1>7. CASE Tag(t)
  <2> DEFINE w == [worker[t] EXCEPT !.pc = "place"]
  <2>1. w.pc = "place" /\ w.at = worker[t].at /\ w.todo = worker[t].todo  BY Fields
  <2>2. worker' = [worker EXCEPT ![t] = w]  BY <1>7 DEF Tag
  <2> HIDE DEF w
  <2>3. Finalises(t, worker[t], w)  BY <1>7, <2>1 DEF Finalises, Finalising, Tag, aside
  <2> QED  BY <1>a, <2>2, <2>3 DEF Effect
<1>8. CASE TagFails(t) \/ MoveFails(t) \/ RecordFails(t)
  BY <1>8, <1>c DEF TagFails, MoveFails, RecordFails, Effect, Finalising
<1>9. CASE Place(t)
  <2>1. PICK k \in FreeSlots :
           worker' = [worker EXCEPT ![t] = [worker[t] EXCEPT !.pc = "move", !.slot = k]]
    BY <1>9 DEF Place
  <2> DEFINE w == [worker[t] EXCEPT !.pc = "move", !.slot = k]
  <2>2. w.pc = "move" /\ w.slot = k /\ w.at = worker[t].at /\ w.todo = worker[t].todo  BY Fields
  <2>3. worker' = [worker EXCEPT ![t] = w]  BY <2>1
  <2> HIDE DEF w
  <2>4. Finalises(t, worker[t], w)  BY <1>9, <2>2 DEF Finalises, Finalising, Place, aside
  <2> QED  BY <1>a, <2>3, <2>4 DEF Effect
<1>10. CASE Move(t)
  <2> DEFINE w == [worker[t] EXCEPT !.pc = "record", !.slot = 0]
  <2>1. w.pc = "record" /\ w.at = worker[t].at /\ w.todo = worker[t].todo  BY Fields
  <2>2. worker' = [worker EXCEPT ![t] = w]  BY <1>10 DEF Move
  <2> HIDE DEF w
  <2>3. Finalises(t, worker[t], w)  BY <1>10, <2>1 DEF Finalises, Finalising, Move
  <2> QED  BY <1>a, <2>2, <2>3 DEF Effect
<1>12. CASE Record(t)
  <2>1. worker[t].pc \in Finalising /\ UNCHANGED <<mutex, abandoned>>
    BY <1>12 DEF Record, Finalising, aside
  <2>2. CASE t \in Batches /\ Decided(t, At(t))  BY <1>b, <2>1, <2>2 DEF Effect, At
  <2>3. CASE t \in Reviewers /\ worker' = [worker EXCEPT ![t] = Idle] /\ UNCHANGED processing
    BY <1>a, <2>1, <2>3 DEF Effect, GivesUp
  <2> QED  BY <1>12, <2>2, <2>3 DEF Record
<1> QED  BY <1>2, <1>3, <1>4, <1>13, <1>5, <1>6, <1>7, <1>8, <1>9, <1>10, <1>12 DEF Work

-----------------------------------------------------------------------------
\* A thread that starts on something changes its own record only.
LEMMA StartEffect ==
    ASSUME ImportTypeOK
    PROVE  /\ \A d \in Downloads, t \in Watchers : Fire(t, d) =>
                /\ worker[t].pc = "idle" /\ worker'[t].pc = "waiting" /\ worker'[t].at = NoOne
                /\ \A u \in Threads \ {t} : worker'[u] = worker[u]
           /\ \A d \in Downloads, t \in Reviewers : Retry(t, d) \/ Approve(t, d) =>
                /\ worker[t].pc = "idle" /\ worker'[t].pc = "tag"
                /\ worker'[t].at = d /\ worker'[t].todo = {}
                /\ \A u \in Threads \ {t} : worker'[u] = worker[u]
           /\ \A again \in BOOLEAN : Scan(again) =>
                /\ worker[Scanner].pc = "idle" /\ worker'[Scanner].pc = "filter"
                /\ worker'[Scanner].at = NoOne /\ mutex = NoOne /\ mutex' = Scanner
                /\ \A u \in Threads \ {Scanner} : worker'[u] = worker[u]
<1> USE DEF Threads, Batches
<1>1. worker \in [Threads -> Task]  BY DEF ImportTypeOK
<1>2. ASSUME NEW t \in Threads, NEW w, worker' = [worker EXCEPT ![t] = w]
      PROVE  worker'[t] = w /\ \A u \in Threads \ {t} : worker'[u] = worker[u]
  BY <1>1, <1>2
<1>3. ASSUME NEW d \in Downloads, NEW t \in Watchers, Fire(t, d)
      PROVE  /\ worker[t].pc = "idle" /\ worker'[t].pc = "waiting" /\ worker'[t].at = NoOne
             /\ \A u \in Threads \ {t} : worker'[u] = worker[u]
  <2> DEFINE w == [Idle EXCEPT !.pc = "waiting", !.todo = {d}]
  <2>1. w.pc = "waiting" /\ w.at = NoOne  BY DEF Idle
  <2>2. worker' = [worker EXCEPT ![t] = w] /\ worker[t].pc = "idle"  BY <1>3 DEF Fire
  <2> HIDE DEF w
  <2> QED  BY <1>2, <2>1, <2>2
<1>4. ASSUME NEW d \in Downloads, NEW t \in Reviewers, Retry(t, d) \/ Approve(t, d)
      PROVE  /\ worker[t].pc = "idle" /\ worker'[t].pc = "tag"
             /\ worker'[t].at = d /\ worker'[t].todo = {}
             /\ \A u \in Threads \ {t} : worker'[u] = worker[u]
  <2> DEFINE w(job) == [Idle EXCEPT !.pc = "tag", !.job = job, !.at = d]
  <2>1. \A job : w(job).pc = "tag" /\ w(job).at = d /\ w(job).todo = {}  BY DEF Idle
  <2>2. PICK job : worker' = [worker EXCEPT ![t] = w(job)]  BY <1>4 DEF Retry, Approve
  <2>3. worker[t].pc = "idle"  BY <1>4 DEF Retry, Approve
  <2> HIDE DEF w
  <2>4. worker'[t] = w(job) /\ \A u \in Threads \ {t} : worker'[u] = worker[u]  BY <1>2, <2>2
  <2> QED  BY <2>1, <2>3, <2>4
<1>5. ASSUME NEW again \in BOOLEAN, Scan(again)
      PROVE  /\ worker[Scanner].pc = "idle" /\ worker'[Scanner].pc = "filter"
             /\ worker'[Scanner].at = NoOne /\ mutex = NoOne /\ mutex' = Scanner
             /\ \A u \in Threads \ {Scanner} : worker'[u] = worker[u]
  <2> DEFINE w(found) == [Idle EXCEPT !.pc = "filter", !.todo = found]
  <2>1. \A found : w(found).pc = "filter" /\ w(found).at = NoOne  BY DEF Idle
  <2>2. PICK found : worker' = [worker EXCEPT ![Scanner] = w(found)]  BY <1>5 DEF Scan
  <2>3. worker[Scanner].pc = "idle" /\ mutex = NoOne /\ mutex' = Scanner  BY <1>5 DEF Scan
  <2> HIDE DEF w
  <2>4. worker'[Scanner] = w(found) /\ \A u \in Threads \ {Scanner} : worker'[u] = worker[u]
    BY <1>2, <2>2
  <2> QED  BY <2>1, <2>3, <2>4
<1> QED  BY <1>3, <1>4, <1>5

\* What happens in the download directory or to the review queue leaves the threads
\* and the library alone.
Elsewhere == TrackImported \/ \E d \in Downloads :
    Create(d) \/ MoveIn(d) \/ Grow(d) \/ Ripen(d) \/ Pause(d) \/ Reject(d) \/ Ignore(d) \/ Expire(d)

LEMMA ElsewhereKeeps == Elsewhere => UNCHANGED <<library, mutex, processing, worker, abandoned>>
<1>1. ASSUME NEW d \in Downloads, Create(d) \/ MoveIn(d) \/ Grow(d) \/ Ripen(d) \/ Pause(d)
      PROVE  UNCHANGED <<library, mutex, processing, worker, abandoned>>
  BY <1>1 DEF Create, MoveIn, Grow, Ripen, Pause, aside
<1>2. ASSUME NEW d \in Downloads, TrackImported \/ Reject(d) \/ Ignore(d) \/ Expire(d)
      PROVE  UNCHANGED <<library, mutex, processing, worker, abandoned>>
  BY <1>2 DEF TrackImported, Reject, Ignore, Expire, aside
<1>3. CASE TrackImported  BY <1>3 DEF TrackImported, aside
<1> QED  BY <1>1, <1>2, <1>3 DEF Elsewhere

\* The steps there are.
LEMMA Steps ==
    ASSUME [Next]_vars
    PROVE  \/ UNCHANGED vars \/ Elsewhere
           \/ \E d \in Downloads, t \in Watchers : Fire(t, d)
           \/ \E d \in Downloads, t \in Reviewers : Retry(t, d) \/ Approve(t, d)
           \/ \E again \in BOOLEAN : Scan(again)
           \/ \E t \in Threads : Work(t)
BY DEF Next, Elsewhere

\* A thread that starts on something leaves the rest alone.
LEMMA StartKeeps ==
    /\ \A d, t : Fire(t, d) => UNCHANGED <<library, mutex, processing, abandoned>>
    /\ \A d, t : Retry(t, d) \/ Approve(t, d) => UNCHANGED <<library, mutex, processing, abandoned>>
    /\ \A again : Scan(again) => UNCHANGED <<library, processing, abandoned>>
BY DEF Fire, Retry, Approve, Scan, aside

LEMMA StepMutex == IInv /\ [Next]_vars => MutexHeld' /\ NoBatchLeft'
<1> SUFFICES ASSUME ImportTypeOK, MutexHeld, NoBatchLeft, [Next]_vars PROVE MutexHeld' /\ NoBatchLeft'
  BY DEF IInv
<1> USE DEF MutexHeld, NoBatchLeft
<1>1. CASE UNCHANGED vars \/ Elsewhere  BY <1>1, ElsewhereKeeps DEF vars
<1>3. ASSUME NEW d \in Downloads, NEW t \in Watchers, Fire(t, d) PROVE MutexHeld' /\ NoBatchLeft'
  BY <1>3, StartKeeps, StartEffect DEF Batches, Threads
<1>4. ASSUME NEW d \in Downloads, NEW t \in Reviewers, Retry(t, d) \/ Approve(t, d)
      PROVE  MutexHeld' /\ NoBatchLeft'
  <2>1. UNCHANGED mutex  BY <1>4, StartKeeps
  <2>2. worker'[t].pc = "tag" /\ \A u \in Threads \ {t} : worker'[u] = worker[u]  BY <1>4, StartEffect
  <2> QED  BY <2>1, <2>2 DEF Threads
<1>5. ASSUME NEW again \in BOOLEAN, Scan(again) PROVE MutexHeld' /\ NoBatchLeft'
  <2>1. /\ worker'[Scanner].pc = "filter" /\ mutex = NoOne /\ mutex' = Scanner
        /\ \A u \in Threads \ {Scanner} : worker'[u] = worker[u]
    BY <1>5, StartEffect
  <2> QED  BY <2>1 DEF Batches, Threads
<1>6. ASSUME NEW t \in Threads, Work(t) PROVE MutexHeld' /\ NoBatchLeft'
  <2>1. /\ \A u \in Threads \ {t} : worker'[u] = worker[u]
        /\ Effect(t, worker[t], worker'[t])
    BY <1>6, WorkEffect
  <2>2. Idle.pc = "idle" /\ Idle.todo = {}  BY DEF Idle
  <2>3. CASE Took(t, worker[t], worker'[t]) \/ Left(t, worker[t], worker'[t])
    BY <2>1, <2>2, <2>3 DEF Took, Left, Threads
  <2>4. CASE \/ Registered(t, worker[t], worker'[t]) \/ Ended(t, worker[t], worker'[t])
             \/ Broke(t, worker[t], worker'[t])
    BY <2>1, <2>2, <2>4 DEF Registered, Ended, Broke, Threads
  <2>5. CASE \/ Finalises(t, worker[t], worker'[t]) \/ GivesUp(t, worker[t], worker'[t])
             \/ \E d : Drops(t, worker[t], worker'[t], d)
    BY <2>1, <2>2, <2>5 DEF Finalises, GivesUp, Drops, Threads, Finalising
  <2> QED  BY <2>1, <2>3, <2>4, <2>5 DEF Effect
<1> QED  BY <1>1, <1>3, <1>4, <1>5, <1>6, Steps

\* The file that a batch finalises is one that it has.
AtOwn == \A t \in Batches : worker[t].pc \in Finalising => worker[t].at \in worker[t].todo

LEMMA StepAtOwn == IInv /\ [Next]_vars => AtOwn'
<1> SUFFICES ASSUME ImportTypeOK, AtOwn, [Next]_vars, ImportTypeOK',
                    NEW t \in Batches, worker'[t].pc \in Finalising
             PROVE  worker'[t].at \in worker'[t].todo
  BY StepTypeOK DEF IInv, OwnFile, AtOwn
<1> USE DEF AtOwn
<1>0. t \in Threads /\ t \notin Reviewers  BY DEF Threads
<1>1. CASE UNCHANGED vars \/ Elsewhere  BY <1>1, ElsewhereKeeps DEF vars
<1>2. ASSUME NEW d \in Downloads, NEW u \in Watchers, Fire(u, d) PROVE worker'[t].at \in worker'[t].todo
  BY <1>0, <1>2, StartEffect DEF Finalising
<1>3. ASSUME NEW d \in Downloads, NEW u \in Reviewers, Retry(u, d) \/ Approve(u, d)
      PROVE  worker'[t].at \in worker'[t].todo
  BY <1>0, <1>3, StartEffect
<1>4. ASSUME NEW again \in BOOLEAN, Scan(again) PROVE worker'[t].at \in worker'[t].todo
  BY <1>0, <1>4, StartEffect DEF Finalising
<1>5. ASSUME NEW u \in Threads, Work(u) PROVE worker'[t].at \in worker'[t].todo
  <2>1. /\ \A v \in Threads \ {u} : worker'[v] = worker[v]
        /\ Effect(u, worker[u], worker'[u])
    BY <1>5, WorkEffect
  <2>2. Idle.pc = "idle"  BY DEF Idle
  <2>3. worker'[t].at # NoOne /\ (worker[t].pc \notin Finalising => worker[t].at = NoOne)
    BY <1>0 DEF ImportTypeOK
  <2>4. CASE u = t
    <3>1. Finalises(t, worker[t], worker'[t])
      BY <2>1, <2>2, <2>4
      DEF Effect, Took, Left, Registered, Broke, Ended, GivesUp, Drops, Finalising
    <3> QED  BY <2>3, <3>1 DEF Finalises, Finalising
  <2> QED  BY <1>0, <2>1, <2>4
<1> QED  BY <1>1, <1>2, <1>3, <1>4, <1>5, Steps

\* Only the batch that has the mutex is in flight; what it registers is not yet
\* registered, so what is left behind is no other batch's.
LEMMA StepProcessing == IInv /\ [Next]_vars => ProcessingAccounted' /\ OwnFile'
<1> SUFFICES ASSUME IInv, [Next]_vars PROVE ProcessingAccounted' /\ OwnFile'  OBVIOUS
<1> DEFINE Flying == IF mutex \in Batches /\ worker[mutex].pc # "filter" THEN worker[mutex].todo ELSE {}
           Apart == processing = Flying \cup abandoned /\ Flying \cap abandoned = {}
<1>a. InFlight = Flying /\ InFlight' = Flying'
  <2>1. MutexHeld' /\ NoBatchLeft' /\ ImportTypeOK'  BY StepMutex, StepTypeOK
  <2>2. InFlight' = Flying'  BY <2>1 DEF MutexHeld, NoBatchLeft, InFlight
  <2> QED  BY <2>2 DEF IInv, MutexHeld, NoBatchLeft, InFlight
<1>b. Apart  BY <1>a DEF IInv, ProcessingAccounted, OwnFile
<1>c. SUFFICES Apart'  BY <1>a, StepAtOwn DEF ProcessingAccounted, OwnFile, AtOwn
<1>d. ImportTypeOK /\ MutexHeld /\ NoBatchLeft /\ AtOwn  BY DEF IInv, OwnFile, AtOwn
<1>1. CASE UNCHANGED vars \/ Elsewhere  BY <1>1, <1>b, ElsewhereKeeps DEF vars, aside
<1>3. ASSUME NEW d \in Downloads, NEW t \in Watchers, Fire(t, d) PROVE Apart'
  <2>1. UNCHANGED <<mutex, processing, abandoned>> /\ mutex # t
    BY <1>3, <1>d, StartKeeps DEF Fire, MutexHeld, Batches
  <2> QED  BY <1>b, <1>d, <1>3, <2>1, StartEffect DEF Batches, Threads
<1>4. ASSUME NEW d \in Downloads, NEW t \in Reviewers, Retry(t, d) \/ Approve(t, d) PROVE Apart'
  <2>1. UNCHANGED <<mutex, processing, abandoned>>  BY <1>4, StartKeeps
  <2>2. \A u \in Threads \ {t} : worker'[u] = worker[u]  BY <1>4, <1>d, StartEffect
  <2> QED  BY <1>b, <2>1, <2>2 DEF Threads
<1>5. ASSUME NEW again \in BOOLEAN, Scan(again) PROVE Apart'
  <2>1. /\ worker'[Scanner].pc = "filter" /\ mutex = NoOne /\ mutex' = Scanner
        /\ UNCHANGED <<processing, abandoned>>
    BY <1>5, <1>d, StartEffect, StartKeeps
  <2> QED  BY <1>b, <2>1 DEF Threads
<1>6. ASSUME NEW t \in Threads, Work(t) PROVE Apart'
  <2>1. /\ \A u \in Threads \ {t} : worker'[u] = worker[u]
        /\ Effect(t, worker[t], worker'[t])
    BY <1>6, <1>d, WorkEffect
  <2>2. CASE t \in Reviewers
    <3>1. worker[t].pc \notin {"waiting", "filter", "next"}  BY <2>2, <1>d DEF NoBatchLeft
    <3>2. ~\E d : Drops(t, worker[t], worker'[t], d)  BY <2>2, <3>1 DEF Drops
    <3>3. UNCHANGED <<mutex, processing, abandoned>>
      BY <2>1, <3>1, <3>2 DEF Effect, Took, Left, Registered, Broke, Ended, Finalises, GivesUp
    <3> QED  BY <1>b, <2>1, <2>2, <3>3 DEF Threads
  <2>3. CASE t \in Batches
    <3>1. worker[t].pc \notin {"idle", "waiting"} <=> mutex = t  BY <2>3, <1>d DEF MutexHeld
    <3>2. mutex # t /\ UNCHANGED mutex => Flying' = Flying  BY <2>1 DEF Threads
    <3>3. CASE Took(t, worker[t], worker'[t])  BY <1>b, <2>3, <3>3 DEF Took, Threads
    <3>4. CASE Left(t, worker[t], worker'[t])  BY <1>b, <3>1, <3>2, <3>4 DEF Left
    <3>5. CASE Registered(t, worker[t], worker'[t])  BY <1>b, <2>3, <3>1, <3>5 DEF Registered
    <3>6. CASE Ended(t, worker[t], worker'[t])  BY <1>b, <2>3, <3>1, <3>6 DEF Ended, Threads
    <3>7. CASE Finalises(t, worker[t], worker'[t])
      BY <1>b, <2>3, <3>1, <3>7 DEF Finalises, Finalising
    <3>8. ASSUME NEW d, Drops(t, worker[t], worker'[t], d) PROVE Apart'
      <4>1. d \in worker[t].todo  BY <1>d, <2>3, <3>8 DEF Drops, AtOwn, Finalising
      <4> QED  BY <1>b, <2>3, <3>1, <3>8, <4>1 DEF Drops, Finalising
    <3>9. ~GivesUp(t, worker[t], worker'[t])  BY <2>3 DEF GivesUp
    <3>10. CASE Broke(t, worker[t], worker'[t])
      <4>1. Flying = {} /\ Flying' = {}  BY <2>3, <3>1, <3>10 DEF Broke, Threads
      <4> QED  BY <1>b, <3>10, <4>1 DEF Broke
    <3> QED  BY <2>1, <3>3, <3>4, <3>5, <3>6, <3>7, <3>8, <3>9, <3>10 DEF Effect
  <2> QED  BY <1>6, <2>2, <2>3 DEF Threads
<1> QED  BY <1>1, <1>3, <1>4, <1>5, <1>6, Steps

-----------------------------------------------------------------------------
\* A thread's step completes no file and settles none, and gives a review task
\* only to a file that it has.
LEMMA WorkOutside ==
    ASSUME ImportTypeOK, NEW t \in Threads, Work(t), NEW d \in Downloads
    PROVE  /\ NotYet(d)' => NotYet(d)
           /\ age'[d] = "settled" => age[d] = "settled"
           /\ review'[d] = "none" \/ review'[d] = review[d] \/ worker[t].at = d
              \/ (worker[t].pc = "next" /\ d \in worker[t].todo)
<1> USE DEF ImportTypeOK, NotYet, env, aside, At
<1>1. CASE Acquire(t)  BY <1>1 DEF Acquire, AcquireAnyway
<1>2. CASE TimeOut(t) \/ Filter(t) \/ FilterBreaks(t) \/ Finish(t) \/ Place(t)
  BY <1>2 DEF TimeOut, Filter, FilterBreaks, Finish, Place
<1>3. CASE Resolve(t)  BY <1>3 DEF Resolve, Asked
<1>4. CASE Tag(t)  BY <1>4 DEF Tag
<1>5. CASE TagFails(t) \/ MoveFails(t) \/ RecordFails(t)
  <2>1. PICK n : Fail(t, n)  BY <1>5 DEF TagFails, MoveFails, RecordFails
  <2>2. UNCHANGED <<file, age, timer>>  BY <1>5 DEF TagFails, MoveFails, RecordFails
  <2> QED  BY <2>1, <2>2 DEF Fail, Asked
<1>6. CASE Move(t)
  <2>1. UNCHANGED <<review, paused>>  BY <1>6 DEF Move
  <2>2. CASE Vanish(At(t))  BY <2>1, <2>2 DEF Vanish
  <2>3. CASE UNCHANGED env  BY <2>1, <2>3
  <2> QED  BY <1>6, <2>2, <2>3 DEF Move
<1>7. CASE Record(t)  BY <1>7 DEF Record
<1> QED  BY <1>1, <1>2, <1>3, <1>4, <1>5, <1>6, <1>7 DEF Work

LEMMA StepGuards == IInv /\ [Next]_vars => GuardsHold'
<1> SUFFICES ASSUME ImportTypeOK, NoBatchLeft, GuardsHold, [Next]_vars PROVE GuardsHold'  BY DEF IInv
<1> USE DEF GuardsHold
<1>1. CASE UNCHANGED vars  BY <1>1 DEF vars, env, aside, NotYet
<1>2. CASE Elsewhere
  <2>1. UNCHANGED worker  BY <1>2, ElsewhereKeeps
  <2>2. ASSUME NEW e \in Downloads, Create(e) \/ MoveIn(e) \/ Grow(e) \/ Ripen(e) PROVE GuardsHold'
    BY <2>2 DEF Create, MoveIn, Grow, Ripen, NotYet, OnDisk, Present, ImportTypeOK, aside
  <2>3. ASSUME NEW e \in Downloads, Pause(e) PROVE GuardsHold'
    BY <2>3 DEF Pause, NotYet, ImportTypeOK
  <2>4. ASSUME NEW e \in Downloads, Reject(e) \/ Ignore(e) \/ Expire(e) PROVE GuardsHold'
    BY <2>4 DEF Reject, Ignore, Expire, Vanish, NotYet, ImportTypeOK, env, aside
  <2>5. CASE TrackImported  BY <2>5 DEF TrackImported, NotYet, env, aside
  <2> QED  BY <1>2, <2>2, <2>3, <2>4, <2>5 DEF Elsewhere
<1>5. ASSUME NEW d \in Downloads, NEW t \in Watchers, Fire(t, d) PROVE GuardsHold'
  <2>1. UNCHANGED <<file, age, review, paused>>  BY <1>5 DEF Fire, aside
  <2>2. /\ worker'[t].pc = "waiting" /\ worker'[t].at = NoOne
        /\ \A u \in Threads \ {t} : worker'[u] = worker[u]
    BY <1>5, StartEffect
  <2> QED  BY <2>1, <2>2 DEF NotYet
<1>6. ASSUME NEW d \in Downloads, NEW t \in Reviewers, Retry(t, d) \/ Approve(t, d) PROVE GuardsHold'
  <2>1. UNCHANGED <<file, age, review, paused>> /\ review[d] # "none"  BY <1>6 DEF Retry, Approve, env, aside
  <2>2. /\ worker'[t].at = d /\ worker'[t].todo = {}
        /\ \A u \in Threads \ {t} : worker'[u] = worker[u]
    BY <1>6, StartEffect
  <2> QED  BY <2>1, <2>2 DEF NotYet
<1>7. ASSUME NEW again \in BOOLEAN, Scan(again) PROVE GuardsHold'
  <2>1. UNCHANGED <<file, age, review, paused>>  BY <1>7 DEF Scan, env, aside
  <2>2. /\ worker'[Scanner].pc = "filter" /\ worker'[Scanner].at = NoOne
        /\ \A u \in Threads \ {Scanner} : worker'[u] = worker[u]
    BY <1>7, StartEffect
  <2> QED  BY <2>1, <2>2 DEF NotYet
<1>8. ASSUME NEW t \in Threads, Work(t) PROVE GuardsHold'
  <2> SUFFICES ASSUME NEW d \in Downloads, NotYet(d)'
               PROVE  /\ age'[d] # "settled" /\ review'[d] = "none"
                      /\ \A u \in Threads : /\ worker'[u].at # d
                                            /\ d \in worker'[u].todo => worker'[u].pc \in {"waiting", "filter"}
    OBVIOUS
  <2>1. NotYet(d)  BY <1>8, WorkOutside
  <2>2. age'[d] # "settled" /\ review'[d] = "none"  BY <1>8, <2>1, WorkOutside
  <2>3. worker[t].at # d /\ (d \in worker[t].todo => worker[t].pc \in {"waiting", "filter"})  BY <2>1
  <2>4. ~Guarded(d)  BY <2>1 DEF Guarded
  <2>5. /\ \A u \in Threads \ {t} : worker'[u] = worker[u]
        /\ Effect(t, worker[t], worker'[t])
    BY <1>8, WorkEffect
  <2>6. worker'[t].at # d /\ (d \in worker'[t].todo => worker'[t].pc \in {"waiting", "filter"})
    <3> USE <2>3, <2>4 DEF Finalising
    <3>1. Idle.at = NoOne /\ Idle.todo = {}  BY DEF Idle
    <3>2. CASE Took(t, worker[t], worker'[t]) \/ Registered(t, worker[t], worker'[t])
      BY <3>2 DEF Took, Registered
    <3>3. CASE \/ Left(t, worker[t], worker'[t]) \/ Ended(t, worker[t], worker'[t])
               \/ Broke(t, worker[t], worker'[t]) \/ GivesUp(t, worker[t], worker'[t])
      BY <3>1, <3>3 DEF Left, Ended, Broke, GivesUp
    <3>4. CASE Finalises(t, worker[t], worker'[t]) \/ \E e : Drops(t, worker[t], worker'[t], e)
      BY <3>4 DEF Finalises, Drops
    <3> QED  BY <2>5, <3>2, <3>3, <3>4 DEF Effect
  <2> QED  BY <2>1, <2>2, <2>5, <2>6
<1> QED  BY <1>1, <1>2, <1>5, <1>6, <1>7, <1>8, Steps

-----------------------------------------------------------------------------
\* Only a move changes the library, one that works or one that breaks off.
LEMMA LibraryStep ==
    ASSUME [Next]_vars
    PROVE  library' = library \/ \E t \in Threads : Move(t) \/ MoveFails(t)
<1>1. CASE UNCHANGED vars  BY <1>1 DEF vars
<1>2. CASE Elsewhere  BY <1>2, ElsewhereKeeps
<1>3. ASSUME NEW d \in Downloads, NEW t, Fire(t, d) \/ Retry(t, d) \/ Approve(t, d)
      PROVE  library' = library
  BY <1>3, StartKeeps
<1>4. ASSUME NEW again, Scan(again) PROVE library' = library  BY <1>4, StartKeeps
<1>5. ASSUME NEW t \in Threads, Work(t), ~Move(t), ~MoveFails(t) PROVE library' = library
  BY <1>5 DEF Work, Acquire, AcquireAnyway, TimeOut, Filter, FilterBreaks, Resolve, Finish, Tag,
              TagFails, Place, Record, RecordFails
<1> QED  BY <1>1, <1>2, <1>3, <1>4, <1>5, Steps

\* What a move does to the names of the library: it puts the file that it has under
\* the name that it chose.
LEMMA MoveEffect ==
    ASSUME ImportTypeOK, NEW t \in Threads, Move(t) \/ MoveFails(t), library' # library
    PROVE  /\ worker[t].pc = "move" /\ worker'[t].pc # "move" /\ OnDisk(At(t))
           /\ \A u \in Threads \ {t} : worker'[u] = worker[u]
           /\ \A k \in Slots \ {worker[t].slot} : library'[k] = library[k]
           /\ \A k \in Slots : k = worker[t].slot =>
                /\ library'[k].of = At(t) /\ (library'[k].batch <=> t \in Batches)
                /\ library'[k].broken => UNCHANGED file
<1> DEFINE held(b) == [of |-> At(t), batch |-> t \in Batches, broken |-> b]
<1>1. worker[t].pc = "move" /\ OnDisk(At(t))  BY DEF Move, MoveFails
<1>2. DOMAIN library = Slots  BY DEF ImportTypeOK
<1>3. PICK b \in BOOLEAN : /\ library' = [library EXCEPT ![worker[t].slot] = held(b)]
                           /\ b => UNCHANGED file
  BY DEF Move, MoveFails, env
<1>4. \A k \in Slots : library'[k] = IF k = worker[t].slot THEN held(b) ELSE library[k]
  <2> HIDE DEF held
  <2> QED  BY <1>2, <1>3
<1>5. held(b).of = At(t) /\ (held(b).batch <=> t \in Batches) /\ held(b).broken = b  OBVIOUS
<1>6. worker'[t].pc # "move" /\ \A u \in Threads \ {t} : worker'[u] = worker[u]
  <2>1. CASE Move(t)
    <3> DEFINE w == [worker[t] EXCEPT !.pc = "record", !.slot = 0]
    <3>1. w.pc = "record" /\ worker \in [Threads -> Task]  BY Fields
    <3>2. worker' = [worker EXCEPT ![t] = w]  BY <2>1 DEF Move
    <3> HIDE DEF w
    <3> QED  BY <3>1, <3>2
  <2>2. CASE MoveFails(t)
    <3>1. Work(t)  BY <2>2 DEF Work
    <3>2. PICK n : Fail(t, n)  BY <2>2 DEF MoveFails
    <3>3. worker \in [Threads -> Task]  BY Fields
    <3> DEFINE w == [Idle EXCEPT !.pc = "next", !.todo = worker[t].todo \ {At(t)}]
    <3>4. w.pc = "next" /\ Idle.pc = "idle"  BY DEF Idle
    <3>5. worker' = [worker EXCEPT ![t] = w] \/ worker' = [worker EXCEPT ![t] = Idle]
      BY <3>2 DEF Fail, Decided
    <3> HIDE DEF w
    <3> QED  BY <3>3, <3>4, <3>5
  <2> QED  BY <2>1, <2>2
<1> HIDE DEF held
<1> QED  BY <1>1, <1>3, <1>4, <1>5, <1>6

LEMMA StepName == IInv /\ [Next]_vars => NameFree'
<1> SUFFICES ASSUME ImportTypeOK, MutexHeld, NameFree, [Next]_vars, NEW t \in Batches, worker'[t].pc = "move"
             PROVE  ~library'[worker'[t].slot].batch
  BY DEF IInv, NameFree
<1>1. CASE library' # library
  <2>1. PICK u \in Threads : Move(u) \/ MoveFails(u)  BY <1>1, LibraryStep
  <2>2. worker[t].pc = "move" /\ worker'[t] = worker[t] /\ u # t
    BY <1>1, <2>1, MoveEffect DEF Threads
  <2>3. mutex = t  BY <2>2 DEF MutexHeld
  <2>4. worker[u].pc = "move"  BY <1>1, <2>1, MoveEffect
  <2>5. u \notin Batches  BY <2>2, <2>3, <2>4 DEF MutexHeld
  <2>7. worker[t].slot \in Slots  BY DEF ImportTypeOK, Task, Threads
  <2>8. CASE worker[t].slot = worker[u].slot
    <3>1. library'[worker[t].slot].batch <=> u \in Batches  BY <1>1, <2>1, <2>7, <2>8, MoveEffect
    <3> QED  BY <2>2, <2>5, <3>1
  <2>9. CASE worker[t].slot # worker[u].slot
    <3>1. library'[worker[t].slot] = library[worker[t].slot]  BY <1>1, <2>1, <2>7, <2>9, MoveEffect
    <3> QED  BY <2>2, <3>1 DEF NameFree
  <2> QED  BY <2>8, <2>9
<1>2. CASE library' = library /\ worker'[t] = worker[t]  BY <1>2 DEF NameFree
<1>3. CASE library' = library /\ worker'[t].slot \in FreeSlots  BY <1>3 DEF FreeSlots, Free
<1>4. worker'[t] = worker[t] \/ worker'[t].slot \in FreeSlots
  <2>1. CASE UNCHANGED vars \/ Elsewhere  BY <2>1, ElsewhereKeeps DEF vars
  <2>3. ASSUME NEW d \in Downloads, NEW u \in Watchers, Fire(u, d) PROVE worker'[t] = worker[t]
    BY <2>3, StartEffect DEF Threads
  <2>4. ASSUME NEW d \in Downloads, NEW u \in Reviewers, Retry(u, d) \/ Approve(u, d)
        PROVE  worker'[t] = worker[t]
    <3>1. \A v \in Threads \ {u} : worker'[v] = worker[v]  BY <2>4, StartEffect
    <3> QED  BY <3>1 DEF Threads
  <2>5. ASSUME NEW again \in BOOLEAN, Scan(again) PROVE worker'[t] = worker[t]
    <3>1. worker'[Scanner].pc = "filter" /\ \A v \in Threads \ {Scanner} : worker'[v] = worker[v]
      BY <2>5, StartEffect
    <3> QED  BY <3>1 DEF Threads
  <2>6. ASSUME NEW u \in Threads, Work(u) PROVE worker'[t] = worker[t] \/ worker'[t].slot \in FreeSlots
    <3>1. /\ \A v \in Threads \ {u} : worker'[v] = worker[v]
          /\ Effect(u, worker[u], worker'[u])
      BY <2>6, WorkEffect
    <3>2. CASE u # t  BY <3>1, <3>2 DEF Threads
    <3>3. CASE u = t
      <4>1. Idle.pc # "move"  BY DEF Idle
      <4> QED  BY <3>1, <3>3, <4>1
            DEF Effect, Took, Left, Registered, Broke, Ended, Finalises, Drops, GivesUp
    <3> QED  BY <3>2, <3>3
  <2> QED  BY <2>1, <2>3, <2>4, <2>5, <2>6, Steps
<1> QED  BY <1>1, <1>2, <1>3, <1>4

-----------------------------------------------------------------------------
\* The inductive invariant holds in every reachable state.
LEMMA Inductive == Spec => []IInv
<1>1. IInv /\ [Next]_vars => IInv'
  BY StepTypeOK, StepMutex, StepProcessing, StepGuards, StepName DEF IInv
<1> QED  BY <1>1, InitIInv, PTL DEF Spec

\* For every number of downloads and threads the state stays well formed, and a
\* thread has a file to finalise exactly while it finalises one.
THEOREM TypeCorrect == Spec => []ImportTypeOK
BY Inductive, PTL DEF IInv

\* _processing_files of auto_importer.py is the batch in flight and what the batches
\* left that an exists() of phase 1 broke off: no decision, time-out, refusal or
\* failure after phase 1 leaves a path registered, which would bar it from every
\* later scan.
THEOREM NoneLeftProcessing == Spec => []ProcessingAccounted
BY Inductive, PTL DEF IInv

\* The library mutex keeps "Keep Both" among the threads of process_batch, although
\* the check for a free name and the move are two steps and a copy may break off.
THEOREM BatchesNeverReplace == Spec => BatchesKeepBoth
<1>1. IInv /\ [Next]_vars => \A k \in Slots : library[k].batch /\ library'[k].batch => library'[k] = library[k]
  <2> SUFFICES ASSUME IInv, [Next]_vars, NEW k \in Slots, library[k].batch, library'[k].batch,
                      library' # library
               PROVE  library'[k] = library[k]
    OBVIOUS
  <2>1. ImportTypeOK /\ NameFree  BY DEF IInv
  <2>2. PICK t \in Threads : Move(t) \/ MoveFails(t)  BY LibraryStep
  <2>3. CASE k # worker[t].slot  BY <2>1, <2>2, <2>3, MoveEffect
  <2>4. CASE k = worker[t].slot
    <3>1. t \in Batches /\ worker[t].pc = "move"  BY <2>1, <2>2, <2>4, MoveEffect
    <3>2. ~library[k].batch  BY <2>1, <2>4, <3>1 DEF NameFree
    <3> QED  BY <3>2
  <2> QED  BY <2>3, <2>4
<1> QED  BY <1>1, Inductive, PTL DEF BatchesKeepBoth, Spec

\* What the I/O guards give: whichever thread moves a file, and however long after the
\* guards looked, it is complete unless its writer had paused for the cool-off, and
\* where a copy broke off its source is still there.
THEOREM OnlyWholeReach == Spec => OnlyWholeImported
<1>1. IInv /\ [Next]_vars =>
        \A k \in Slots, d \in Downloads :
          library'[k] # library[k] /\ library'[k].of = d =>
              /\ file[d] = "whole" \/ d \in paused
              /\ library'[k].broken => OnDisk(d)'
  <2> SUFFICES ASSUME IInv, [Next]_vars, NEW k \in Slots, NEW d \in Downloads,
                      library'[k] # library[k], library'[k].of = d
               PROVE  /\ file[d] = "whole" \/ d \in paused
                      /\ library'[k].broken => OnDisk(d)'
    OBVIOUS
  <2>1. ImportTypeOK /\ GuardsHold  BY DEF IInv
  <2>2. PICK t \in Threads : Move(t) \/ MoveFails(t)  BY LibraryStep
  <2>3. k = worker[t].slot /\ worker[t].pc = "move" /\ OnDisk(At(t))  BY <2>1, <2>2, MoveEffect
  <2>4. d = At(t) /\ (library'[k].broken => UNCHANGED file)  BY <2>1, <2>2, <2>3, MoveEffect
  <2>5. ~NotYet(d)  BY <2>1, <2>4 DEF GuardsHold, At
  <2> QED  BY <2>3, <2>4, <2>5 DEF OnDisk, Present, NotYet
<1> QED  BY <1>1, Inductive, PTL DEF OnlyWholeImported, Spec
=============================================================================
