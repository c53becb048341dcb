----------------------------- MODULE ImportFlow -----------------------------
(***************************************************************************)
(* services/auto_importer.py with the library mutex of core/system_lock.py,*)
(* the moves of core/io_gatekeeper.py, the review queue, and the           *)
(* TRACK_IMPORTED announcements of services/library_watcher.py.            *)
(*                                                                         *)
(* All downloads are copies of one recording, so they all want the same    *)
(* place in the library: slot 0 is "title.ext", slot k is "title (k).ext". *)
(* Watchers are the debounce timers' threads, Scanner the scheduled scan,  *)
(* Reviewers the jobs that finalise a file without the mutex: the retry of *)
(* aged review tasks and the approvals of the web UI.                      *)
(***************************************************************************)
EXTENDS Integers, FiniteSets

CONSTANTS InPlace,    \* downloads that the daemon writes in place
          Renamed,    \* downloads that it renames into the directory
          Watchers, Scanner, Reviewers, NoOne,
          MaxCopies,  \* bound: the highest number in "title (k).ext"
          MaxFaults,  \* bound on what goes wrong beyond a failed write or move
          AutoImport  \* metadata_enhancement.auto_import

Batches == Watchers \cup {Scanner}     \* threads that run process_batch
Downloads == InPlace \cup Renamed
Threads == Batches \cup Reviewers

ASSUME ImportAssumption ==
    /\ IsFiniteSet(Downloads) /\ AutoImport \in BOOLEAN
    /\ MaxCopies \in Nat /\ MaxFaults \in Nat
    /\ NoOne \notin Threads \cup Downloads /\ Batches \cap Reviewers = {}

Slots == 0..MaxCopies

VARIABLES
    file,       \* what is at each path of the download directory
    age,        \* since its last write: < 5 s, < 15 s (the cool-off), more
    timer,      \* the debounce timers of the importer's watchdog
    library,    \* what each slot holds, whether process_batch put it there, and
                \* whether it is the beginning of a copy that broke off
    review,     \* the review task of each path
    mutex,      \* the library mutex
    processing, \* _processing_files
    untasked,   \* _recently_completed: paths that were decided less than 10 s ago
                \* and left without a review task
    worker,     \* what each thread does
    faults,     \* how much has gone wrong
    paused,     \* history: files that were not written for the cool-off while
                \* they were still growing
    abandoned   \* history: paths that a batch registered before it broke off

env == <<file, age, timer>>
aside == <<untasked, faults, paused, abandoned>>
vars == <<env, library, review, mutex, processing, worker, aside>>

Faulty == faults < MaxFaults /\ faults' = faults + 1

Present == {"growing", "whole"}     \* of more than 64 KB
OnDisk(d) == file[d] \in Present
\* Its timer, if any, will find nothing.
Vanish(d) == /\ file' = [file EXCEPT ![d] = "gone"]
             /\ age' = [age EXCEPT ![d] = "fresh"]
             /\ timer' = timer \ {d}
Free == [of |-> NoOne, batch |-> FALSE, broken |-> FALSE]
Idle == [pc |-> "idle", job |-> "batch", todo |-> {}, at |-> NoOne, slot |-> 0]

Init ==
    /\ file = [d \in Downloads |-> "awaited"] /\ age = [d \in Downloads |-> "fresh"]
    /\ timer = {}
    /\ library = [k \in Slots |-> Free]
    /\ review = [d \in Downloads |-> "none"]
    /\ mutex = NoOne /\ processing = {}
    /\ worker = [t \in Threads |-> Idle]
    /\ untasked = {} /\ faults = 0 /\ paused = {} /\ abandoned = {}

-----------------------------------------------------------------------------
(* The download directory: the daemon writes in place, with pauses of any    *)
(* length, or renames a file that it completed some time ago.               *)

Create(d) ==
    /\ d \in InPlace /\ file[d] = "awaited"
    /\ file' = [file EXCEPT ![d] = "growing"]
    /\ timer' = timer \cup {d}
    /\ UNCHANGED <<age, library, review, mutex, processing, worker, aside>>

MoveIn(d) ==
    /\ d \in Renamed /\ file[d] = "awaited"
    /\ file' = [file EXCEPT ![d] = "whole"]
    /\ \E a \in {"fresh", "settled"} : age' = [age EXCEPT ![d] = a]
    /\ timer' = timer \cup {d}
    /\ UNCHANGED <<library, review, mutex, processing, worker, aside>>

\* on_modified restarts the importer's timer; library_watcher does not listen.
Grow(d) ==
    /\ file[d] = "growing"
    /\ \E f \in {"growing", "whole"} : file' = [file EXCEPT ![d] = f]
    /\ age' = [age EXCEPT ![d] = "fresh"]
    /\ timer' = timer \cup {d}
    /\ UNCHANGED <<library, review, mutex, processing, worker, aside>>

\* A timer fires within the cool-off, and no thread waits so long for a free mutex.
Ripen(d) ==
    /\ OnDisk(d)
    /\ \/ age[d] = "fresh" /\ age' = [age EXCEPT ![d] = "quiet"]
       \/ /\ age[d] = "quiet" /\ d \notin timer /\ file[d] # "growing"
          /\ mutex = NoOne => \A t \in Batches : worker[t].pc # "waiting"
          /\ age' = [age EXCEPT ![d] = "settled"]
    /\ UNCHANGED <<file, timer, library, review, mutex, processing, worker, aside>>

\* The daemon does not write for longer than the cool-off.
Pause(d) ==
    /\ file[d] = "growing" /\ age[d] = "quiet" /\ d \notin timer /\ Faulty
    /\ age' = [age EXCEPT ![d] = "settled"]
    /\ paused' = paused \cup {d}
    /\ UNCHANGED <<file, timer, library, review, mutex, processing, worker, untasked, abandoned>>

-----------------------------------------------------------------------------
(* process_batch                                                            *)

\* The timer of path d fires in thread t, 5 s after the last event.
Fire(t, d) ==
    /\ worker[t].pc = "idle" /\ d \in timer /\ age[d] # "fresh"
    /\ timer' = timer \ {d}
    /\ worker' = [worker EXCEPT ![t] = [Idle EXCEPT !.pc = "waiting", !.todo = {d}]]
    /\ UNCHANGED <<file, age, library, review, mutex, processing, aside>>

\* _is_path_ignored: a pending task backs off for 48 hours, which a forced scan
\* does not heed and which pass.
Ignored(d, again) == review[d] = "ignored" \/ (review[d] = "pending" /\ ~again)

\* The I/O guards: over 64 KB, and not written for 15 s.
GuardedQuiet(d) == OnDisk(d) /\ age[d] # "fresh"

Guarded(d) == OnDisk(d) /\ age[d] = "settled"

\* scan_and_process takes the mutex without blocking, or gives up.
Scan(again) ==
    LET found == {d \in Downloads : Guarded(d) /\ ~Ignored(d, again) /\ d \notin processing}
    IN  /\ worker[Scanner].pc = "idle" /\ mutex = NoOne /\ found # {}
        /\ mutex' = Scanner
        /\ worker' = [worker EXCEPT ![Scanner] = [Idle EXCEPT !.pc = "filter", !.todo = found]]
        /\ UNCHANGED <<env, library, review, processing, aside>>

AcquireAnyway(t) ==
    /\ worker[t].pc = "waiting"
    /\ mutex' = t
    /\ worker' = [worker EXCEPT ![t] = [worker[t] EXCEPT !.pc = "filter"]]
    /\ UNCHANGED <<env, library, review, processing, aside>>

Acquire(t) == mutex = NoOne /\ AcquireAnyway(t)

\* After 60 s the batch is dropped.
TimeOut(t) ==
    /\ worker[t].pc = "waiting" /\ mutex # NoOne
    /\ worker' = [worker EXCEPT ![t] = Idle]
    /\ UNCHANGED <<env, library, review, mutex, processing, aside>>

\* Phase 1: what is left of the batch is registered as being processed.  A path
\* decided less than 10 s ago is dropped (_recently_completed).
Recents == {S \in SUBSET Downloads : /\ untasked \subseteq S
                                     /\ \A d \in S \ untasked : review[d] # "none"}
FilterForgetful(t) ==
    /\ worker[t].pc = "filter"
    /\ \E recent \in Recents :
         LET kept == {d \in worker[t].todo : Guarded(d) /\ d \notin recent \cup processing}
         IN  /\ processing' = processing \cup worker[t].todo
             /\ worker' = [worker EXCEPT ![t] = [worker[t] EXCEPT !.pc = "next", !.todo = kept]]
    /\ UNCHANGED <<env, library, review, mutex, aside>>

Filter(t) ==
    /\ worker[t].pc = "filter"
    /\ \E recent \in Recents :
         LET kept == {d \in worker[t].todo : Guarded(d) /\ d \notin recent \cup processing}
         IN  /\ processing' = processing \cup kept
             /\ worker' = [worker EXCEPT ![t] = [worker[t] EXCEPT !.pc = "next", !.todo = kept]]
    /\ UNCHANGED <<env, library, review, mutex, aside>>

\* exists() raises for a path that has just been registered: the batch breaks off,
\* and that path and those before it stay registered.
FilterBreaks(t) ==
    /\ worker[t].pc = "filter" /\ Faulty
    /\ \E recent \in Recents, first \in SUBSET worker[t].todo :
         LET open == first \ (recent \cup processing)
         IN  \E d \in open :
               LET left == {d} \cup {e \in open : Guarded(e)}
               IN  processing' = processing \cup left /\ abandoned' = abandoned \cup left
    /\ worker' = [worker EXCEPT ![t] = Idle]
    /\ mutex' = NoOne
    /\ UNCHANGED <<env, library, review, untasked, paused>>

\* 10 s have passed since the decision.
Expire(d) ==
    /\ d \in untasked
    /\ untasked' = untasked \ {d}
    /\ UNCHANGED <<env, library, review, mutex, processing, worker, faults, paused, abandoned>>

DecidedKeeping(t, d) ==
    /\ UNCHANGED processing
    /\ worker' = [worker EXCEPT ![t] = [Idle EXCEPT !.pc = "next", !.todo = worker[t].todo \ {d}]]

DecidedHolding(t, d) ==
    /\ processing' = processing \ {d}
    /\ worker' = [worker EXCEPT ![t] = [worker[t] EXCEPT !.pc = "next", !.todo = @ \ {d}]]

\* The `finally' of the decision about path d, for a thread of process_batch.
Decided(t, d) ==
    /\ processing' = processing \ {d}
    /\ worker' = [worker EXCEPT ![t] = [Idle EXCEPT !.pc = "next", !.todo = worker[t].todo \ {d}]]

\* create_or_update_review_task writes the status whatever it was; it swallows
\* whatever it fails with.  Before it, the step has brought the faults to n.
Asked(d, n) ==
    /\ \/ review' = [review EXCEPT ![d] = "pending"] /\ faults' = n /\ UNCHANGED untasked
       \/ /\ n < MaxFaults /\ faults' = n + 1
          /\ untasked' = untasked \cup {d} /\ UNCHANGED review
    /\ UNCHANGED <<paused, abandoned>>

\* A confident match is finalised when the setting says so; no match, no
\* setting or an exception queues the file for review.
Resolve(t) ==
    /\ worker[t].pc = "next"
    /\ \E d \in worker[t].todo :
         \/ /\ AutoImport
            /\ worker' = [worker EXCEPT ![t] = [worker[t] EXCEPT !.pc = "tag", !.at = d]]
            /\ UNCHANGED <<review, processing, aside>>
         \/ Asked(d, faults) /\ Decided(t, d)
    /\ UNCHANGED <<env, library, mutex>>

Finish(t) ==
    /\ worker[t].pc = "next" /\ worker[t].todo = {}
    /\ worker' = [worker EXCEPT ![t] = Idle]
    /\ mutex' = NoOne
    /\ UNCHANGED <<env, library, review, processing, aside>>

-----------------------------------------------------------------------------
(* finalize_import, in a thread of process_batch or outside the mutex       *)

At(t) == worker[t].at

\* The outcome of a failed finalisation: process_batch queues the file for
\* review, the retry job and an approval give up.
Fail(t, n) ==
    \/ t \in Batches /\ Asked(At(t), n) /\ Decided(t, At(t))
    \/ /\ t \in Reviewers
       /\ worker' = [worker EXCEPT ![t] = Idle] /\ faults' = n
       /\ UNCHANGED <<review, processing, untasked, paused, abandoned>>

\* Writing the tags is a write that the importer's own watchdog sees.
Tag(t) ==
    /\ worker[t].pc = "tag" /\ OnDisk(At(t))
    /\ age' = [age EXCEPT ![At(t)] = "fresh"] /\ timer' = timer \cup {At(t)}
    /\ worker' = [worker EXCEPT ![t] = [worker[t] EXCEPT !.pc = "place"]]
    /\ UNCHANGED <<file, library, review, mutex, processing, aside>>

\* The file is gone, or the tags cannot be written or verified.
TagFails(t) ==
    /\ worker[t].pc = "tag"
    /\ Fail(t, faults)
    /\ UNCHANGED <<env, library, mutex>>

\* "Keep Both": the first name that is not taken now.
FreeSlots == {k \in Slots : library[k] = Free}
Place(t) ==
    /\ worker[t].pc = "place"
    /\ \E k \in FreeSlots :
         /\ \A j \in FreeSlots : k <= j
         /\ worker' = [worker EXCEPT ![t] = [worker[t] EXCEPT !.pc = "move", !.slot = k]]
    /\ UNCHANGED <<env, library, review, mutex, processing, aside>>

\* Gatekeeper: a rename, or a copy and an unlink that may fail; both replace
\* what is at the destination.
Move(t) ==
    /\ worker[t].pc = "move" /\ OnDisk(At(t))
    /\ library' = [library EXCEPT ![worker[t].slot] =
                        [of |-> At(t), batch |-> t \in Batches, broken |-> FALSE]]
    /\ \/ Vanish(At(t)) /\ UNCHANGED faults
       \/ Faulty /\ UNCHANGED env
    /\ worker' = [worker EXCEPT ![t] = [worker[t] EXCEPT !.pc = "record", !.slot = 0]]
    /\ UNCHANGED <<review, mutex, processing, untasked, paused, abandoned>>

\* A copy to another device writes to the name itself; one that breaks off leaves
\* what it has written.
MoveFails(t) ==
    /\ worker[t].pc = "move"
    /\ \/ Fail(t, faults) /\ UNCHANGED library
       \/ /\ OnDisk(At(t)) /\ faults < MaxFaults /\ Fail(t, faults + 1)
          /\ library' = [library EXCEPT ![worker[t].slot] =
                              [of |-> At(t), batch |-> t \in Batches, broken |-> TRUE]]
    /\ UNCHANGED <<env, mutex>>

\* Pruning the source directory fails after the move, or the task's write does:
\* the moved file is queued for review, or its task stays as it was.
RecordFails(t) ==
    /\ worker[t].pc = "record" /\ faults < MaxFaults
    /\ Fail(t, faults + 1)
    /\ UNCHANGED <<env, library, mutex>>

\* The task is approved, or deleted at the end of an approval.
Record(t) ==
    /\ worker[t].pc = "record"
    /\ review' = [review EXCEPT ![At(t)] = IF worker[t].job = "approval" THEN "none" ELSE "closed"]
    /\ \/ t \in Batches /\ Decided(t, At(t))
       \/ /\ t \in Reviewers
          /\ worker' = [worker EXCEPT ![t] = Idle]
          /\ UNCHANGED processing
    /\ UNCHANGED <<env, library, mutex, aside>>

-----------------------------------------------------------------------------
(* The review queue                                                         *)

\* _retry_aged_review_tasks finds a confident match for a pending task.
Retry(t, d) ==
    /\ worker[t].pc = "idle" /\ review[d] = "pending" /\ OnDisk(d) /\ AutoImport
    /\ worker' = [worker EXCEPT ![t] = [Idle EXCEPT !.pc = "tag", !.job = "retry", !.at = d]]
    /\ UNCHANGED <<env, library, review, mutex, processing, aside>>

\* The approval job of the web UI, whatever the status of the task.
Approve(t, d) ==
    /\ worker[t].pc = "idle" /\ review[d] # "none" /\ OnDisk(d)
    /\ worker' = [worker EXCEPT ![t] = [Idle EXCEPT !.pc = "tag", !.job = "approval", !.at = d]]
    /\ UNCHANGED <<env, library, review, mutex, processing, aside>>

Reject(d) ==
    /\ review[d] # "none"
    /\ IF OnDisk(d) THEN Vanish(d) ELSE UNCHANGED env
    /\ review' = [review EXCEPT ![d] = "closed"]
    /\ UNCHANGED <<library, mutex, processing, worker, aside>>

Ignore(d) ==
    /\ review[d] # "none"
    /\ review' = [review EXCEPT ![d] = "ignored"]
    /\ UNCHANGED <<env, library, mutex, processing, worker, aside>>

\* TRACK_IMPORTED for a file of the same recording, in the download directory
\* or not, evicts every pending task.
TrackImported ==
    /\ \E d \in Downloads : review[d] = "pending"
    /\ review' = [d \in Downloads |-> IF review[d] = "pending" THEN "closed" ELSE review[d]]
    /\ UNCHANGED <<env, library, mutex, processing, worker, aside>>

-----------------------------------------------------------------------------
Work(t) == \/ Acquire(t) \/ TimeOut(t) \/ Filter(t) \/ FilterBreaks(t) \/ Resolve(t) \/ Finish(t)
           \/ Tag(t) \/ TagFails(t) \/ Place(t) \/ Move(t) \/ MoveFails(t)
           \/ Record(t) \/ RecordFails(t)

Next == \/ \E d \in Downloads :
             \/ Create(d) \/ MoveIn(d) \/ Grow(d) \/ Ripen(d) \/ Pause(d)
             \/ Reject(d) \/ Ignore(d) \/ Expire(d)
             \/ \E t \in Watchers : Fire(t, d)
             \/ \E t \in Reviewers : Retry(t, d) \/ Approve(t, d)
        \/ \E t \in Threads : Work(t)
        \/ \E again \in BOOLEAN : Scan(again)
        \/ TrackImported

Spec == Init /\ [][Next]_vars

\* Threads run, time passes, timers fire (each has a thread of its own, so the
\* bound on Watchers never holds one back for good), and the scheduled scan, which comes
\* back every three hours, sooner or later finds the mutex free.
FairSpec ==
    /\ Spec
    /\ \A t \in Threads : WF_vars(Work(t))
    /\ \A d \in Downloads : SF_vars(Ripen(d)) /\ WF_vars(Expire(d))
    /\ \A d \in Downloads : SF_vars(\E t \in Watchers : Fire(t, d))
    /\ SF_vars(Scan(FALSE))

-----------------------------------------------------------------------------
(* Properties *)

Finalising == {"tag", "place", "move", "record"}
Task == [pc : Finalising \cup {"idle", "waiting", "filter", "next"}, job : {"batch", "retry", "approval"},
         todo : SUBSET Downloads, at : Downloads \cup {NoOne}, slot : Slots]

Held == [of : Downloads \cup {NoOne}, batch : BOOLEAN, broken : BOOLEAN]

ImportTypeOK ==
    /\ file \in [Downloads -> Present \cup {"awaited", "gone"}]
    /\ age \in [Downloads -> {"fresh", "quiet", "settled"}]
    /\ timer \subseteq Downloads
    /\ library \in [Slots -> Held]
    /\ review \in [Downloads -> {"none", "pending", "ignored", "closed"}]
    /\ mutex \in Batches \cup {NoOne}
    /\ processing \cup untasked \cup paused \cup abandoned \subseteq Downloads
    /\ faults \in 0..MaxFaults
    /\ worker \in [Threads -> Task]
    /\ \A t \in Threads : worker[t].at # NoOne <=> worker[t].pc \in Finalising

\* "Keep Both": no file of the library is ever replaced by another one.
KeepsBoth == [][\A k \in Slots : library[k] # Free => library'[k] = library[k]]_vars

\* It is kept by the threads of process_batch among themselves, because the
\* check for a free name and the move are under one mutex.
BatchesKeepBoth ==
    [][\A k \in Slots :
         library[k].batch /\ library'[k].batch => library'[k] = library[k]]_vars

\* What reaches the library was complete when it was moved, although the writer is
\* watched by timers alone and the move comes long after the guards, unless the
\* writer had paused for the cool-off.  Where only a part of it got there, the
\* source is still in the download directory.
OnlyWholeImported ==
    [][\A k \in Slots, d \in Downloads :
         library'[k] # library[k] /\ library'[k].of = d =>
             /\ file[d] = "whole" \/ d \in paused
             /\ library'[k].broken => OnDisk(d)']_vars

\* A path is registered as being processed exactly as long as a batch has it, or
\* for good if a batch broke off with it: no decision, however it ends, and no
\* guard leaves a path behind, which would bar it from every later scan.
InFlight == UNION {worker[t].todo : t \in {u \in Batches : worker[u].pc \notin {"waiting", "filter"}}}
ProcessingAccounted == processing = InFlight \cup abandoned

\* Every complete download leaves the directory or gets a review task, however
\* often the watchdog is too early, a batch times out, a file cannot be moved or a
\* task cannot be written.  Only a path that a batch broke off with may stay.
Handled == \A d \in Downloads :
    file[d] = "whole" /\ review[d] = "none"
        ~> file[d] # "whole" \/ review[d] # "none" \/ d \in abandoned
=============================================================================
