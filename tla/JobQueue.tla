------------------------------ MODULE JobQueue ------------------------------
(***************************************************************************)
(* core/task_manager/task_queue.py: the JobQueue that every background     *)
(* activity of the program goes through.  A scheduler loop pops the jobs   *)
(* that are due from a heap, gates them (collision avoidance, worker       *)
(* slots, the exclusive database lease) and hands each to a thread; the    *)
(* API registers, triggers, cancels, removes, pauses and leases jobs.      *)
(*                                                                         *)
(* A job OBJECT (a ScheduledJob) is kept apart from the NAME it is         *)
(* registered under: the dictionary maps a name to an object, while the    *)
(* heap and the worker threads hold objects, and the interesting           *)
(* behaviours are those in which the three disagree.                       *)
(*                                                                         *)
(* Time is abstract: a job is `due' when a pass would find it, with its    *)
(* next_run behind the pass's clock, at the top of the heap.  TimePasses   *)
(* makes a job due at any moment after its next_run was set, so the order  *)
(* in which a pass pops the due jobs is arbitrary, and a heap that an      *)
(* in-place change of next_run left out of order is covered as well.       *)
(***************************************************************************)
EXTENDS Integers, FiniteSets

CONSTANTS
    Names,          \* job names
    SyncNames,      \* names containing "library_sync" or "database_update"
    ImportNames,    \* names containing "auto_import"
    Registrations,  \* name -> the settings register_job is called with
    WithParams,     \* whether a registration or a trigger may carry params
    Pausable,       \* names the API pauses and resumes
    Cooperative,    \* leased names whose workflow waits while it is paused
    Plugins, NoPlugin,
    Objs, NoJob,    \* ScheduledJob objects, and "no object"
    Threads,        \* worker threads
    Loops,          \* scheduler threads (start() may create several)
    Helpers,        \* supervised threads bound to the general pool
    Leasers,        \* threads that run a workflow under lease_task
    LeaseName,      \* leaser -> the name it leases
    CoreSlots,      \* BoundedSemaphore(2)
    GeneralSlots,   \* BoundedSemaphore(worker_count)
    WalPressure,    \* what the check of the WAL file's size may answer
    MaxWriters,     \* initial value of the write-lease semaphore
    MaxPending      \* _max_pending_jobs

VARIABLES
    jobs,            \* _jobs: name -> object
    job,             \* the fields of each object
    heap,            \* _heap: how many entries each object has
    deferred,        \* temp_heap of the pass that holds the lock
    isRunning,       \* _is_running
    paused,          \* _paused_jobs
    slots,           \* free permits of the two worker semaphores
    permits,         \* value of _db_write_lease
    exclusiveActive, \* _exclusive_lease_active
    helping,         \* the helpers that have their slot
    exec,            \* what each worker thread does, and for which object
    loop,            \* program counter of each scheduler thread
    toRun,           \* to_run of each scheduler thread
    started,         \* _running
    lease,           \* what each leaser does
    restart,         \* RESTART_PENDING
    accepting        \* plugins for which can_accept_work is true

registry == <<jobs, isRunning, paused>>
resources == <<slots, permits, exclusiveActive, helping>>
scheduler == <<loop, toRun, started>>
environment == <<restart, accepting>>
vars == <<jobs, job, heap, deferred, isRunning, paused, slots, permits,
          exclusiveActive, helping, exec, loop, toRun, started, lease, restart,
          accepting>>

-----------------------------------------------------------------------------
(* Data *)

Categories == {"GENERAL", "CRITICAL", "DATABASE_WRITE_HEAVY", "BACKGROUND_METADATA"}
WriteCategories == {"DATABASE_WRITE_HEAVY", "BACKGROUND_METADATA"}
Statuses == {"QUEUED", "RUNNING", "PAUSED", "COMPLETED", "FAILED_TERMINAL",
             "RETRY_BACKOFF", "CANCELLED", "BLOCKED_WAITING_LEASE"}
Priorities == {"LOW", "NORMAL", "HIGH", "CRITICAL"}
Rank(p) == CASE p = "LOW" -> 0 [] p = "NORMAL" -> 1 [] OTHER -> 2

\* What register_job is told about a job.  The interval, the start delay, the
\* backoff and skip_if_blocked only move next_run, which is abstract here.
Settings == [recurring : BOOLEAN, enabled : BOOLEAN, category : Categories,
             exclusive : BOOLEAN, maxRetries : Nat, priority : Priorities,
             plugin : Plugins \cup {NoPlugin}]

Jobs == [name : Names, set : Settings, state : Statuses, running : BOOLEAN,
         due : BOOLEAN, retries : Nat, params : BOOLEAN]

NewJob(n, s, p) == [name |-> n, set |-> s, state |-> "QUEUED", running |-> FALSE,
                    due |-> FALSE, retries |-> 0, params |-> p]

LeasedSettings ==
    [recurring |-> FALSE, enabled |-> TRUE, category |-> "BACKGROUND_METADATA",
     exclusive |-> FALSE, maxRetries |-> 0, priority |-> "NORMAL", plugin |-> NoPlugin]

Pools == {"core", "general"}
Capacity(p) == IF p = "core" THEN CoreSlots ELSE GeneralSlots
Pool(o) == IF job[o].set.category = "CRITICAL" THEN "core" ELSE "general"

Idle == [pc |-> "idle", obj |-> NoJob, leased |-> FALSE]
Executing(t) == exec[t].pc # "idle"
LeaseNames == {LeaseName[k] : k \in Leasers}
SomeName == CHOOSE n \in Names : TRUE

ASSUME QueueAssumption ==
    /\ Names # {}
    /\ LeaseName \in [Leasers -> Names]
    /\ Registrations \in [Names \ LeaseNames -> SUBSET Settings]
    /\ Pausable \subseteq Names
    /\ WithParams \subseteq BOOLEAN /\ WalPressure \subseteq BOOLEAN
    /\ NoJob \notin Objs
    /\ CoreSlots \in Nat /\ GeneralSlots \in Nat
    /\ MaxWriters \in Nat /\ MaxPending \in Nat
    /\ IsFiniteSet(Threads) /\ IsFiniteSet(Helpers)

Registered == {n \in Names : jobs[n] # NoJob}

\* The lock is held across a whole pass of the scheduler; every other locked
\* section is one action.
LockFree == \A l \in Loops : loop[l] # "scan"

\* Objects nothing refers to any more.
Unused == {o \in Objs : /\ o \notin {jobs[n] : n \in Names}
                        /\ heap[o] = 0 /\ deferred[o] = 0
                        /\ \A t \in Threads : exec[t].obj # o}

-----------------------------------------------------------------------------
Init ==
    /\ jobs = [n \in Names |-> NoJob]
    /\ job = [o \in Objs |-> NewJob(SomeName, LeasedSettings, FALSE)]
    /\ heap = [o \in Objs |-> 0]
    /\ deferred = [o \in Objs |-> 0]
    /\ isRunning = [n \in Names |-> FALSE]
    /\ paused = {}
    /\ slots = [p \in Pools |-> Capacity(p)]
    /\ permits = MaxWriters
    /\ exclusiveActive = FALSE
    /\ helping = {}
    /\ exec = [t \in Threads |-> Idle]
    /\ loop = [l \in Loops |-> "off"]
    /\ toRun = [l \in Loops |-> {}]
    /\ started = FALSE
    /\ lease = [k \in Leasers |-> "none"]
    /\ restart = FALSE
    /\ accepting = Plugins

-----------------------------------------------------------------------------
(* Gates: can_execute and the operations it calls *)

HeavyOnly(o) == job[o].set.category = "DATABASE_WRITE_HEAVY" \/ job[o].set.exclusive
IsWrite(o) == job[o].set.category \in WriteCategories \/ job[o].set.exclusive

ThreadWriting == exclusiveActive \/ \E t \in Threads : Executing(t) /\ IsWrite(exec[t].obj)
WriteHeavyRunning ==
    exclusiveActive \/ \E n \in Registered : job[jobs[n]].running /\ IsWrite(jobs[n])

StateRunning(S) == \E n \in S \cap Registered : job[jobs[n]].state = "RUNNING"
NameRunning(S) ==
    \/ \E n \in S : isRunning[n]
    \/ \E n \in S \cap Registered :
          job[jobs[n]].running \/ job[jobs[n]].state = "RUNNING"

HeldByRestart(o) == restart /\ job[o].set.category # "CRITICAL"

CanExecute(o) ==
    LET n == job[o].name IN
    /\ ~HeldByRestart(o)
    /\ job[o].set.plugin # NoPlugin => job[o].set.plugin \in accepting
    /\ IsWrite(o) => ~WriteHeavyRunning
    /\ n \in SyncNames => ~NameRunning(ImportNames)
    /\ n \in ImportNames \ SyncNames => ~NameRunning(SyncNames)

\* What can_execute leaves in a job it refuses: a restart pauses it and keeps
\* its next_run, every other reason moves next_run into the future.
Refused(o) ==
    IF HeldByRestart(o)
    THEN [job EXCEPT ![o].state = "PAUSED"]
    ELSE [job EXCEPT ![o].state = "BLOCKED_WAITING_LEASE", ![o].due = FALSE]

RemoveNothing(n) == heap
RemoveFromHeap(n) == [o \in Objs |-> IF job[o].name = n THEN 0 ELSE heap[o]]
Push(h, o) == [h EXCEPT ![o] = @ + 1]

-----------------------------------------------------------------------------
(* register_job, execute_job_now *)

\* What the API takes for "actively running".
BusyByState(n) == job[jobs[n]].state = "RUNNING"
Busy(n) == job[jobs[n]].running \/ isRunning[n]

\* Registering a name whose job is running changes the job's settings, all but
\* its category, its plugin and its retries.
Updated(old, new) ==
    [new EXCEPT !.category = old.category, !.plugin = old.plugin, !.maxRetries = old.maxRetries]

RegisterRunning(n, s, p) ==
    /\ LockFree
    /\ n \in Registered
    /\ Busy(n)
    /\ job' = [job EXCEPT ![jobs[n]].params = p, ![jobs[n]].set = Updated(@, s)]
    /\ UNCHANGED <<registry, heap, deferred, resources, exec, scheduler, lease, environment>>

\* A new object o takes the name; an object queued under the name leaves the
\* heap with it.
RegisterNew(n, s, p, o) ==
    /\ LockFree
    /\ n \in Registered => ~Busy(n)
    /\ n \notin Registered => Cardinality(Registered) < MaxPending
    /\ o \in Unused
    /\ job' = [job EXCEPT ![o] = NewJob(n, s, p)]
    /\ jobs' = [jobs EXCEPT ![n] = o]
    /\ heap' = Push(IF n \in Registered THEN RemoveFromHeap(n) ELSE heap, o)
    /\ UNCHANGED <<isRunning, paused, deferred, resources, exec, scheduler, lease, environment>>

\* At capacity a one-time job evicts the recurring job of lowest priority that
\* is not running; among equals the one whose next_run is furthest (here: any).
\* A recurring job is turned away, and so is a one-time job without a victim.
Evictable == {n \in Registered : ~job[jobs[n]].running /\ job[jobs[n]].set.recurring}

RegisterEvicting(n, s, p, o, victim) ==
    /\ LockFree
    /\ n \notin Registered /\ Cardinality(Registered) >= MaxPending
    /\ ~s.recurring
    /\ victim \in Evictable
    /\ \A m \in Evictable : Rank(job[jobs[victim]].set.priority) <= Rank(job[jobs[m]].set.priority)
    /\ o \in Unused
    /\ job' = [job EXCEPT ![o] = NewJob(n, s, p), ![jobs[victim]].state = "CANCELLED"]
    /\ jobs' = [jobs EXCEPT ![victim] = NoJob, ![n] = o]
    /\ isRunning' = [isRunning EXCEPT ![victim] = FALSE]
    /\ heap' = Push(RemoveFromHeap(victim), o)
    /\ UNCHANGED <<paused, deferred, resources, exec, scheduler, lease, environment>>

Register(n) ==
    \E s \in Registrations[n], p \in WithParams :
        \/ RegisterRunning(n, s, p)
        \/ \E o \in Objs : RegisterNew(n, s, p, o)
        \/ \E o \in Objs, victim \in Names : RegisterEvicting(n, s, p, o, victim)

LastParams(o, withParams) == withParams
MergedParams(o, withParams) == job[o].params \/ withParams

\* A manual trigger sets next_run to the present, which a pass that has already
\* read the clock does not see, or, when the gate refuses it, leaves the gate's
\* marks on the scheduled job.
Trigger(n, withParams) ==
    /\ LockFree
    /\ n \in Registered
    /\ ~Busy(n)
    /\ \/ /\ CanExecute(jobs[n])
          /\ \E due \in BOOLEAN :
                job' = [job EXCEPT ![jobs[n]].params = MergedParams(jobs[n], withParams), ![jobs[n]].due = due]
          /\ heap' = Push(RemoveFromHeap(n), jobs[n])
       \/ /\ ~CanExecute(jobs[n])
          /\ job' = Refused(jobs[n])
          /\ UNCHANGED heap
    /\ UNCHANGED <<registry, deferred, resources, exec, scheduler, lease, environment>>

-----------------------------------------------------------------------------
(* cancel_job, kill_jobs_by_plugin, unregister_job *)

CancelledJobs(S) ==
    [o \in Objs |-> IF o \in {jobs[n] : n \in S}
                   THEN [job[o] EXCEPT !.running = FALSE, !.state = "CANCELLED"]
                   ELSE job[o]]

\* The names S are cancelled under the lock.  Nothing stops the threads that run
\* them, and nothing leaves the heap.
CancelAll(S) ==
    /\ LockFree
    /\ S # {}
    /\ job' = CancelledJobs(S)
    /\ isRunning' = [n \in Names |-> isRunning[n] /\ n \notin S]

Cancel(n) ==
    /\ n \in Registered
    /\ CancelAll({n})
    /\ UNCHANGED <<jobs, paused, heap, deferred, resources, exec, scheduler, lease, environment>>

KillByPlugin(p) ==
    /\ CancelAll({n \in Registered : job[jobs[n]].set.plugin = p})
    /\ UNCHANGED <<jobs, paused, heap, deferred, resources, exec, scheduler, lease, environment>>

Unregister(n) ==
    /\ n \in Registered
    /\ CancelAll({n})
    /\ heap' = RemoveFromHeap(n)
    /\ jobs' = [jobs EXCEPT ![n] = NoJob]
    /\ UNCHANGED <<paused, deferred, resources, exec, scheduler, lease, environment>>

-----------------------------------------------------------------------------
(* start, stop and the scheduler loop *)

Start(l) ==
    /\ ~started /\ loop[l] = "off"
    /\ started' = TRUE
    /\ loop' = [loop EXCEPT ![l] = "sleep"]
    /\ UNCHANGED <<registry, job, heap, deferred, resources, exec, toRun, lease, environment>>

\* stop() waits a bounded time for the loop and returns whether it ended or not.
Stop ==
    /\ started
    /\ started' = FALSE
    /\ UNCHANGED <<registry, job, heap, deferred, resources, exec, loop, toRun, lease, environment>>

BeginPass(l) ==
    /\ loop[l] = "sleep" /\ LockFree
    /\ loop' = [loop EXCEPT ![l] = "scan"]
    /\ UNCHANGED <<registry, job, heap, deferred, resources, exec, toRun, started, lease, environment>>

Popped(l, o) == loop[l] = "scan" /\ heap[o] > 0 /\ job[o].due
Pop(o) == [heap EXCEPT ![o] = @ - 1]
SlotIgnored(o) == TRUE
SlotFree(o) == slots[Pool(o)] > 0
LeaseFree(o) == job[o].set.exclusive => permits > 0 /\ FALSE \in WalPressure
Runnable(o) == job[o].set.enabled /\ ~job[o].running

\* A disabled job, or one that is already running, leaves the heap for good.
Discard(l, o) ==
    /\ Popped(l, o)
    /\ ~Runnable(o)
    /\ heap' = Pop(o)
    /\ UNCHANGED <<registry, job, deferred, resources, exec, scheduler, lease, environment>>

Refuse(l, o) ==
    /\ Popped(l, o)
    /\ Runnable(o) /\ ~CanExecute(o)
    /\ heap' = Pop(o)
    /\ job' = Refused(o)
    /\ deferred' = Push(deferred, o)
    /\ UNCHANGED <<registry, resources, exec, scheduler, lease, environment>>

\* No worker slot, or no exclusive lease: every permit is taken, or the WAL
\* file is over its limit, which it may be at any moment; the slot is then
\* given back.
Postpone(l, o) ==
    /\ Popped(l, o)
    /\ Runnable(o) /\ CanExecute(o)
    /\ \/ ~SlotFree(o)
       \/ job[o].set.exclusive /\ (permits = 0 \/ TRUE \in WalPressure)
    /\ heap' = Pop(o)
    /\ job' = [job EXCEPT ![o].state = "BLOCKED_WAITING_LEASE", ![o].due = FALSE]
    /\ deferred' = Push(deferred, o)
    /\ UNCHANGED <<registry, resources, exec, scheduler, lease, environment>>

\* The job is marked running and joins this pass's to_run; the slot and the
\* lease are taken here, by the scheduler's thread, for the thread t to come.
Dispatch(l, o, t) ==
    /\ Popped(l, o)
    /\ Runnable(o) /\ CanExecute(o)
    /\ SlotFree(o) /\ LeaseFree(o)
    /\ ~Executing(t)
    /\ heap' = Pop(o)
    /\ job' = [job EXCEPT ![o].running = TRUE, ![o].state = "RUNNING"]
    /\ isRunning' = [isRunning EXCEPT ![job[o].name] = TRUE]
    /\ slots' = [slots EXCEPT ![Pool(o)] = @ - 1]
    /\ permits' = IF job[o].set.exclusive THEN permits - 1 ELSE permits
    /\ exclusiveActive' = (exclusiveActive \/ job[o].set.exclusive)
    /\ exec' = [exec EXCEPT ![t] = [pc |-> "selected", obj |-> o, leased |-> job[o].set.exclusive]]
    /\ toRun' = [toRun EXCEPT ![l] = @ \cup {t}]
    /\ UNCHANGED <<jobs, paused, deferred, helping, loop, started, lease, environment>>

EndPass(l) ==
    /\ loop[l] = "scan"
    /\ \A o \in Objs : ~Popped(l, o)
    /\ heap' = [o \in Objs |-> heap[o] + deferred[o]]
    /\ deferred' = [o \in Objs |-> 0]
    /\ loop' = [loop EXCEPT ![l] = "launch"]
    /\ UNCHANGED <<registry, job, resources, exec, toRun, started, lease, environment>>

Launch(l, t) ==
    /\ loop[l] = "launch" /\ LockFree
    /\ t \in toRun[l]
    /\ toRun' = [toRun EXCEPT ![l] = @ \ {t}]
    /\ exec' = [exec EXCEPT ![t].pc = "running"]
    /\ UNCHANGED <<registry, job, heap, deferred, resources, loop, started, lease, environment>>

Repeat(l) ==
    /\ loop[l] = "launch" /\ toRun[l] = {}
    /\ loop' = [loop EXCEPT ![l] = IF started THEN "sleep" ELSE "off"]
    /\ UNCHANGED <<registry, job, heap, deferred, resources, exec, toRun, started, lease, environment>>

-----------------------------------------------------------------------------
(* _execute_wrapper and _finalize_job_after_run *)

\* The function returns, fails for good, or fails with an error the wrapper
\* takes for transient.  The status is written without the lock.
Outcomes == {"success", "transient", "error"}

Return(t, outcome) ==
    LET o == exec[t].obj
        retried == outcome = "transient" /\ job[o].retries < job[o].set.maxRetries
    IN
    /\ exec[t].pc = "running"
    /\ exec' = [exec EXCEPT ![t].pc = "finished"]
    /\ job' = IF retried
              THEN [job EXCEPT ![o].retries = @ + 1, ![o].due = FALSE, ![o].state = "RETRY_BACKOFF"]
              ELSE [job EXCEPT ![o].state = IF outcome = "success" THEN "COMPLETED"
                                            ELSE "FAILED_TERMINAL"]
    /\ UNCHANGED <<registry, heap, deferred, resources, scheduler, lease, environment>>

\* _release_worker_slot: a BoundedSemaphore refuses to exceed its initial value.
ReleaseGeneral(p) == [slots EXCEPT !["general"] = IF @ < Capacity("general") THEN @ + 1 ELSE @]
ReleaseSlot(p) == [slots EXCEPT ![p] = IF @ < Capacity(p) THEN @ + 1 ELSE @]

\* Where the job goes after a run: back to the heap for a retry or for its next
\* interval, nowhere (disabled or cancelled meanwhile), or, a one-time job, out
\* of the queue together with everything under its name.
RequeuedIfCompleted(o) ==
    job[o].set.recurring /\ job[o].set.enabled /\ job[o].state = "COMPLETED"
Requeued(o) ==
    \/ job[o].state = "RETRY_BACKOFF"
    \/ job[o].set.recurring /\ job[o].set.enabled /\ job[o].state # "CANCELLED"
Retired(o) == job[o].state # "RETRY_BACKOFF" /\ ~job[o].set.recurring

\* The lease is returned if the job's settings ask for it now.
ReturnsLeaseIfOk(o) == job[o].set.exclusive /\ job[o].state = "COMPLETED"
ReturnsLease(o) == job[o].set.exclusive

Finalize(t) ==
    LET o == exec[t].obj
        n == job[o].name
        waits == Requeued(o) /\ job[o].state # "RETRY_BACKOFF"
    IN
    /\ exec[t].pc = "finished" /\ LockFree
    /\ slots' = ReleaseSlot(Pool(o))
    /\ permits' = IF ReturnsLease(o) THEN permits + 1 ELSE permits
    /\ exclusiveActive' = (exclusiveActive /\ ~ReturnsLease(o))
    /\ job' = [job EXCEPT ![o].running = FALSE, ![o].params = FALSE,
                          ![o].state = IF waits THEN "QUEUED" ELSE @,
                          ![o].due = @ /\ ~waits]
    /\ isRunning' = [isRunning EXCEPT ![n] = FALSE]
    /\ heap' = IF Requeued(o) THEN Push(heap, o)
               ELSE IF Retired(o) THEN RemoveFromHeap(n) ELSE heap
    /\ jobs' = IF Retired(o) THEN [jobs EXCEPT ![n] = NoJob] ELSE jobs
    /\ exec' = [exec EXCEPT ![t] = Idle]
    /\ UNCHANGED <<paused, deferred, helping, scheduler, lease, environment>>

-----------------------------------------------------------------------------
(* pause_job, resume_job, lease_task, and what happens around the queue *)

Pause(n) ==
    /\ LockFree
    /\ paused' = paused \cup {n}
    /\ job' = IF n \in Registered THEN [job EXCEPT ![jobs[n]].state = "PAUSED"] ELSE job
    /\ UNCHANGED <<jobs, isRunning, heap, deferred, resources, exec, scheduler, lease, environment>>

Resume(n) ==
    /\ LockFree
    /\ paused' = paused \ {n}
    /\ job' = IF n \in Registered /\ job[jobs[n]].state = "PAUSED"
              THEN [job EXCEPT ![jobs[n]].state = IF job[jobs[n]].running THEN "RUNNING" ELSE "QUEUED"]
              ELSE job
    /\ UNCHANGED <<jobs, isRunning, heap, deferred, resources, exec, scheduler, lease, environment>>

\* is_paused, which wait_for_resume polls.
IsPaused(n) == n \in paused \/ (n \in Registered /\ job[jobs[n]].state = "PAUSED")

\* A leased workflow runs on its caller's thread: it takes the name over from
\* whatever object had it, and asks neither the gate nor the worker slots.
LeaseEnter(k, o) ==
    LET n == LeaseName[k] IN
    /\ LockFree
    /\ lease[k] = "none"
    /\ o \in Unused
    /\ job' = [job EXCEPT ![o] = [NewJob(n, LeasedSettings, FALSE) EXCEPT !.state = "RUNNING", !.running = TRUE]]
    /\ jobs' = [jobs EXCEPT ![n] = o]
    /\ isRunning' = [isRunning EXCEPT ![n] = TRUE]
    /\ lease' = [lease EXCEPT ![k] = "working"]
    /\ UNCHANGED <<paused, heap, deferred, resources, exec, scheduler, environment>>

\* The two locked sections of its exit: mark the object now under the name as
\* ended, then remove whatever is under the name.
LeaseExit(k) ==
    LET n == LeaseName[k] IN
    /\ LockFree
    /\ lease[k] = "working"
    /\ n \in Cooperative => ~IsPaused(n)
    /\ \E ending \in {"COMPLETED", "FAILED_TERMINAL"} :
          job' = IF n \in Registered
                 THEN [job EXCEPT ![jobs[n]].state = ending, ![jobs[n]].running = FALSE]
                 ELSE job
    /\ lease' = [lease EXCEPT ![k] = "ending"]
    /\ UNCHANGED <<registry, heap, deferred, resources, exec, scheduler, environment>>

LeaseDrop(k) ==
    LET n == LeaseName[k] IN
    /\ LockFree
    /\ lease[k] = "ending"
    /\ isRunning' = [isRunning EXCEPT ![n] = FALSE]
    /\ paused' = paused \ {n}
    /\ jobs' = [jobs EXCEPT ![n] = NoJob]
    /\ lease' = [lease EXCEPT ![k] = "none"]
    /\ UNCHANGED <<job, heap, deferred, resources, exec, scheduler, environment>>

\* spawn_supervised_thread(bound_to_general_pool=True): the thread waits for a
\* slot of the same pool before its target, and releases it afterwards.
Help(h) ==
    /\ h \notin helping /\ slots["general"] > 0
    /\ helping' = helping \cup {h}
    /\ slots' = [slots EXCEPT !["general"] = @ - 1]
    /\ UNCHANGED <<registry, job, heap, deferred, permits, exclusiveActive, exec, scheduler, lease, environment>>

HelpEnds(h) ==
    /\ h \in helping
    /\ helping' = helping \ {h}
    /\ slots' = [slots EXCEPT !["general"] = @ + 1]
    /\ UNCHANGED <<registry, job, heap, deferred, permits, exclusiveActive, exec, scheduler, lease, environment>>

TimePasses(o) ==
    /\ LockFree
    /\ heap[o] > 0 /\ ~job[o].due
    /\ job' = [job EXCEPT ![o].due = TRUE]
    /\ UNCHANGED <<registry, heap, deferred, resources, exec, scheduler, lease, environment>>

RequestRestart ==
    /\ ~restart
    /\ restart' = TRUE
    /\ UNCHANGED <<registry, job, heap, deferred, resources, exec, scheduler, lease, accepting>>

PluginChanges(p) ==
    /\ accepting' = IF p \in accepting THEN accepting \ {p} ELSE accepting \cup {p}
    /\ UNCHANGED <<registry, job, heap, deferred, resources, exec, scheduler, lease, restart>>

-----------------------------------------------------------------------------
Submitting == \E n \in Names : \/ n \notin LeaseNames /\ Register(n)
                               \/ \E p \in WithParams : Trigger(n, p)
Cancelling == \/ \E n \in Names : Cancel(n) \/ Unregister(n)
              \/ \E p \in Plugins : KillByPlugin(p)
Pausing == \E n \in Pausable : Pause(n) \/ Resume(n)
Leasing == \E k \in Leasers : (\E o \in Objs : LeaseEnter(k, o)) \/ LeaseExit(k) \/ LeaseDrop(k)
StartStop == Stop \/ \E l \in Loops : Start(l)
Pass(l) == \/ BeginPass(l) \/ EndPass(l) \/ Repeat(l)
           \/ \E o \in Objs : Discard(l, o) \/ Refuse(l, o) \/ Postpone(l, o)
           \/ \E o \in Objs, t \in Threads : Dispatch(l, o, t)
           \/ \E t \in Threads : Launch(l, t)
Work(t) == (\E outcome \in Outcomes : Return(t, outcome)) \/ Finalize(t)
Around == \/ \E o \in Objs : TimePasses(o)
          \/ \E h \in Helpers : Help(h) \/ HelpEnds(h)
          \/ RequestRestart
          \/ \E p \in Plugins : PluginChanges(p)

\* Everything but cancellation and removal ...
Undisturbed == \/ Submitting \/ Pausing \/ Leasing \/ StartStop \/ Around
               \/ \E l \in Loops : Pass(l)
               \/ \E t \in Threads : Work(t)
\* ... and everything.
Next == Undisturbed \/ Cancelling

Spec == Init /\ [][Next]_vars
UndisturbedSpec == Init /\ [][Undisturbed]_vars

-----------------------------------------------------------------------------
(* Properties *)

TypeOK ==
    /\ jobs \in [Names -> Objs \cup {NoJob}]
    /\ job \in [Objs -> Jobs]
    /\ heap \in [Objs -> Nat] /\ deferred \in [Objs -> Nat]
    /\ isRunning \in [Names -> BOOLEAN] /\ paused \subseteq Names
    /\ slots \in [Pools -> Nat] /\ permits \in Nat /\ exclusiveActive \in BOOLEAN
    /\ helping \subseteq Helpers
    /\ exec \in [Threads -> [pc : {"idle", "selected", "running", "finished"},
                             obj : Objs \cup {NoJob}, leased : BOOLEAN]]
    /\ \A t \in Threads : Executing(t) <=> exec[t].obj # NoJob
    /\ loop \in [Loops -> {"off", "sleep", "scan", "launch"}]
    /\ toRun \in [Loops -> SUBSET Threads] /\ started \in BOOLEAN
    /\ lease \in [Leasers -> {"none", "working", "ending"}]
    /\ restart \in BOOLEAN /\ accepting \subseteq Plugins

\* However jobs are cancelled, removed, restarted or re-registered while they
\* run, a worker slot is held by exactly the executions and the supervised
\* threads that took it: none is lost and none is given back twice
\* (_acquire_worker_slot, _release_worker_slot, and every path between them).
Occupants(p) == {t \in Threads : Executing(t) /\ Pool(exec[t].obj) = p}
Guests(p) == IF p = "general" THEN helping ELSE {}
SlotAccounting ==
    \A p \in Pools : slots[p] + Cardinality(Occupants(p)) + Cardinality(Guests(p)) = Capacity(p)

\* A name is executed by one thread at a time: register_job's deduplication,
\* execute_job_now's check and the loop's check together.
SingleExecution ==
    \A t, u \in Threads : (Executing(t) /\ Executing(u) /\ t # u)
        => job[exec[t].obj].name # job[exec[u].obj].name

\* At most one job of a write category is between its dispatch and its
\* finalisation (can_execute, is_db_write_heavy_running).
WriteExclusion ==
    \A t, u \in Threads : (Executing(t) /\ Executing(u) /\ t # u)
        => ~(/\ job[exec[t].obj].set.category \in WriteCategories
             /\ job[exec[u].obj].set.category \in WriteCategories)

\* library_sync/database_update and auto_import never overlap.
SyncImportExclusion ==
    \A t, u \in Threads : (Executing(t) /\ Executing(u))
        => ~(/\ job[exec[t].obj].name \in SyncNames
             /\ job[exec[u].obj].name \in ImportNames \ SyncNames)

\* Every object waiting in the heap is the one registered under its name, so
\* that looking the name up reaches the job that will run (_heap, _jobs, and
\* the removals of unregister_job: "completely remove a job from the queue").
QueuedIsRegistered == \A o \in Objs : heap[o] > 0 => jobs[job[o].name] = o

\* No registered, enabled job is ever stranded outside the heap, where no pass
\* would find it again, unless it was cancelled or is executing or leased.
NotStranded ==
    \A n \in Registered : LET o == jobs[n] IN
        (job[o].set.enabled /\ job[o].state # "CANCELLED" /\ n \notin LeaseNames)
        => heap[o] + deferred[o] > 0 \/ \E t \in Threads : exec[t].obj = o

\* The exclusive leases held by executions account for every missing permit of
\* the write lease, and the flag that blocks other writers is up exactly while
\* one is held.
LeaseAccounting ==
    LET held == {t \in Threads : exec[t].leased} IN
    /\ permits + Cardinality(held) = MaxWriters
    /\ exclusiveActive <=> held # {}

\* The parameters of an accepted manual trigger stay with the job, in the heap,
\* put aside by a pass or in neither, until an execution has it: no second
\* trigger, refused gate, pause or lease drops them (execute_job_now merges them).
\* From its dispatch on they may go: a registration of the running name replaces
\* them, before the thread has read them too, and every finalisation clears them,
\* the one before a retry included.
ParamsKept ==
    [][\A o \in Objs \ Unused :
          job[o].params => job'[o].params \/ \E t \in Threads : exec[t].obj = o]_vars

\* While a workflow works under a lease, whose category is a write category, no
\* write job is dispatched (lease_task marks the name running; can_execute).
LeaseGatesWriters ==
    [][\A t \in Threads : (~Executing(t) /\ Executing(t)' /\ IsWrite(exec'[t].obj))
          => \A k \in Leasers : lease[k] # "working"]_vars

-----------------------------------------------------------------------------
(* Fairness: the scheduler's thread runs, jobs and workflows return, a thread that  *)
(* waits for the lock gets it (the scheduler sleeps without it between two     *)
(* passes), and time passes for every job in the heap.                         *)
Fairness ==
    /\ \A l \in Loops : WF_vars(Pass(l))
    /\ \A t \in Threads : SF_vars(Work(t))
    /\ \A k \in Leasers : SF_vars(LeaseExit(k) \/ LeaseDrop(k))
    /\ \A o \in Objs : SF_vars(TimePasses(o))
=============================================================================
