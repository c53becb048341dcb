--------------------------- MODULE JobQueue_proofs ---------------------------
(***************************************************************************)
(* For every set of jobs, threads and schedulers: the state of the job     *)
(* queue keeps its type, and no worker slot is lost or given back twice,   *)
(* whatever is cancelled, removed, evicted, paused or leased meanwhile.    *)
(***************************************************************************)
EXTENDS JobQueue, FiniteSetTheorems, TLAPS

-----------------------------------------------------------------------------
(* Types, one part of the state at a time. *)

JobsOK == job \in [Objs -> Jobs]

QueueOK == /\ jobs \in [Names -> Objs \cup {NoJob}]
           /\ heap \in [Objs -> Nat] /\ deferred \in [Objs -> Nat]
           /\ isRunning \in [Names -> BOOLEAN] /\ paused \subseteq Names

PoolsOK == /\ slots \in [Pools -> Nat] /\ permits \in Nat /\ exclusiveActive \in BOOLEAN
           /\ helping \subseteq Helpers

Execs == [pc : {"idle", "selected", "running", "finished"},
          obj : Objs \cup {NoJob}, leased : BOOLEAN]

ExecOK == /\ exec \in [Threads -> Execs]
          /\ \A t \in Threads : Executing(t) <=> exec[t].obj # NoJob

LoopsOK == /\ loop \in [Loops -> {"off", "sleep", "scan", "launch"}]
           /\ toRun \in [Loops -> SUBSET Threads] /\ started \in BOOLEAN

AroundOK == /\ lease \in [Leasers -> {"none", "working", "ending"}]
            /\ restart \in BOOLEAN /\ accepting \subseteq Plugins

\* Type correctness is not inductive: a scheduler that launched a thread nobody
\* selected would leave it running no object.  The threads a scheduler is about
\* to launch are selected, and no other scheduler is about to launch them.
Selected == /\ \A l \in Loops : \A t \in toRun[l] : exec[t].pc = "selected"
            /\ \A l, m \in Loops : toRun[l] \cap toRun[m] # {} => l = m

IInv == TypeOK /\ Selected

LEMMA TypeParts ==
    /\ TypeOK <=> JobsOK /\ QueueOK /\ PoolsOK /\ ExecOK /\ LoopsOK /\ AroundOK
    /\ TypeOK' <=> JobsOK' /\ QueueOK' /\ PoolsOK' /\ ExecOK' /\ LoopsOK' /\ AroundOK'
BY DEF TypeOK, JobsOK, QueueOK, PoolsOK, ExecOK, Execs, LoopsOK, AroundOK

LEMMA Unchanged ==
    /\ JobsOK /\ UNCHANGED job => JobsOK'
    /\ QueueOK /\ UNCHANGED <<jobs, heap, deferred, isRunning, paused>> => QueueOK'
    /\ PoolsOK /\ UNCHANGED <<slots, permits, exclusiveActive, helping>> => PoolsOK'
    /\ ExecOK /\ UNCHANGED exec => ExecOK'
    /\ LoopsOK /\ UNCHANGED <<loop, toRun, started>> => LoopsOK'
    /\ AroundOK /\ UNCHANGED <<lease, restart, accepting>> => AroundOK'
<1>1. JobsOK /\ UNCHANGED job => JobsOK'  BY DEF JobsOK
<1>2. QueueOK /\ UNCHANGED <<jobs, heap, deferred, isRunning, paused>> => QueueOK'
  BY DEF QueueOK
<1>3. PoolsOK /\ UNCHANGED <<slots, permits, exclusiveActive, helping>> => PoolsOK'
  BY DEF PoolsOK
<1>4. ExecOK /\ UNCHANGED exec => ExecOK'  BY DEF ExecOK, Executing
<1>5. LoopsOK /\ UNCHANGED <<loop, toRun, started>> => LoopsOK'  BY DEF LoopsOK
<1>6. AroundOK /\ UNCHANGED <<lease, restart, accepting>> => AroundOK'  BY DEF AroundOK
<1> QED  BY <1>1, <1>2, <1>3, <1>4, <1>5, <1>6

\* The table of objects, updated one object or one field at a time.
LEMMA StateTyped ==
    ASSUME NEW f \in [Objs -> Jobs], NEW o \in Objs, NEW s \in Statuses
    PROVE  [f EXCEPT ![o].state = s] \in [Objs -> Jobs]
BY DEF Jobs

LEMMA RunningTyped ==
    ASSUME NEW f \in [Objs -> Jobs], NEW o \in Objs, NEW s \in Statuses, NEW b \in BOOLEAN
    PROVE  /\ [f EXCEPT ![o].state = s, ![o].running = b] \in [Objs -> Jobs]
           /\ [f EXCEPT ![o].running = b, ![o].state = s] \in [Objs -> Jobs]
<1>1. [f EXCEPT ![o].state = s, ![o].running = b] \in [Objs -> Jobs]  BY DEF Jobs
<1>2. [f EXCEPT ![o].running = b, ![o].state = s] \in [Objs -> Jobs]  BY DEF Jobs
<1> QED  BY <1>1, <1>2

LEMMA DueTyped ==
    ASSUME NEW f \in [Objs -> Jobs], NEW o \in Objs, NEW b \in BOOLEAN
    PROVE  /\ [f EXCEPT ![o].due = b] \in [Objs -> Jobs]
           /\ \A s \in Statuses : [f EXCEPT ![o].state = s, ![o].due = b] \in [Objs -> Jobs]
           /\ \A p \in BOOLEAN : [f EXCEPT ![o].params = p, ![o].due = b] \in [Objs -> Jobs]
<1>1. [f EXCEPT ![o].due = b] \in [Objs -> Jobs]  BY DEF Jobs
<1>2. ASSUME NEW s \in Statuses PROVE [f EXCEPT ![o].state = s, ![o].due = b] \in [Objs -> Jobs]
  BY DEF Jobs
<1>3. ASSUME NEW p \in BOOLEAN PROVE [f EXCEPT ![o].params = p, ![o].due = b] \in [Objs -> Jobs]
  BY DEF Jobs
<1> QED  BY <1>1, <1>2, <1>3

LEMMA RetryTyped ==
    ASSUME NEW f \in [Objs -> Jobs], NEW o \in Objs, NEW s \in Statuses
    PROVE  [f EXCEPT ![o].retries = @ + 1, ![o].due = FALSE, ![o].state = s] \in [Objs -> Jobs]
<1> DEFINE g == [f EXCEPT ![o].retries = @ + 1]
<1>1. g \in [Objs -> Jobs]  BY DEF Jobs
<1>2. [g EXCEPT ![o].due = FALSE, ![o].state = s] \in [Objs -> Jobs]
  <2> HIDE DEF g
  <2> QED  BY <1>1 DEF Jobs
<1> QED  BY <1>2

LEMMA SettingsTyped ==
    ASSUME NEW f \in [Objs -> Jobs], NEW o \in Objs, NEW s \in Settings, NEW p \in BOOLEAN
    PROVE  [f EXCEPT ![o].params = p, ![o].set = Updated(@, s)] \in [Objs -> Jobs]
<1>1. f[o] \in Jobs /\ f[o].set \in Settings  BY DEF Jobs
<1>2. Updated(f[o].set, s) \in Settings  BY <1>1 DEF Updated, Settings
<1> QED  BY <1>1, <1>2 DEF Jobs

LEMMA NewTyped ==
    ASSUME NEW n \in Names, NEW s \in Settings, NEW p \in BOOLEAN
    PROVE  NewJob(n, s, p) \in Jobs
BY DEF NewJob, Jobs, Statuses

LEMMA LeasedTyped == LeasedSettings \in Settings
BY DEF LeasedSettings, Settings, Categories, Priorities

LEMMA RegistrationTyped ==
    ASSUME NEW n \in Names \ LeaseNames, NEW s \in Registrations[n]
    PROVE  s \in Settings
BY QueueAssumption DEF QueueAssumption

LEMMA PushTyped ==
    ASSUME NEW h \in [Objs -> Nat], NEW o \in Objs
    PROVE  Push(h, o) \in [Objs -> Nat]
BY DEF Push

LEMMA HeapTyped ==
    ASSUME QueueOK, NEW n
    PROVE  RemoveFromHeap(n) \in [Objs -> Nat]
BY DEF QueueOK, RemoveFromHeap

LEMMA RegisteredTyped ==
    ASSUME QueueOK, NEW n \in Registered
    PROVE  n \in Names /\ jobs[n] \in Objs
BY DEF QueueOK, Registered

LEMMA RefusedTyped ==
    ASSUME JobsOK, NEW o \in Objs
    PROVE  Refused(o) \in [Objs -> Jobs]
<1>1. "PAUSED" \in Statuses /\ "BLOCKED_WAITING_LEASE" \in Statuses  BY DEF Statuses
<1> QED  BY <1>1, StateTyped, DueTyped DEF Refused, JobsOK

LEMMA InitTypeOK == Init => TypeOK
<1> SUFFICES ASSUME Init PROVE TypeOK  OBVIOUS
<1>1. job \in [Objs -> Jobs]
  <2>1. SomeName \in Names  BY QueueAssumption DEF SomeName, QueueAssumption
  <2> QED  BY <2>1, LeasedTyped, NewTyped DEF Init
<1>2. slots \in [Pools -> Nat] /\ permits \in Nat
  BY QueueAssumption DEF Init, Pools, Capacity, QueueAssumption
<1> QED  BY <1>1, <1>2 DEF Init, TypeOK, Idle, Executing

-----------------------------------------------------------------------------
(* register_job and execute_job_now *)

LEMMA RegisterTyped ==
    ASSUME TypeOK, NEW n \in Names \ LeaseNames, Register(n)
    PROVE  TypeOK'
<1> USE TypeParts DEF registry, resources, scheduler, environment
<1>0. PICK s \in Registrations[n], p \in WithParams :
          \/ RegisterRunning(n, s, p)
          \/ \E o \in Objs : RegisterNew(n, s, p, o)
          \/ \E o \in Objs, victim \in Names : RegisterEvicting(n, s, p, o, victim)
  BY DEF Register
<1>1. s \in Settings /\ p \in BOOLEAN
  BY RegistrationTyped, QueueAssumption DEF QueueAssumption
<1>2. NewJob(n, s, p) \in Jobs  BY <1>1, NewTyped
<1>3. CASE RegisterRunning(n, s, p)
  <2>1. JobsOK'  BY <1>1, <1>3, RegisteredTyped, SettingsTyped DEF RegisterRunning, JobsOK
  <2> QED  BY <1>3, <2>1, Unchanged DEF RegisterRunning
<1>4. ASSUME NEW o \in Objs, RegisterNew(n, s, p, o) PROVE TypeOK'
  <2>1. JobsOK'  BY <1>2, <1>4 DEF RegisterNew, JobsOK
  <2>2. heap' \in [Objs -> Nat]  BY <1>4, HeapTyped, PushTyped DEF RegisterNew, QueueOK
  <2>3. QueueOK'  BY <1>4, <2>2 DEF RegisterNew, QueueOK
  <2> QED  BY <1>4, <2>1, <2>3, Unchanged DEF RegisterNew
<1>5. ASSUME NEW o \in Objs, NEW victim \in Names, RegisterEvicting(n, s, p, o, victim) PROVE TypeOK'
  <2>1. jobs[victim] \in Objs  BY <1>5, RegisteredTyped DEF RegisterEvicting, Evictable
  <2>2. JobsOK'
    <3>1. [job EXCEPT ![o] = NewJob(n, s, p)] \in [Objs -> Jobs]  BY <1>2 DEF JobsOK
    <3>2. "CANCELLED" \in Statuses  BY DEF Statuses
    <3> QED  BY <1>5, <2>1, <3>1, <3>2, StateTyped DEF RegisterEvicting, JobsOK
  <2>3. heap' \in [Objs -> Nat]  BY <1>5, HeapTyped, PushTyped DEF RegisterEvicting
  <2>4. QueueOK'  BY <1>5, <2>3 DEF RegisterEvicting, QueueOK
  <2> QED  BY <1>5, <2>2, <2>4, Unchanged DEF RegisterEvicting
<1> QED  BY <1>0, <1>3, <1>4, <1>5

LEMMA TriggerTyped ==
    ASSUME TypeOK, NEW n \in Names, NEW p \in BOOLEAN, Trigger(n, p)
    PROVE  TypeOK'
<1> USE TypeParts DEF registry, resources, scheduler, environment
<1>1. jobs[n] \in Objs  BY RegisteredTyped DEF Trigger
<1>2. JobsOK'
  <2>1. CASE CanExecute(jobs[n])
    <3>1. MergedParams(jobs[n], p) \in BOOLEAN  BY <1>1 DEF MergedParams, JobsOK, Jobs
    <3>2. PICK due \in BOOLEAN :
              job' = [job EXCEPT ![jobs[n]].params = MergedParams(jobs[n], p), ![jobs[n]].due = due]
      BY <2>1 DEF Trigger
    <3>3. "QUEUED" \in Statuses  BY DEF Statuses
    <3> QED  BY <1>1, <3>1, <3>2, <3>3, DueTyped DEF JobsOK
  <2>2. CASE ~CanExecute(jobs[n])
    <3>1. job' = Refused(jobs[n])  BY <2>2 DEF Trigger
    <3> QED  BY <1>1, <3>1, RefusedTyped DEF JobsOK
  <2> QED  BY <2>1, <2>2
<1>3. QueueOK'
  <2>1. heap' \in [Objs -> Nat]  BY <1>1, HeapTyped, PushTyped DEF Trigger, QueueOK
  <2> QED  BY <2>1 DEF Trigger, QueueOK, registry
<1> QED  BY <1>2, <1>3, Unchanged DEF Trigger

-----------------------------------------------------------------------------
(* cancel_job, kill_jobs_by_plugin, unregister_job *)

LEMMA CancelledTyped ==
    ASSUME TypeOK, NEW S \in SUBSET Names, CancelAll(S)
    PROVE  JobsOK' /\ isRunning' \in [Names -> BOOLEAN]
<1>1. "CANCELLED" \in Statuses  BY DEF Statuses
<1>2. ASSUME NEW j \in Jobs PROVE [j EXCEPT !.running = FALSE, !.state = "CANCELLED"] \in Jobs
  BY <1>1 DEF Jobs
<1>3. JobsOK'  BY <1>2, TypeParts DEF CancelAll, CancelledJobs, JobsOK
<1> QED  BY <1>3 DEF CancelAll

LEMMA CancellingTyped ==
    ASSUME TypeOK, Cancelling
    PROVE  TypeOK'
<1> USE TypeParts DEF registry, resources, scheduler, environment
<1>1. ASSUME NEW n \in Names, Cancel(n) PROVE TypeOK'
  <2>1. JobsOK' /\ isRunning' \in [Names -> BOOLEAN]  BY <1>1, CancelledTyped DEF Cancel
  <2>2. QueueOK'  BY <1>1, <2>1 DEF Cancel, QueueOK
  <2> QED  BY <1>1, <2>1, <2>2, Unchanged DEF Cancel
<1>2. ASSUME NEW p \in Plugins, KillByPlugin(p) PROVE TypeOK'
  <2>1. {n \in Registered : job[jobs[n]].set.plugin = p} \in SUBSET Names  BY DEF Registered
  <2>2. JobsOK' /\ isRunning' \in [Names -> BOOLEAN]  BY <1>2, <2>1, CancelledTyped DEF KillByPlugin
  <2>3. QueueOK'  BY <1>2, <2>2 DEF KillByPlugin, QueueOK
  <2> QED  BY <1>2, <2>2, <2>3, Unchanged DEF KillByPlugin
<1>3. ASSUME NEW n \in Names, Unregister(n) PROVE TypeOK'
  <2>1. JobsOK' /\ isRunning' \in [Names -> BOOLEAN]  BY <1>3, CancelledTyped DEF Unregister
  <2>2. QueueOK'  BY <1>3, <2>1, HeapTyped DEF Unregister, QueueOK
  <2> QED  BY <1>3, <2>1, <2>2, Unchanged DEF Unregister
<1> QED  BY <1>1, <1>2, <1>3 DEF Cancelling

-----------------------------------------------------------------------------
(* The scheduler loop *)

LEMMA StartStopTyped ==
    ASSUME TypeOK, StartStop
    PROVE  TypeOK'
<1> USE TypeParts DEF registry, resources, scheduler, environment
<1>1. LoopsOK'  BY DEF StartStop, Start, Stop, LoopsOK
<1>2. UNCHANGED <<jobs, job, heap, deferred, isRunning, paused, slots, permits, exclusiveActive,
                  helping, exec, lease, restart, accepting>>
  BY DEF StartStop, Start, Stop
<1> QED  BY <1>1, <1>2, Unchanged

LEMMA HandledTyped ==
    ASSUME TypeOK, NEW l \in Loops, NEW o \in Objs, Discard(l, o) \/ Refuse(l, o) \/ Postpone(l, o)
    PROVE  TypeOK'
<1> USE TypeParts DEF registry, resources, scheduler, environment
<1>1. heap' \in [Objs -> Nat]
  <2>1. heap' = Pop(o) /\ heap[o] > 0  BY DEF Discard, Refuse, Postpone, Popped
  <2> QED  BY <2>1 DEF Pop, QueueOK
<1>2. deferred' \in [Objs -> Nat]  BY PushTyped DEF Discard, Refuse, Postpone, QueueOK
<1>3. QueueOK'  BY <1>1, <1>2 DEF Discard, Refuse, Postpone, QueueOK
<1>4. JobsOK'
  <2>1. CASE Discard(l, o)  BY <2>1 DEF Discard, JobsOK
  <2>2. CASE Refuse(l, o)  BY <2>2, RefusedTyped DEF Refuse, JobsOK
  <2>3. CASE Postpone(l, o)  BY <2>3, DueTyped DEF Postpone, JobsOK, Statuses
  <2> QED  BY <2>1, <2>2, <2>3
<1>5. UNCHANGED <<slots, permits, exclusiveActive, helping, exec, loop, toRun, started, lease,
                  restart, accepting>>
  BY DEF Discard, Refuse, Postpone
<1> QED  BY <1>3, <1>4, <1>5, Unchanged

LEMMA DispatchTyped ==
    ASSUME TypeOK, NEW l \in Loops, NEW o \in Objs, NEW t \in Threads, Dispatch(l, o, t)
    PROVE  TypeOK'
<1> USE TypeParts DEF registry, resources, scheduler, environment
<1>1. JobsOK'  BY RunningTyped DEF Dispatch, JobsOK, Statuses
<1>2. heap' \in [Objs -> Nat]  BY DEF Dispatch, Popped, Pop, QueueOK
<1>3. QueueOK'  BY <1>2 DEF Dispatch, QueueOK
<1>4. job[o].set.exclusive \in BOOLEAN  BY DEF JobsOK, Jobs, Settings
<1>5. slots' \in [Pools -> Nat]
  <2>1. Pool(o) \in Pools /\ slots[Pool(o)] \in Nat \ {0}  BY DEF Dispatch, SlotFree, Pool, Pools, PoolsOK
  <2> QED  BY <2>1 DEF Dispatch, PoolsOK
<1>6. permits' \in Nat
  <2>1. CASE job[o].set.exclusive  BY <2>1 DEF Dispatch, LeaseFree, PoolsOK
  <2>2. CASE ~job[o].set.exclusive  BY <2>2 DEF Dispatch, PoolsOK
  <2> QED  BY <2>1, <2>2
<1>7. exclusiveActive' \in BOOLEAN  BY DEF Dispatch
<1>8. PoolsOK'  BY <1>5, <1>6, <1>7 DEF Dispatch, PoolsOK
<1>9. ExecOK'
  <2>1. o # NoJob  BY QueueAssumption DEF QueueAssumption
  <2>2. [pc |-> "selected", obj |-> o, leased |-> job[o].set.exclusive] \in Execs  BY <1>4 DEF Execs
  <2>3. exec' \in [Threads -> Execs]  BY <2>2 DEF Dispatch, ExecOK
  <2> QED  BY <2>1, <2>3 DEF Dispatch, ExecOK, Executing
<1>10. LoopsOK'  BY DEF Dispatch, LoopsOK
<1> QED  BY <1>1, <1>3, <1>8, <1>9, <1>10, Unchanged DEF Dispatch

LEMMA PassTyped ==
    ASSUME TypeOK, NEW l \in Loops, BeginPass(l) \/ EndPass(l) \/ Repeat(l)
    PROVE  TypeOK'
<1> USE TypeParts DEF registry, resources, scheduler, environment
<1>1. LoopsOK'  BY DEF BeginPass, EndPass, Repeat, LoopsOK
<1>2. QueueOK'  BY DEF BeginPass, EndPass, Repeat, QueueOK
<1>3. UNCHANGED <<job, slots, permits, exclusiveActive, helping, exec, lease, restart, accepting>>
  BY DEF BeginPass, EndPass, Repeat
<1> QED  BY <1>1, <1>2, <1>3, Unchanged

LEMMA LaunchTyped ==
    ASSUME TypeOK, Selected, NEW l \in Loops, NEW t \in Threads, Launch(l, t)
    PROVE  TypeOK'
<1> USE TypeParts DEF registry, resources, scheduler, environment
<1>1. LoopsOK'  BY DEF Launch, LoopsOK
<1>2. exec[t].pc = "selected"  BY DEF Launch, Selected
<1>3. exec' \in [Threads -> Execs]
  <2>1. [exec[t] EXCEPT !.pc = "running"] \in Execs  BY DEF ExecOK, Execs
  <2> QED  BY <2>1 DEF Launch, ExecOK
<1>4. ExecOK'  BY <1>2, <1>3 DEF Launch, ExecOK, Executing, Execs
<1> QED  BY <1>1, <1>4, Unchanged DEF Launch

-----------------------------------------------------------------------------
(* The worker threads *)

LEMMA ReturnTyped ==
    ASSUME TypeOK, NEW t \in Threads, NEW outcome \in Outcomes, Return(t, outcome)
    PROVE  TypeOK'
<1> USE TypeParts DEF registry, resources, scheduler, environment
<1> DEFINE o == exec[t].obj
<1>1. o \in Objs  BY DEF Return, Executing, ExecOK, Execs
<1>2. JobsOK'
  <2>1. {"RETRY_BACKOFF", "COMPLETED", "FAILED_TERMINAL"} \subseteq Statuses  BY DEF Statuses
  <2>2. \/ job' = [job EXCEPT ![o].retries = @ + 1, ![o].due = FALSE, ![o].state = "RETRY_BACKOFF"]
        \/ job' = [job EXCEPT ![o].state = "COMPLETED"]
        \/ job' = [job EXCEPT ![o].state = "FAILED_TERMINAL"]
    BY DEF Return
  <2>3. [job EXCEPT ![o].retries = @ + 1, ![o].due = FALSE, ![o].state = "RETRY_BACKOFF"] \in [Objs -> Jobs]
    BY <1>1, <2>1, RetryTyped DEF JobsOK
  <2>4. /\ [job EXCEPT ![o].state = "COMPLETED"] \in [Objs -> Jobs]
        /\ [job EXCEPT ![o].state = "FAILED_TERMINAL"] \in [Objs -> Jobs]
    BY <1>1, <2>1, StateTyped DEF JobsOK
  <2> QED  BY <2>2, <2>3, <2>4 DEF JobsOK
<1>3. ExecOK'
  <2>1. [exec[t] EXCEPT !.pc = "finished"] \in Execs  BY DEF ExecOK, Execs
  <2>2. exec' \in [Threads -> Execs]  BY <2>1 DEF Return, ExecOK
  <2> QED  BY <2>2 DEF Return, ExecOK, Executing, Execs
<1> QED  BY <1>2, <1>3, Unchanged DEF Return

LEMMA ReleaseTyped ==
    ASSUME PoolsOK, NEW p \in Pools
    PROVE  ReleaseSlot(p) \in [Pools -> Nat]
BY DEF PoolsOK, ReleaseSlot

LEMMA FinalizeTyped ==
    ASSUME TypeOK, NEW t \in Threads, Finalize(t)
    PROVE  TypeOK'
<1> USE TypeParts DEF registry, resources, scheduler, environment
<1> DEFINE o == exec[t].obj
           n == job[o].name
<1>1. o \in Objs /\ n \in Names  BY DEF Finalize, Executing, ExecOK, Execs, JobsOK, Jobs
<1>2. JobsOK'
  <2>1. PICK s \in Statuses, d \in BOOLEAN :
            job' = [job EXCEPT ![o].running = FALSE, ![o].params = FALSE, ![o].state = s, ![o].due = d]
    BY <1>1 DEF Finalize, JobsOK, Jobs, Statuses
  <2>2. job[o] \in Jobs  BY <1>1 DEF JobsOK
  <2>3. [job[o] EXCEPT !.running = FALSE, !.params = FALSE, !.state = s, !.due = d] \in Jobs
    BY <2>2 DEF Jobs
  <2> QED  BY <1>1, <2>1, <2>3 DEF JobsOK
<1>3. heap' \in [Objs -> Nat]
  <2>1. Push(heap, o) \in [Objs -> Nat] /\ RemoveFromHeap(n) \in [Objs -> Nat]
    BY <1>1, PushTyped, HeapTyped DEF QueueOK
  <2> QED  BY <2>1 DEF Finalize, QueueOK
<1>4. jobs' \in [Names -> Objs \cup {NoJob}] /\ isRunning' \in [Names -> BOOLEAN]
  BY <1>1 DEF Finalize, QueueOK
<1>5. QueueOK'  BY <1>3, <1>4 DEF Finalize, QueueOK
<1>6. slots' \in [Pools -> Nat]
  <2>1. Pool(o) \in Pools  BY DEF Pool, Pools
  <2> QED  BY <2>1, ReleaseTyped DEF Finalize
<1>7. PoolsOK'  BY <1>6 DEF Finalize, PoolsOK
<1>8. ExecOK'
  <2>1. Idle \in Execs  BY DEF Idle, Execs
  <2>2. exec' \in [Threads -> Execs]  BY <2>1 DEF Finalize, ExecOK
  <2> QED  BY <2>2 DEF Finalize, ExecOK, Executing, Idle
<1> QED  BY <1>2, <1>5, <1>7, <1>8, Unchanged DEF Finalize

-----------------------------------------------------------------------------
(* pause_job, resume_job, lease_task and the surroundings *)

LEMMA PausingTyped ==
    ASSUME TypeOK, NEW n \in Names, Pause(n) \/ Resume(n)
    PROVE  TypeOK'
<1> USE TypeParts DEF registry, resources, scheduler, environment
<1>1. JobsOK'
  <2>1. n \in Registered => jobs[n] \in Objs  BY RegisteredTyped
  <2>2. {"PAUSED", "RUNNING", "QUEUED"} \subseteq Statuses  BY DEF Statuses
  <2>3. CASE n \notin Registered  BY <2>3 DEF Pause, Resume, JobsOK
  <2>4. CASE n \in Registered
    <3>1. \/ job' = job
          \/ job' = [job EXCEPT ![jobs[n]].state = "PAUSED"]
          \/ job' = [job EXCEPT ![jobs[n]].state = "RUNNING"]
          \/ job' = [job EXCEPT ![jobs[n]].state = "QUEUED"]
      BY <2>4 DEF Pause, Resume
    <3> QED  BY <2>1, <2>2, <2>4, <3>1, StateTyped DEF JobsOK
  <2> QED  BY <2>3, <2>4
<1>2. QueueOK'  BY DEF Pause, Resume, QueueOK
<1>3. UNCHANGED <<slots, permits, exclusiveActive, helping, exec, loop, toRun, started, lease,
                  restart, accepting>>
  BY DEF Pause, Resume
<1> QED  BY <1>1, <1>2, <1>3, Unchanged

LEMMA LeaseNameTyped == \A k \in Leasers : LeaseName[k] \in Names
BY QueueAssumption DEF QueueAssumption

LEMMA LeasingTyped ==
    ASSUME TypeOK, Leasing
    PROVE  TypeOK'
<1> USE TypeParts DEF registry, resources, scheduler, environment
<1>1. ASSUME NEW k \in Leasers, NEW o \in Objs, LeaseEnter(k, o) PROVE TypeOK'
  <2>1. LeaseName[k] \in Names  BY LeaseNameTyped
  <2>2. [NewJob(LeaseName[k], LeasedSettings, FALSE) EXCEPT !.state = "RUNNING", !.running = TRUE] \in Jobs
    <3>1. NewJob(LeaseName[k], LeasedSettings, FALSE) \in Jobs  BY <2>1, NewTyped, LeasedTyped
    <3>2. "RUNNING" \in Statuses  BY DEF Statuses
    <3> QED  BY <3>1, <3>2 DEF Jobs
  <2>3. JobsOK'  BY <1>1, <2>2 DEF LeaseEnter, JobsOK
  <2>4. QueueOK'  BY <1>1, <2>1 DEF LeaseEnter, QueueOK
  <2>5. AroundOK'  BY <1>1 DEF LeaseEnter, AroundOK
  <2> QED  BY <1>1, <2>3, <2>4, <2>5, Unchanged DEF LeaseEnter
<1>2. ASSUME NEW k \in Leasers, LeaseExit(k) PROVE TypeOK'
  <2>1. JobsOK'
    <3>1. PICK ending \in {"COMPLETED", "FAILED_TERMINAL"} :
              job' = IF LeaseName[k] \in Registered
                     THEN [job EXCEPT ![jobs[LeaseName[k]]].state = ending, ![jobs[LeaseName[k]]].running = FALSE]
                     ELSE job
      BY <1>2 DEF LeaseExit
    <3>2. {"COMPLETED", "FAILED_TERMINAL"} \subseteq Statuses  BY DEF Statuses
    <3> QED  BY <3>1, <3>2, RegisteredTyped, RunningTyped DEF JobsOK
  <2>2. AroundOK'  BY <1>2 DEF LeaseExit, AroundOK
  <2> QED  BY <1>2, <2>1, <2>2, Unchanged DEF LeaseExit
<1>3. ASSUME NEW k \in Leasers, LeaseDrop(k) PROVE TypeOK'
  <2>1. QueueOK'  BY <1>3, LeaseNameTyped DEF LeaseDrop, QueueOK
  <2>2. AroundOK'  BY <1>3 DEF LeaseDrop, AroundOK
  <2> QED  BY <1>3, <2>1, <2>2, Unchanged DEF LeaseDrop
<1> QED  BY <1>1, <1>2, <1>3 DEF Leasing

LEMMA AroundTyped ==
    ASSUME TypeOK, Around
    PROVE  TypeOK'
<1> USE TypeParts DEF registry, resources, scheduler, environment
<1>1. ASSUME NEW o \in Objs, TimePasses(o) PROVE TypeOK'
  <2>1. JobsOK'
    <3>1. [job EXCEPT ![o].due = TRUE] \in [Objs -> Jobs]
      BY DueTyped DEF JobsOK
    <3> QED  BY <1>1, <3>1 DEF TimePasses, JobsOK
  <2> QED  BY <1>1, <2>1, Unchanged DEF TimePasses
<1>2. ASSUME NEW h \in Helpers, Help(h) \/ HelpEnds(h) PROVE TypeOK'
  <2>1. PoolsOK'  BY <1>2 DEF Help, HelpEnds, PoolsOK, Pools
  <2>2. UNCHANGED <<jobs, job, heap, deferred, isRunning, paused, exec, loop, toRun, started, lease,
                    restart, accepting>>
    BY <1>2 DEF Help, HelpEnds
  <2> QED  BY <2>1, <2>2, Unchanged
<1>3. ASSUME RequestRestart \/ \E p \in Plugins : PluginChanges(p) PROVE TypeOK'
  <2>1. AroundOK'  BY <1>3 DEF RequestRestart, PluginChanges, AroundOK
  <2>2. UNCHANGED <<jobs, job, heap, deferred, isRunning, paused, slots, permits, exclusiveActive,
                    helping, exec, loop, toRun, started>>
    BY <1>3 DEF RequestRestart, PluginChanges
  <2> QED  BY <2>1, <2>2, Unchanged
<1> QED  BY <1>1, <1>2, <1>3 DEF Around

-----------------------------------------------------------------------------
LEMMA StepTypeOK == IInv /\ [Next]_vars => TypeOK'
<1> SUFFICES ASSUME TypeOK, Selected, [Next]_vars PROVE TypeOK'  BY DEF IInv
<1>1. CASE Submitting
  <2>1. ASSUME NEW n \in Names, NEW p \in WithParams, Trigger(n, p) PROVE TypeOK'
    <3>1. p \in BOOLEAN  BY QueueAssumption DEF QueueAssumption
    <3> QED  BY <2>1, <3>1, TriggerTyped
  <2> QED  BY <1>1, <2>1, RegisterTyped DEF Submitting
<1>2. CASE Pausing
  <2>1. Pausable \subseteq Names  BY QueueAssumption DEF QueueAssumption
  <2> QED  BY <1>2, <2>1, PausingTyped DEF Pausing
<1>3. CASE Leasing \/ Around \/ StartStop \/ Cancelling
  BY <1>3, LeasingTyped, AroundTyped, StartStopTyped, CancellingTyped
<1>4. ASSUME NEW l \in Loops, Pass(l) PROVE TypeOK'
  BY <1>4, HandledTyped, DispatchTyped, PassTyped, LaunchTyped DEF Pass
<1>5. ASSUME NEW t \in Threads, Work(t) PROVE TypeOK'
  BY <1>5, ReturnTyped, FinalizeTyped DEF Work
<1>6. CASE UNCHANGED vars
  BY <1>6, TypeParts, Unchanged DEF vars
<1> QED  BY <1>1, <1>2, <1>3, <1>4, <1>5, <1>6 DEF Next, Undisturbed

LEMMA StepSelected == IInv /\ [Next]_vars => Selected'
<1> SUFFICES ASSUME TypeOK, Selected, [Next]_vars PROVE Selected'  BY DEF IInv
<1> USE DEF Selected
<1>1. CASE UNCHANGED <<exec, toRun>>  BY <1>1
<1>2. ASSUME NEW l \in Loops, NEW o \in Objs, NEW t \in Threads, Dispatch(l, o, t) PROVE Selected'
  <2>1. \A m \in Loops : t \notin toRun[m]  BY <1>2 DEF Dispatch, Executing
  <2>2. exec'[t].pc = "selected" /\ \A u \in Threads \ {t} : exec'[u] = exec[u]
    BY <1>2, TypeParts DEF Dispatch, ExecOK
  <2>3. toRun' = [toRun EXCEPT ![l] = @ \cup {t}] /\ toRun \in [Loops -> SUBSET Threads]
    BY <1>2, TypeParts DEF Dispatch, LoopsOK
  <2> QED  BY <2>1, <2>2, <2>3
<1>3. ASSUME NEW l \in Loops, NEW t \in Threads, Launch(l, t) PROVE Selected'
  <2>1. \A m \in Loops : t \in toRun[m] => m = l  BY <1>3 DEF Launch
  <2>2. \A u \in Threads \ {t} : exec'[u] = exec[u]
    BY <1>3, TypeParts DEF Launch, ExecOK
  <2>3. toRun' = [toRun EXCEPT ![l] = @ \ {t}] /\ toRun \in [Loops -> SUBSET Threads]
    BY <1>3, TypeParts DEF Launch, LoopsOK
  <2> QED  BY <2>1, <2>2, <2>3
<1>4. ASSUME NEW t \in Threads, Work(t) PROVE Selected'
  <2>1. exec[t].pc \in {"running", "finished"} /\ toRun' = toRun
    BY <1>4 DEF Work, Return, Finalize, scheduler
  <2>2. \A u \in Threads \ {t} : exec'[u] = exec[u]
    BY <1>4, TypeParts DEF Work, Return, Finalize, ExecOK
  <2>3. toRun \in [Loops -> SUBSET Threads]  BY TypeParts DEF LoopsOK
  <2> QED  BY <2>1, <2>2, <2>3
<1>5. CASE Submitting
  <2>1. ASSUME NEW n \in Names, Register(n) PROVE UNCHANGED <<exec, toRun>>
    BY <2>1 DEF Register, RegisterRunning, RegisterNew, RegisterEvicting, scheduler
  <2>2. ASSUME NEW n \in Names, NEW p \in WithParams, Trigger(n, p) PROVE UNCHANGED <<exec, toRun>>
    BY <2>2 DEF Trigger, scheduler
  <2> QED  BY <1>1, <1>5, <2>1, <2>2 DEF Submitting
<1>6. CASE Pausing \/ Cancelling
  BY <1>1, <1>6 DEF Pausing, Pause, Resume, Cancelling, Cancel, KillByPlugin, Unregister, scheduler
<1>7. CASE Leasing \/ Around \/ StartStop
  BY <1>1, <1>7 DEF Leasing, LeaseEnter, LeaseExit, LeaseDrop, Around, TimePasses, Help, HelpEnds,
                    RequestRestart, PluginChanges, StartStop, Start, Stop, scheduler
<1>8. ASSUME NEW l \in Loops, Pass(l) PROVE Selected'
  <2>1. CASE BeginPass(l) \/ EndPass(l) \/ Repeat(l)
    BY <1>1, <2>1 DEF BeginPass, EndPass, Repeat, scheduler
  <2>2. CASE \E o \in Objs : Discard(l, o) \/ Refuse(l, o) \/ Postpone(l, o)
    BY <1>1, <2>2 DEF Discard, Refuse, Postpone, scheduler
  <2> QED  BY <1>2, <1>3, <1>8, <2>1, <2>2 DEF Pass
<1>9. CASE UNCHANGED vars  BY <1>1, <1>9 DEF vars
<1> QED  BY <1>4, <1>5, <1>6, <1>7, <1>8, <1>9 DEF Next, Undisturbed

LEMMA InitIInv == Init => IInv
BY InitTypeOK DEF Init, IInv, Selected

\* The state of the job queue keeps its type: in particular a thread runs an
\* object exactly as long as it is not idle, no slot count goes below zero, and
\* every name leads to an object or to none.
THEOREM TypeCorrect == Spec => []TypeOK
<1>1. IInv /\ [Next]_vars => IInv'  BY StepTypeOK, StepSelected DEF IInv
<1>2. IInv => TypeOK  BY DEF IInv
<1> QED  BY <1>1, <1>2, InitIInv, PTL DEF Spec

-----------------------------------------------------------------------------
(* Worker slots *)

\* What no step changes of an object in use: its name and its category, since
\* registering a running name leaves them alone and only objects nobody refers to
\* are given to new jobs.  Whether the job asks for the exclusive lease is what
\* its name was last registered with.
LabelKept(x) ==
    /\ job'[x].name = job[x].name /\ job'[x].set.category = job[x].set.category
    /\ \/ job'[x].set.exclusive = job[x].set.exclusive
       \/ \E n \in Registered \ LeaseNames : \E s \in Registrations[n] :
             jobs[n] = x /\ job'[x].set.exclusive = s.exclusive

\* The category of an executing job decides the pool it belongs to.
CategoryKept == \A t \in Threads :
    Executing(t) => job'[exec[t].obj].set.category = job[exec[t].obj].set.category

LEMMA ExecutingTyped ==
    ASSUME TypeOK, NEW t \in Threads, Executing(t)
    PROVE  exec[t].obj \in Objs
BY TypeParts DEF ExecOK, Execs

LEMMA RefusedSet ==
    ASSUME job \in [Objs -> Jobs], NEW o \in Objs, NEW x \in Objs
    PROVE  Refused(o)[x].set = job[x].set /\ Refused(o)[x].name = job[x].name
<1>1. CASE HeldByRestart(o)  BY <1>1 DEF Refused, Jobs
<1>2. CASE ~HeldByRestart(o)  BY <1>2 DEF Refused, Jobs
<1> QED  BY <1>1, <1>2

LEMMA StepLabels == ASSUME TypeOK, [Next]_vars, NEW x \in Objs \ Unused PROVE LabelKept(x)
<1> DEFINE Kept == LabelKept(x)
<1> USE DEF LabelKept
<1>0. x \in Objs /\ job \in [Objs -> Jobs]  BY TypeParts DEF JobsOK
<1>1. ASSUME NEW n \in Names \ LeaseNames, Register(n) PROVE Kept
  <2>1. PICK s \in Registrations[n], p \in WithParams :
            \/ RegisterRunning(n, s, p)
            \/ \E o \in Objs : RegisterNew(n, s, p, o)
            \/ \E o \in Objs, victim \in Names : RegisterEvicting(n, s, p, o, victim)
    BY <1>1 DEF Register
  <2>2. CASE RegisterRunning(n, s, p)
    <3>1. job' = [job EXCEPT ![jobs[n]].params = p, ![jobs[n]].set = Updated(@, s)]
      BY <2>2 DEF RegisterRunning
    <3>2. job[x].set \in Settings /\ s \in Settings  BY <1>0, RegistrationTyped DEF Jobs
    <3>3. /\ Updated(job[x].set, s).category = job[x].set.category
          /\ Updated(job[x].set, s).exclusive = s.exclusive
      BY <3>2 DEF Updated, Settings
    <3>4. n \in Registered \ LeaseNames  BY <2>2 DEF RegisterRunning
    <3>5. CASE x = jobs[n]
      <4>1. job'[x].name = job[x].name /\ job'[x].set = Updated(job[x].set, s)
        BY <1>0, <3>1, <3>5 DEF Jobs
      <4> QED  BY <3>3, <3>4, <3>5, <4>1
    <3>6. CASE x # jobs[n]
      <4>1. job'[x] = job[x]  BY <1>0, <3>1, <3>6
      <4> QED  BY <4>1
    <3> QED  BY <3>5, <3>6
  <2>3. ASSUME NEW o \in Objs, RegisterNew(n, s, p, o) PROVE Kept
    <3>1. o # x  BY <2>3 DEF RegisterNew, Unused
    <3> QED  BY <1>0, <2>3, <3>1 DEF RegisterNew
  <2>4. ASSUME NEW o \in Objs, NEW victim \in Names, RegisterEvicting(n, s, p, o, victim) PROVE Kept
    <3>1. o # x  BY <2>4 DEF RegisterEvicting, Unused
    <3> QED  BY <1>0, <2>4, <3>1 DEF RegisterEvicting, Jobs
  <2> QED  BY <2>1, <2>2, <2>3, <2>4
<1>2. ASSUME NEW n \in Names, NEW p \in WithParams, Trigger(n, p) PROVE Kept
  <2>1. jobs[n] \in Objs  BY <1>2, RegisteredTyped, TypeParts DEF Trigger
  <2>2. CASE CanExecute(jobs[n])
    <3>1. PICK a, d : job' = [job EXCEPT ![jobs[n]].params = a, ![jobs[n]].due = d]
      BY <1>2, <2>2 DEF Trigger
    <3> QED  BY <1>0, <2>1, <3>1 DEF Jobs
  <2>3. CASE ~CanExecute(jobs[n])  BY <1>0, <1>2, <2>1, <2>3, RefusedSet DEF Trigger
  <2> QED  BY <2>2, <2>3
<1>3. CASE Cancelling
  <2>1. ASSUME NEW S, CancelAll(S) PROVE Kept
    BY <1>0, <2>1 DEF CancelAll, CancelledJobs, Jobs
  <2> QED  BY <1>3, <2>1 DEF Cancelling, Cancel, KillByPlugin, Unregister
<1>4. CASE Pausing  BY <1>0, <1>4 DEF Pausing, Pause, Resume, Jobs
<1>5. CASE Leasing
  <2>1. ASSUME NEW k \in Leasers, NEW o \in Objs, LeaseEnter(k, o) PROVE Kept
    <3>1. o # x  BY <2>1 DEF LeaseEnter, Unused
    <3> QED  BY <1>0, <2>1, <3>1 DEF LeaseEnter
  <2>2. ASSUME NEW k \in Leasers, LeaseExit(k) PROVE Kept
    BY <1>0, <2>2 DEF LeaseExit, Jobs
  <2>3. ASSUME NEW k \in Leasers, LeaseDrop(k) PROVE Kept
    BY <2>3 DEF LeaseDrop
  <2> QED  BY <1>5, <2>1, <2>2, <2>3 DEF Leasing
<1>6. CASE StartStop \/ Around
  BY <1>0, <1>6 DEF StartStop, Start, Stop, Around, TimePasses, Help, HelpEnds, RequestRestart,
                    PluginChanges, Jobs
<1>7. ASSUME NEW l \in Loops, Pass(l) PROVE Kept
  <2>1. CASE BeginPass(l) \/ EndPass(l) \/ Repeat(l) \/ \E u \in Threads : Launch(l, u)
    BY <2>1 DEF BeginPass, EndPass, Repeat, Launch
  <2>2. ASSUME NEW o \in Objs, Discard(l, o) \/ Refuse(l, o) \/ Postpone(l, o) PROVE Kept
    <3>1. CASE Discard(l, o)  BY <3>1 DEF Discard
    <3>2. CASE Refuse(l, o)  BY <1>0, <3>2, RefusedSet DEF Refuse
    <3>3. CASE Postpone(l, o)  BY <1>0, <3>3 DEF Postpone, Jobs
    <3> QED  BY <2>2, <3>1, <3>2, <3>3
  <2>3. ASSUME NEW o \in Objs, NEW u \in Threads, Dispatch(l, o, u) PROVE Kept
    BY <1>0, <2>3 DEF Dispatch, Jobs
  <2> QED  BY <1>7, <2>1, <2>2, <2>3 DEF Pass
<1>8. ASSUME NEW u \in Threads, Work(u) PROVE Kept
  <2>1. exec[u].obj \in Objs  BY <1>8, ExecutingTyped DEF Work, Return, Finalize, Executing
  <2>2. ASSUME NEW outcome \in Outcomes, Return(u, outcome) PROVE Kept
    BY <1>0, <2>1, <2>2 DEF Return, Jobs
  <2>3. CASE Finalize(u)
    <3> DEFINE o == exec[u].obj
    <3>1. PICK a, d :
              job' = [job EXCEPT ![o].running = FALSE, ![o].params = FALSE, ![o].state = a, ![o].due = d]
      BY <2>3 DEF Finalize
    <3> QED  BY <1>0, <2>1, <3>1 DEF Jobs
  <2> QED  BY <1>8, <2>2, <2>3 DEF Work
<1>9. CASE UNCHANGED vars  BY <1>9 DEF vars
<1> QED  BY <1>1, <1>2, <1>3, <1>4, <1>5, <1>6, <1>7, <1>8, <1>9 DEF Next, Undisturbed, Submitting

LEMMA StepCategory == TypeOK /\ [Next]_vars => CategoryKept
<1> SUFFICES ASSUME TypeOK, [Next]_vars, NEW t \in Threads, Executing(t)
             PROVE  job'[exec[t].obj].set.category = job[exec[t].obj].set.category
  BY DEF CategoryKept
<1>1. exec[t].obj \in Objs \ Unused  BY ExecutingTyped DEF Unused
<1> QED  BY <1>1, StepLabels DEF LabelKept

\* What a step does to executions: nothing, it adds one, or it ends one.
ExecutionsKept == \A t \in Threads : exec'[t].obj = exec[t].obj /\ exec'[t].leased = exec[t].leased

LEMMA StepExecutions ==
    ASSUME TypeOK, [Next]_vars
    PROVE  \/ ExecutionsKept /\ UNCHANGED resources
           \/ \E l \in Loops, o \in Objs, t \in Threads : Dispatch(l, o, t)
           \/ \E t \in Threads : Finalize(t)
           \/ \E h \in Helpers : Help(h) \/ HelpEnds(h)
<1> DEFINE Kept == ExecutionsKept /\ UNCHANGED resources
<1> USE DEF resources, scheduler, ExecutionsKept
<1>1. ASSUME NEW n \in Names, Register(n) PROVE Kept
  BY <1>1 DEF Register, RegisterRunning, RegisterNew, RegisterEvicting
<1>2. ASSUME NEW n \in Names, NEW p \in WithParams, Trigger(n, p) PROVE Kept
  BY <1>2 DEF Trigger
<1>3. CASE Pausing \/ Cancelling
  BY <1>3 DEF Pausing, Pause, Resume, Cancelling, Cancel, KillByPlugin, Unregister
<1>4. CASE Leasing \/ StartStop
  BY <1>4 DEF Leasing, LeaseEnter, LeaseExit, LeaseDrop, StartStop, Start, Stop
<1>5. ASSUME NEW l \in Loops, BeginPass(l) \/ EndPass(l) \/ Repeat(l) PROVE Kept
  BY <1>5 DEF BeginPass, EndPass, Repeat
<1>6. ASSUME NEW l \in Loops, NEW o \in Objs, Discard(l, o) \/ Refuse(l, o) \/ Postpone(l, o)
      PROVE  Kept
  BY <1>6 DEF Discard, Refuse, Postpone
<1>7. ASSUME NEW l \in Loops, NEW t \in Threads, Launch(l, t) PROVE Kept
  BY <1>7, TypeParts DEF Launch, ExecOK, Execs
<1>8. ASSUME NEW t \in Threads, NEW outcome \in Outcomes, Return(t, outcome) PROVE Kept
  BY <1>8, TypeParts DEF Return, ExecOK, Execs
<1>9. CASE UNCHANGED vars  BY <1>9 DEF vars
<1>10. CASE Around
  BY <1>10 DEF Around, TimePasses, RequestRestart, PluginChanges
<1> HIDE DEF Kept
<1>11. ASSUME NEW l \in Loops, Pass(l)
       PROVE  Kept \/ \E o \in Objs, t \in Threads : Dispatch(l, o, t)
  BY <1>5, <1>6, <1>7, <1>11 DEF Pass
<1>12. CASE Submitting  BY <1>1, <1>2, <1>12 DEF Submitting, Kept
<1>13. ASSUME NEW t \in Threads, Work(t) PROVE Kept \/ Finalize(t)
  BY <1>8, <1>13 DEF Work
<1> QED
  BY <1>3, <1>4, <1>9, <1>10, <1>11, <1>12, <1>13 DEF Next, Undisturbed, Kept

LEMMA OccupantsFinite ==
    \A p \in Pools : /\ IsFiniteSet(Occupants(p)) /\ Cardinality(Occupants(p)) \in Nat
                     /\ IsFiniteSet(Occupants(p))' /\ Cardinality(Occupants(p))' \in Nat
<1> SUFFICES ASSUME NEW p \in Pools
             PROVE  /\ IsFiniteSet(Occupants(p)) /\ Cardinality(Occupants(p)) \in Nat
                    /\ IsFiniteSet(Occupants(p))' /\ Cardinality(Occupants(p))' \in Nat
  OBVIOUS
<1>1. Occupants(p) \subseteq Threads /\ (Occupants(p))' \subseteq Threads  BY DEF Occupants
<1>2. IsFiniteSet(Threads)  BY QueueAssumption DEF QueueAssumption
<1> QED  BY <1>1, <1>2, FS_Subset, FS_CardinalityType

LEMMA GuestsFinite ==
    ASSUME PoolsOK
    PROVE  /\ IsFiniteSet(helping) /\ Cardinality(helping) \in Nat
           /\ Guests("general") = helping /\ Cardinality(Guests("core")) = 0
<1>1. IsFiniteSet(Helpers) /\ helping \subseteq Helpers
  BY QueueAssumption DEF QueueAssumption, PoolsOK
<1> QED  BY <1>1, FS_Subset, FS_CardinalityType, FS_EmptySet DEF Guests

\* The pool an execution belongs to does not change.
LEMMA OccupantKept ==
    ASSUME TypeOK, CategoryKept, NEW t \in Threads, exec'[t].obj = exec[t].obj, TypeOK', NEW p \in Pools
    PROVE  t \in (Occupants(p))' <=> t \in Occupants(p)
<1>1. Executing(t)' <=> Executing(t)  BY TypeParts DEF ExecOK
<1>2. Executing(t) => (Pool(exec[t].obj) = p)' = (Pool(exec[t].obj) = p)
  BY DEF CategoryKept, Pool
<1> QED  BY <1>1, <1>2 DEF Occupants

LEMMA DispatchSlots ==
    ASSUME TypeOK, TypeOK', CategoryKept, SlotAccounting,
           NEW l \in Loops, NEW o \in Objs, NEW t \in Threads, Dispatch(l, o, t)
    PROVE  SlotAccounting'
<1> DEFINE q == Pool(o)
<1>1. q \in Pools /\ Capacity(q) \in Nat  BY QueueAssumption DEF Pool, Pools, Capacity, QueueAssumption
<1>2. /\ exec'[t].obj = o /\ \A u \in Threads \ {t} : exec'[u].obj = exec[u].obj
      /\ Executing(t)' /\ ~Executing(t)
  BY TypeParts DEF Dispatch, ExecOK, Execs, Executing
<1>3. Pool(o)' = q
  <2>1. job'[o].set.category = job[o].set.category  BY TypeParts DEF Dispatch, JobsOK, Jobs
  <2> QED  BY <2>1 DEF Pool
<1>4. \A p \in Pools : Occupants(p)' = IF p = q THEN Occupants(p) \cup {t} ELSE Occupants(p)
  <2> SUFFICES ASSUME NEW p \in Pools, NEW u \in Threads
               PROVE  u \in (Occupants(p))' <=> (u \in Occupants(p) \/ (p = q /\ u = t))
    BY <1>2 DEF Occupants
  <2>1. CASE u = t
    <3>1. Pool(exec[u].obj)' = q  BY <1>2, <1>3, <2>1 DEF Pool
    <3> QED  BY <1>2, <2>1, <3>1 DEF Occupants
  <2>2. CASE u # t  BY <1>2, <2>2, OccupantKept
  <2> QED  BY <2>1, <2>2
<1>5. t \notin Occupants(q)  BY <1>2 DEF Occupants
<1>6. Cardinality(Occupants(q) \cup {t}) = Cardinality(Occupants(q)) + 1
  BY <1>1, <1>5, OccupantsFinite, FS_AddElement
<1>7. /\ slots' = [slots EXCEPT ![q] = @ - 1] /\ slots \in [Pools -> Nat]
      /\ \A p \in Pools : Guests(p)' = Guests(p) /\ Capacity(p)' = Capacity(p)
  BY TypeParts DEF Dispatch, PoolsOK, Guests, Capacity
<1>8. \A p \in Pools : Cardinality(Guests(p)) \in Nat
  BY TypeParts, GuestsFinite DEF Pools
<1> SUFFICES ASSUME NEW p \in Pools
             PROVE  (slots[p] + Cardinality(Occupants(p)) + Cardinality(Guests(p)) = Capacity(p))'
  BY DEF SlotAccounting
<1>9. slots[p] + Cardinality(Occupants(p)) + Cardinality(Guests(p)) = Capacity(p)
  BY DEF SlotAccounting
<1>10. CASE p = q
  <2>1. Cardinality(Occupants(p))' = Cardinality(Occupants(p)) + 1  BY <1>4, <1>6, <1>10
  <2>2. Guests(p)' = Guests(p) /\ Capacity(p)' = Capacity(p) /\ slots'[p] = slots[p] - 1
    BY <1>7, <1>10
  <2> QED  BY <1>7, <1>8, <1>9, <2>1, <2>2, OccupantsFinite
<1>11. CASE p # q
  <2>1. Occupants(p)' = Occupants(p)  BY <1>4, <1>11
  <2>2. Guests(p)' = Guests(p) /\ Capacity(p)' = Capacity(p) /\ slots'[p] = slots[p]
    BY <1>7, <1>11
  <2> QED  BY <1>9, <2>1, <2>2
<1> QED  BY <1>10, <1>11

LEMMA FinalizeSlots ==
    ASSUME TypeOK, TypeOK', CategoryKept, SlotAccounting, NEW t \in Threads, Finalize(t)
    PROVE  SlotAccounting'
<1> DEFINE q == Pool(exec[t].obj)
<1>1. q \in Pools /\ Capacity(q) \in Nat  BY QueueAssumption DEF Pool, Pools, Capacity, QueueAssumption
<1>2. /\ \A u \in Threads \ {t} : exec'[u].obj = exec[u].obj
      /\ Executing(t) /\ ~(Executing(t)')
  BY TypeParts DEF Finalize, ExecOK, Execs, Executing, Idle
<1>4. \A p \in Pools : Occupants(p)' = IF p = q THEN Occupants(p) \ {t} ELSE Occupants(p)
  <2> SUFFICES ASSUME NEW p \in Pools, NEW u \in Threads
               PROVE  u \in (Occupants(p))' <=> (u \in Occupants(p) /\ ~(p = q /\ u = t))
    BY DEF Occupants
  <2>1. CASE u = t  BY <1>2, <2>1 DEF Occupants
  <2>2. CASE u # t  BY <1>2, <2>2, OccupantKept
  <2> QED  BY <2>1, <2>2
<1>5. t \in Occupants(q)  BY <1>2 DEF Occupants
<1>6. Cardinality(Occupants(q) \ {t}) = Cardinality(Occupants(q)) - 1
  BY <1>1, <1>5, OccupantsFinite, FS_RemoveElement
<1>7. /\ slots' = ReleaseSlot(q) /\ slots \in [Pools -> Nat]
      /\ \A p \in Pools : Guests(p)' = Guests(p) /\ Capacity(p)' = Capacity(p)
  BY TypeParts DEF Finalize, PoolsOK, Guests, Capacity
<1>8. \A p \in Pools : Cardinality(Guests(p)) \in Nat
  BY TypeParts, GuestsFinite DEF Pools
<1> SUFFICES ASSUME NEW p \in Pools
             PROVE  (slots[p] + Cardinality(Occupants(p)) + Cardinality(Guests(p)) = Capacity(p))'
  BY DEF SlotAccounting
<1>9. slots[p] + Cardinality(Occupants(p)) + Cardinality(Guests(p)) = Capacity(p)
  BY DEF SlotAccounting
<1>10. CASE p = q
  <2>1. Cardinality(Occupants(p))' = Cardinality(Occupants(p)) - 1  BY <1>4, <1>6, <1>10
  <2>2. slots[p] < Capacity(p)
    <3>1. Cardinality(Occupants(p)) # 0  BY <1>1, <1>5, <1>10, OccupantsFinite, FS_EmptySet
    <3> QED  BY <1>1, <1>7, <1>8, <1>9, <1>10, <3>1, OccupantsFinite
  <2>3. Guests(p)' = Guests(p) /\ Capacity(p)' = Capacity(p) /\ slots'[p] = slots[p] + 1
    BY <1>7, <1>10, <2>2 DEF ReleaseSlot
  <2> QED  BY <1>7, <1>8, <1>9, <2>1, <2>3, OccupantsFinite
<1>11. CASE p # q
  <2>1. Occupants(p)' = Occupants(p)  BY <1>4, <1>11
  <2>2. Guests(p)' = Guests(p) /\ Capacity(p)' = Capacity(p) /\ slots'[p] = slots[p]
    BY <1>7, <1>11 DEF ReleaseSlot
  <2> QED  BY <1>9, <2>1, <2>2
<1> QED  BY <1>10, <1>11

LEMMA HelpSlots ==
    ASSUME TypeOK, TypeOK', CategoryKept, SlotAccounting, NEW h \in Helpers, Help(h) \/ HelpEnds(h)
    PROVE  SlotAccounting'
<1>1. \A p \in Pools : Occupants(p)' = Occupants(p) /\ Capacity(p)' = Capacity(p)
  <2>1. exec' = exec  BY DEF Help, HelpEnds
  <2> QED  BY <2>1, OccupantKept DEF Occupants, Capacity
<1>2. PoolsOK /\ PoolsOK'  BY TypeParts
<1>3. /\ Guests("general") = helping /\ Guests("general")' = helping'
      /\ Guests("core")' = Guests("core")
  BY DEF Guests
<1>4. /\ slots'["core"] = slots["core"]
      /\ slots'["general"] + Cardinality(helping') = slots["general"] + Cardinality(helping)
  <2>1. CASE Help(h)
    <3>1. Cardinality(helping') = Cardinality(helping) + 1
      BY <1>2, <2>1, GuestsFinite, FS_AddElement DEF Help
    <3> QED  BY <1>2, <2>1, <3>1, GuestsFinite DEF Help, PoolsOK, Pools
  <2>2. CASE HelpEnds(h)
    <3>1. Cardinality(helping') = Cardinality(helping) - 1
      BY <1>2, <2>2, GuestsFinite, FS_RemoveElement DEF HelpEnds
    <3> QED  BY <1>2, <2>2, <3>1, GuestsFinite DEF HelpEnds, PoolsOK, Pools
  <2> QED  BY <2>1, <2>2
<1>5. Cardinality(helping) \in Nat /\ Cardinality(helping') \in Nat
  <2>1. IsFiniteSet(helping')
    BY <1>2, FS_Subset, QueueAssumption DEF PoolsOK, QueueAssumption
  <2> QED  BY <1>2, <2>1, GuestsFinite, FS_CardinalityType
<1>6. (slots["core"] + Cardinality(Occupants("core")) + Cardinality(Guests("core")) = Capacity("core"))'
  BY <1>1, <1>3, <1>4 DEF SlotAccounting, Pools
<1>7. slots["general"] + Cardinality(Occupants("general")) + Cardinality(helping) = Capacity("general")
  BY <1>3 DEF SlotAccounting, Pools
<1>8. slots'["general"] + Cardinality(Occupants("general")) + Cardinality(helping') = Capacity("general")
  <2>1. "general" \in Pools  BY DEF Pools
  <2> QED  BY <1>2, <1>4, <1>5, <1>7, <2>1, OccupantsFinite DEF PoolsOK
<1>9. (slots["general"] + Cardinality(Occupants("general")) + Cardinality(Guests("general"))
         = Capacity("general"))'
  BY <1>1, <1>3, <1>8 DEF Pools
<1> QED  BY <1>6, <1>9 DEF SlotAccounting, Pools

LEMMA InitSlots == Init => SlotAccounting
<1> SUFFICES ASSUME Init, NEW p \in Pools
             PROVE  slots[p] + Cardinality(Occupants(p)) + Cardinality(Guests(p)) = Capacity(p)
  BY DEF SlotAccounting
<1>1. Occupants(p) = {} /\ Guests(p) = {}  BY DEF Init, Occupants, Executing, Idle, Guests
<1>2. slots[p] = Capacity(p) /\ Capacity(p) \in Nat
  BY QueueAssumption DEF Init, Capacity, QueueAssumption
<1> QED  BY <1>1, <1>2, FS_EmptySet

\* Every worker slot is held by exactly one execution or supervised thread, or
\* free: none is lost and none is given back twice, by cancellation, removal,
\* eviction or re-registration of a running job, with or without failures.
THEOREM SlotsAccounted == Spec => []SlotAccounting
<1>1. IInv /\ [Next]_vars => IInv'  BY StepTypeOK, StepSelected DEF IInv
<1>2. ASSUME IInv, SlotAccounting, [Next]_vars PROVE SlotAccounting'
  <2>1. TypeOK /\ TypeOK' /\ CategoryKept  BY <1>1, <1>2, StepCategory DEF IInv
  <2>2. CASE ExecutionsKept /\ UNCHANGED resources
    <3>1. \A p \in Pools : Occupants(p)' = Occupants(p)
      <4> SUFFICES ASSUME NEW p \in Pools, NEW t \in Threads
                   PROVE  t \in (Occupants(p))' <=> t \in Occupants(p)
        BY DEF Occupants
      <4> QED  BY <2>1, <2>2, OccupantKept DEF ExecutionsKept
    <3> QED  BY <1>2, <2>2, <3>1 DEF SlotAccounting, Guests, Capacity, resources
  <2> QED  BY <1>2, <2>1, <2>2, StepExecutions, DispatchSlots, FinalizeSlots, HelpSlots
<1> QED  BY <1>1, <1>2, InitIInv, InitSlots, PTL DEF Spec
=============================================================================
