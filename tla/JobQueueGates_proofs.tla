------------------------- MODULE JobQueueGates_proofs -------------------------
(***************************************************************************)
(* For every set of jobs, threads and schedulers: what the gates of the    *)
(* job queue keep apart, and where the jobs that wait are to be found, as  *)
(* long as nothing is cancelled or removed (UndisturbedSpec), and the      *)
(* exclusive lease whatever is cancelled.                                  *)
(***************************************************************************)
EXTENDS JobQueue_proofs

-----------------------------------------------------------------------------
(* The program keeps the fact "this job is running" three times: in the     *)
(* object, in _is_running and in the thread.  The gates read the first two. *)

NamesMatch == \A n \in Registered : job[jobs[n]].name = n

Executed(o) == \E t \in Threads : Executing(t) /\ exec[t].obj = o

\* An execution is marked at both places the gates look, under its name.
Tracked == \A t \in Threads : Executing(t) =>
    /\ jobs[job[exec[t].obj].name] = exec[t].obj
    /\ job[exec[t].obj].name \notin LeaseNames
    /\ job[exec[t].obj].running /\ isRunning[job[exec[t].obj].name]

\* A mark is backed by an execution.
Backed == \A n \in Names \ LeaseNames :
    isRunning[n] \/ (n \in Registered /\ job[jobs[n]].running) => Executed(jobs[n])

OneExecutor == \A t, u \in Threads : Executing(t) /\ exec[t].obj = exec[u].obj => t = u

\* The name of a leased workflow never reaches the scheduler.
LeaseBusy == \A n \in LeaseNames \cap Registered : isRunning[n]

\* What waits, in the heap or in a pass's temp_heap, waits under its name, once.
Waits(o) == heap[o] > 0 \/ deferred[o] > 0
Placed == \A o \in Objs : Waits(o) => jobs[job[o].name] = o /\ job[o].name \notin LeaseNames
Counts == \A o \in Objs : heap[o] <= 1 /\ deferred[o] <= 1 /\ ~(heap[o] = 1 /\ deferred[o] = 1)
Once == Counts /\ \A o \in Objs : Executed(o) => ~Waits(o)
DeferredInPass == LockFree => \A o \in Objs : deferred[o] = 0

\* Every enabled job waits or is executed.
NeverCancelled == \A n \in Registered : job[jobs[n]].state # "CANCELLED"
InReach == \A n \in Registered \ LeaseNames :
    job[jobs[n]].set.enabled => Waits(jobs[n]) \/ Executed(jobs[n])

GInv == /\ NamesMatch /\ Tracked /\ Backed /\ OneExecutor /\ LeaseBusy
        /\ Placed /\ Once /\ DeferredInPass /\ NeverCancelled /\ InReach

\* The facts about types the proofs below use.
LEMMA Facts ==
    ASSUME TypeOK
    PROVE  /\ job \in [Objs -> Jobs] /\ jobs \in [Names -> Objs \cup {NoJob}]
           /\ heap \in [Objs -> Nat] /\ deferred \in [Objs -> Nat]
           /\ isRunning \in [Names -> BOOLEAN]
           /\ exec \in [Threads -> Execs]
           /\ \A t \in Threads : Executing(t) => exec[t].obj \in Objs
           /\ \A n \in Registered : n \in Names /\ jobs[n] \in Objs
           /\ NoJob \notin Objs
BY TypeParts, ExecutingTyped, RegisteredTyped, QueueAssumption
   DEF JobsOK, QueueOK, ExecOK, QueueAssumption

-----------------------------------------------------------------------------
(* Steps that move nothing. *)

SameExecs == \A t \in Threads : exec'[t].obj = exec[t].obj /\ (Executing(t)' <=> Executing(t))

\* The step leaves the place of every job, and of its fields all that GInv reads;
\* a lease may end, and an execution may be enabled or disabled.
Quiet ==
    /\ UNCHANGED <<jobs, isRunning>> /\ SameExecs
    /\ \A x \in Objs : /\ job'[x].name = job[x].name
                       /\ job'[x].running = job[x].running \/ job[x].name \in LeaseNames
                       /\ job'[x].set.enabled = job[x].set.enabled \/ Executed(x)
                       /\ job[x].state # "CANCELLED" => job'[x].state # "CANCELLED"

Still == UNCHANGED <<heap, deferred>> /\ (LockFree' => LockFree \/ \A o \in Objs : deferred[o] = 0)
Reordered == (\A o \in Objs : Waits(o)' <=> Waits(o)) /\ Counts' /\ DeferredInPass'

LEMMA SameExecuted == SameExecs => \A o : Executed(o)' <=> Executed(o)
BY DEF SameExecs, Executed

LEMMA QuietKeeps ==
    ASSUME TypeOK, GInv, Quiet, Still \/ Reordered
    PROVE  GInv'
<1> USE Facts, SameExecuted DEF GInv, Quiet
<1>0. Registered' = Registered  BY DEF Registered
<1>1. (\A o \in Objs : Waits(o)' <=> Waits(o)) /\ Counts' /\ DeferredInPass'
  BY DEF Still, Reordered, Waits, Once, Counts, DeferredInPass
<1>2. NamesMatch' /\ LeaseBusy' /\ NeverCancelled'
  BY <1>0 DEF NamesMatch, LeaseBusy, NeverCancelled
<1>3. Tracked'
  <2> SUFFICES ASSUME NEW t \in Threads, Executing(t)
               PROVE  /\ jobs[job[exec[t].obj].name] = exec[t].obj
                      /\ job[exec[t].obj].name \notin LeaseNames
                      /\ job[exec[t].obj].running /\ isRunning[job[exec[t].obj].name]
                      /\ exec[t].obj \in Objs
    BY DEF Tracked, SameExecs
  <2> QED  BY DEF Tracked
<1>4. Backed'
  <2> SUFFICES ASSUME NEW n \in Names \ LeaseNames,
                      isRunning[n] \/ (n \in Registered /\ job'[jobs[n]].running)
               PROVE  Executed(jobs[n])
    BY <1>0 DEF Backed
  <2>1. n \in Registered => job[jobs[n]].name = n  BY DEF NamesMatch
  <2> QED  BY <2>1 DEF Backed
<1>5. OneExecutor'  BY DEF OneExecutor, SameExecs
<1>6. Placed' /\ Once'  BY <1>1 DEF Placed, Once
<1>7. InReach'  BY <1>0, <1>1 DEF InReach
<1> QED  BY <1>1, <1>2, <1>3, <1>4, <1>5, <1>6, <1>7

LEMMA RefusedFields ==
    ASSUME job \in [Objs -> Jobs], NEW o \in Objs, NEW x \in Objs
    PROVE  /\ Refused(o)[x].name = job[x].name /\ Refused(o)[x].running = job[x].running
           /\ Refused(o)[x].set = job[x].set /\ Refused(o)[x].params = job[x].params
           /\ job[x].state # "CANCELLED" => Refused(o)[x].state # "CANCELLED"
<1>1. CASE HeldByRestart(o)  BY <1>1 DEF Refused, Jobs
<1>2. CASE ~HeldByRestart(o)  BY <1>2 DEF Refused, Jobs
<1> QED  BY <1>1, <1>2

LEMMA AroundQuiet ==
    ASSUME TypeOK, Around \/ StartStop \/ Pausing
    PROVE  Quiet /\ Still
<1> USE Facts DEF Quiet, Still, SameExecs, Executing, LockFree, registry, resources, scheduler
<1>1. CASE Around
  <2>1. ASSUME NEW o \in Objs, TimePasses(o) PROVE Quiet /\ Still  BY <2>1 DEF TimePasses, Jobs
  <2>2. ASSUME NEW h \in Helpers, Help(h) \/ HelpEnds(h) PROVE Quiet /\ Still  BY <2>2 DEF Help, HelpEnds
  <2>3. CASE RequestRestart \/ \E p \in Plugins : PluginChanges(p)
    BY <2>3 DEF RequestRestart, PluginChanges
  <2> QED  BY <1>1, <2>1, <2>2, <2>3 DEF Around
<1>2. CASE StartStop
  <2>1. CASE Stop  BY <2>1 DEF Stop
  <2>2. ASSUME NEW l \in Loops, Start(l) PROVE Quiet /\ Still
    BY <2>2, TypeParts DEF Start, LoopsOK
  <2> QED  BY <1>2, <2>1, <2>2 DEF StartStop
<1>3. ASSUME NEW n \in Names, Pause(n) \/ Resume(n) PROVE Quiet /\ Still
  <2>1. CASE n \notin Registered  BY <1>3, <2>1 DEF Pause, Resume
  <2>2. CASE n \in Registered
    <3>1. PICK s \in Statuses \ {"CANCELLED"} : job' = job \/ job' = [job EXCEPT ![jobs[n]].state = s]
      BY <1>3, <2>2 DEF Pause, Resume, Statuses
    <3>2. jobs[n] \in Objs  BY <2>2
    <3>3. \A x \in Objs : /\ job'[x].name = job[x].name
                          /\ job'[x].running = job[x].running
                          /\ job'[x].set.enabled = job[x].set.enabled
                          /\ job[x].state # "CANCELLED" => job'[x].state # "CANCELLED"
      BY <3>1, <3>2 DEF Jobs
    <3> QED  BY <1>3, <3>3 DEF Pause, Resume
  <2> QED  BY <2>1, <2>2
<1>4. Pausable \subseteq Names  BY QueueAssumption DEF QueueAssumption
<1> QED  BY <1>1, <1>2, <1>3, <1>4 DEF Pausing

LEMMA ThreadsQuiet ==
    ASSUME TypeOK, Selected, NEW t \in Threads,
           (\E l \in Loops : Launch(l, t)) \/ (\E outcome \in Outcomes : Return(t, outcome))
    PROVE  Quiet /\ Still
<1> USE Facts DEF Quiet, Still, SameExecs, Executing, LockFree, registry, resources, scheduler
<1>1. ASSUME NEW l \in Loops, Launch(l, t) PROVE Quiet /\ Still
  <2>1. exec[t].pc = "selected"  BY <1>1 DEF Launch, Selected
  <2>2. exec' = [exec EXCEPT ![t].pc = "running"]  BY <1>1 DEF Launch
  <2>3. SameExecs  BY <2>1, <2>2 DEF Execs
  <2> QED  BY <1>1, <2>3 DEF Launch
<1>2. ASSUME NEW outcome \in Outcomes, Return(t, outcome) PROVE Quiet /\ Still
  <2>1. exec[t].obj \in Objs  BY <1>2 DEF Return
  <2>2. SameExecs  BY <1>2 DEF Return, Execs
  <2>3. \A x \in Objs : /\ job'[x].name = job[x].name
                        /\ job'[x].running = job[x].running
                        /\ job'[x].set = job[x].set
                        /\ job[x].state # "CANCELLED" => job'[x].state # "CANCELLED"
    <3> DEFINE o == exec[t].obj
    <3>1. \/ job' = [job EXCEPT ![o].retries = @ + 1, ![o].due = FALSE, ![o].state = "RETRY_BACKOFF"]
          \/ \E s \in {"COMPLETED", "FAILED_TERMINAL"} : job' = [job EXCEPT ![o].state = s]
      BY <1>2 DEF Return
    <3> HIDE DEF o
    <3> QED  BY <2>1, <3>1 DEF o, Jobs
  <2> QED  BY <1>2, <2>2, <2>3 DEF Return
<1> QED  BY <1>1, <1>2

LEMMA PassQuiet ==
    ASSUME TypeOK, GInv, NEW l \in Loops, BeginPass(l) \/ Repeat(l)
    PROVE  Quiet /\ Still
<1> USE TypeParts DEF Quiet, Still, SameExecs, Executing, LockFree, registry, resources, scheduler, LoopsOK
<1>1. CASE BeginPass(l)
  <2>1. \A o \in Objs : deferred[o] = 0  BY <1>1 DEF GInv, DeferredInPass, BeginPass
  <2> QED  BY <1>1, <2>1 DEF BeginPass
<1>2. CASE Repeat(l)  BY <1>2 DEF Repeat
<1> QED  BY <1>1, <1>2

\* The gate marks a job it refuses, and leaves everything else as it is.
LEMMA RefusedTriggerQuiet ==
    ASSUME TypeOK, NEW n \in Names, NEW p, Trigger(n, p), ~CanExecute(jobs[n])
    PROVE  Quiet /\ Still
BY Facts, RefusedFields
   DEF Trigger, Quiet, Still, SameExecs, Executing, LockFree, registry, resources, scheduler

LEMMA RegisterRunningQuiet ==
    ASSUME TypeOK, GInv, NEW n \in Names \ LeaseNames, NEW s \in Registrations[n], NEW p \in WithParams,
           RegisterRunning(n, s, p)
    PROVE  Quiet /\ Still
<1> USE Facts DEF registry, resources, scheduler
<1>1. n \in Registered /\ Executed(jobs[n])
  BY DEF RegisterRunning, Busy, GInv, Backed
<1>2. job' = [job EXCEPT ![jobs[n]].params = p, ![jobs[n]].set = Updated(@, s)]
  BY DEF RegisterRunning
<1>3. \A x \in Objs : /\ job'[x].name = job[x].name
                      /\ job'[x].running = job[x].running
                      /\ x # jobs[n] => job'[x].set = job[x].set
                      /\ job'[x].state = job[x].state
  BY <1>1, <1>2 DEF Jobs
<1> QED
  BY <1>1, <1>3 DEF RegisterRunning, Quiet, Still, SameExecs, Executing, LockFree

LEMMA LeaseExitQuiet ==
    ASSUME TypeOK, GInv, NEW k \in Leasers, LeaseExit(k)
    PROVE  Quiet /\ Still
<1> USE Facts DEF registry, resources, scheduler
<1> DEFINE n == LeaseName[k]
<1>1. n \in LeaseNames /\ n \in Names  BY LeaseNameTyped DEF LeaseNames
<1>2. \A x \in Objs : /\ job'[x].name = job[x].name
                      /\ job'[x].running = job[x].running \/ (n \in Registered /\ x = jobs[n])
                      /\ job'[x].set = job[x].set
                      /\ job[x].state # "CANCELLED" => job'[x].state # "CANCELLED"
  <2>1. CASE n \notin Registered  BY <2>1 DEF LeaseExit
  <2>2. CASE n \in Registered
    <3>1. PICK s \in {"COMPLETED", "FAILED_TERMINAL"} :
              job' = [job EXCEPT ![jobs[n]].state = s, ![jobs[n]].running = FALSE]
      BY <2>2 DEF LeaseExit
    <3>2. jobs[n] \in Objs  BY <2>2
    <3> HIDE DEF n
    <3>3. \A x \in Objs : /\ x # jobs[n] => job'[x] = job[x]
                          /\ job'[x].name = job[x].name /\ job'[x].set = job[x].set
      BY <3>1, <3>2 DEF Jobs
    <3>4. job'[jobs[n]].state = s  BY <3>1, <3>2 DEF Jobs
    <3> QED  BY <2>2, <3>3, <3>4
  <2> QED  BY <2>1, <2>2
<1>3. n \in Registered => job[jobs[n]].name \in LeaseNames  BY <1>1 DEF GInv, NamesMatch
<1> QED
  BY <1>2, <1>3 DEF LeaseExit, Quiet, Still, SameExecs, Executing, LockFree

\* A pass puts what it cannot start aside, and back into the heap at its end.
LEMMA DeferralQuiet ==
    ASSUME TypeOK, GInv, NEW l \in Loops, NEW o \in Objs, Refuse(l, o) \/ Postpone(l, o)
    PROVE  Quiet /\ Reordered
<1> USE Facts DEF registry, resources, scheduler
<1>1. /\ heap' = [heap EXCEPT ![o] = @ - 1] /\ deferred' = [deferred EXCEPT ![o] = @ + 1]
      /\ heap[o] > 0 /\ loop[l] = "scan" /\ UNCHANGED <<jobs, isRunning, exec, loop>>
  BY DEF Refuse, Postpone, Pop, Push, Popped
<1>2. heap[o] = 1 /\ deferred[o] = 0  BY <1>1 DEF GInv, Once, Counts
<1>3. Reordered
  BY <1>1, <1>2 DEF Reordered, Waits, GInv, Once, Counts, DeferredInPass, LockFree
<1>4. \A x \in Objs : /\ job'[x].name = job[x].name
                      /\ job'[x].running = job[x].running
                      /\ job'[x].set = job[x].set
                      /\ job[x].state # "CANCELLED" => job'[x].state # "CANCELLED"
  <2>1. CASE Refuse(l, o)  BY <2>1, RefusedFields DEF Refuse
  <2>2. CASE Postpone(l, o)  BY <2>2 DEF Postpone, Jobs
  <2> QED  BY <2>1, <2>2
<1> QED  BY <1>1, <1>3, <1>4 DEF Quiet, SameExecs, Executing

LEMMA EndPassQuiet ==
    ASSUME TypeOK, GInv, NEW l \in Loops, EndPass(l)
    PROVE  Quiet /\ Reordered
<1> USE Facts DEF registry, resources, scheduler
<1>1. Reordered
  BY DEF EndPass, Reordered, Waits, GInv, Once, Counts, DeferredInPass
<1> QED  BY <1>1 DEF EndPass, Quiet, SameExecs, Executing

-----------------------------------------------------------------------------
(* register_job and execute_job_now *)

\* Nobody executes a name that is not busy.
LEMMA NotBusy ==
    ASSUME TypeOK, GInv, NEW n \in Names, n \in Registered => ~Busy(n)
    PROVE  \A t \in Threads : Executing(t) => job[exec[t].obj].name # n
<1> SUFFICES ASSUME NEW t \in Threads, Executing(t), job[exec[t].obj].name = n PROVE FALSE  OBVIOUS
<1>1. jobs[n] = exec[t].obj /\ job[jobs[n]].running  BY DEF GInv, Tracked
<1>2. n \in Registered  BY <1>1, Facts DEF Registered
<1> QED  BY <1>1, <1>2 DEF Busy

LEMMA NotRunning ==
    ASSUME TypeOK, GInv, NEW n \in Names \ LeaseNames, n \in Registered => ~Busy(n)
    PROVE  ~isRunning[n]
<1>1. CASE n \in Registered  BY <1>1 DEF Busy
<1>2. CASE n \notin Registered
  <2>1. jobs[n] = NoJob  BY <1>2 DEF Registered
  <2>2. ~Executed(jobs[n])  BY <2>1, Facts DEF Executed
  <2> QED  BY <2>2 DEF GInv, Backed
<1> QED  BY <1>1, <1>2

\* A fresh object o is put under the name n and into the heap, and the names in
\* V leave the queue; nobody executes any of them.
NewJobIn(n, o, V) ==
    /\ n \in Names \ LeaseNames /\ o \in Unused /\ V \in SUBSET Names /\ n \notin V
    /\ ~isRunning[n] /\ LockFree
    /\ \A t \in Threads : Executing(t) => job[exec[t].obj].name \notin V \cup {n}
    /\ \A m \in Names : /\ jobs'[m] = IF m = n THEN o ELSE IF m \in V THEN NoJob ELSE jobs[m]
                        /\ isRunning'[m] = (isRunning[m] /\ m \notin V)
    /\ job'[o].name = n /\ ~job'[o].running /\ job'[o].state = "QUEUED" /\ heap'[o] = 1
    /\ \A x \in Objs \ {o} : /\ job'[x].name = job[x].name
                             /\ job'[x].running = job[x].running
                             /\ job'[x].set = job[x].set
                             /\ job'[x].state = job[x].state \/ \E m \in V : x = jobs[m]
                             /\ heap'[x] = IF job[x].name \in V \cup {n} THEN 0 ELSE heap[x]
    /\ UNCHANGED <<deferred, exec, loop>>

LEMMA NewJobKeeps ==
    ASSUME TypeOK, GInv, NEW n, NEW o, NEW V, NewJobIn(n, o, V)
    PROVE  GInv'
<1> USE Facts DEF GInv, NewJobIn
<1>1. /\ o \in Objs /\ heap[o] = 0 /\ deferred[o] = 0
      /\ \A m \in Names : jobs[m] # o
      /\ \A t \in Threads : exec[t].obj # o
  BY DEF Unused
<1>2. \A x \in Objs : deferred[x] = 0  BY DEF DeferredInPass
<1>3. (\A t \in Threads : Executing(t)' <=> Executing(t)) /\ (\A x : Executed(x)' <=> Executed(x))
  BY DEF Executing, Executed
<1>4. /\ n \in Registered'
      /\ \A m \in Names \ {n} : m \in Registered' <=> m \in Registered \ V
      /\ Registered' \subseteq Names
  BY <1>1 DEF Registered
<1>5. \A m \in Registered \ V : m # n => /\ jobs'[m] = jobs[m] /\ jobs[m] # o /\ jobs[m] \in Objs
                                        /\ job[jobs[m]].name = m
  BY <1>1 DEF NamesMatch
<1>6. NamesMatch'  BY <1>1, <1>4, <1>5 DEF NamesMatch
<1>7. Tracked'
  <2> SUFFICES ASSUME NEW t \in Threads, Executing(t)
               PROVE  /\ jobs'[job'[exec[t].obj].name] = exec[t].obj
                      /\ job'[exec[t].obj].name \notin LeaseNames
                      /\ job'[exec[t].obj].running /\ isRunning'[job'[exec[t].obj].name]
    BY <1>3 DEF Tracked
  <2>1. exec[t].obj \in Objs \ {o}  BY <1>1
  <2>2. job[exec[t].obj].name \in Names  BY <2>1 DEF Jobs
  <2> QED  BY <2>1, <2>2 DEF Tracked
<1>8. Backed'
  <2> SUFFICES ASSUME NEW m \in Names \ LeaseNames,
                      isRunning'[m] \/ (m \in Registered' /\ job'[jobs'[m]].running)
               PROVE  Executed(jobs'[m])
    BY <1>3 DEF Backed
  <2>1. m # n /\ m \notin V  BY <1>4
  <2>2. isRunning[m] \/ (m \in Registered /\ job[jobs[m]].running)  BY <1>4, <1>5, <2>1
  <2> QED  BY <2>1, <2>2 DEF Backed
<1>9. OneExecutor'  BY <1>3 DEF OneExecutor
<1>10. LeaseBusy'  BY <1>4 DEF LeaseBusy
<1>11. Placed'
  <2> SUFFICES ASSUME NEW x \in Objs, heap'[x] > 0
               PROVE  jobs'[job'[x].name] = x /\ job'[x].name \notin LeaseNames
    BY <1>2 DEF Placed, Waits
  <2>1. CASE x = o  BY <2>1
  <2>2. CASE x # o
    <3>1. job[x].name \in Names  BY DEF Jobs
    <3> QED  BY <2>2, <3>1 DEF Placed, Waits
  <2> QED  BY <2>1, <2>2
<1>12. Once'
  <2>1. Counts'  BY <1>1, <1>2 DEF Once, Counts
  <2>2. \A x \in Objs : Executed(x) => ~(Waits(x)')
    BY <1>1, <1>2 DEF Once, Waits, Executed
  <2> QED  BY <1>3, <2>1, <2>2 DEF Once
<1>13. DeferredInPass'  BY <1>2 DEF DeferredInPass
<1>14. NeverCancelled'
  <2> SUFFICES ASSUME NEW m \in Registered' PROVE job'[jobs'[m]].state # "CANCELLED"
    BY DEF NeverCancelled
  <2>1. CASE m = n  BY <2>1
  <2>2. CASE m # n
    <3>1. m \in Registered \ V /\ \A v \in V : jobs[v] # jobs[m]
      BY <1>4, <1>5, <2>2 DEF NamesMatch, Registered
    <3> QED  BY <1>5, <2>2, <3>1 DEF NeverCancelled
  <2> QED  BY <2>1, <2>2
<1>15. InReach'
  <2> SUFFICES ASSUME NEW m \in Registered' \ LeaseNames, job'[jobs'[m]].set.enabled
               PROVE  heap'[jobs'[m]] > 0 \/ Executed(jobs'[m])
    BY <1>3 DEF InReach, Waits
  <2>1. CASE m = n  BY <2>1
  <2>2. CASE m # n
    <3>1. m \in Registered \ V  BY <1>4, <2>2
    <3> QED  BY <1>2, <1>5, <2>2, <3>1 DEF InReach, Waits
  <2> QED  BY <2>1, <2>2
<1> QED
  BY <1>6, <1>7, <1>8, <1>9, <1>10, <1>11, <1>12, <1>13, <1>14, <1>15

LEMMA RegisterNewKeeps ==
    ASSUME TypeOK, GInv, NEW n \in Names \ LeaseNames, NEW s \in Registrations[n], NEW p \in WithParams,
           NEW o \in Objs, RegisterNew(n, s, p, o)
    PROVE  GInv'
<1> USE Facts DEF registry, resources, scheduler
<1>1. o \in Unused /\ LockFree /\ (n \in Registered => ~Busy(n))  BY DEF RegisterNew
<1>2. \A t \in Threads : Executing(t) => job[exec[t].obj].name \notin {} \cup {n}
  BY <1>1, NotBusy
<1>3. ~isRunning[n]  BY <1>1, NotRunning
<1>4. heap'[o] = 1 /\ \A x \in Objs \ {o} : heap'[x] = IF job[x].name \in {} \cup {n} THEN 0 ELSE heap[x]
  <2>1. heap[o] = 0  BY <1>1 DEF Unused
  <2>2. CASE n \in Registered
    BY <2>1, <2>2 DEF RegisterNew, Push, RemoveFromHeap
  <2>3. CASE n \notin Registered
    <3>1. \A x \in Objs : job[x].name = n => heap[x] = 0
      BY <2>3 DEF GInv, Placed, Waits, Registered
    <3> QED  BY <2>1, <2>3, <3>1 DEF RegisterNew, Push
  <2> QED  BY <2>2, <2>3
<1>5. /\ job'[o].name = n /\ ~job'[o].running /\ job'[o].state = "QUEUED"
      /\ \A x \in Objs \ {o} : job'[x] = job[x]
  BY DEF RegisterNew, NewJob
<1>6. UNCHANGED <<deferred, exec, loop>>  BY DEF RegisterNew
<1>7. /\ \A m \in Names : jobs'[m] = IF m = n THEN o ELSE IF m \in {} THEN NoJob ELSE jobs[m]
      /\ \A m \in Names : isRunning'[m] = (isRunning[m] /\ m \notin {})
  BY DEF RegisterNew
<1>8. NewJobIn(n, o, {})  BY <1>1, <1>2, <1>3, <1>4, <1>5, <1>6, <1>7 DEF NewJobIn
<1> QED  BY <1>8, NewJobKeeps

LEMMA RegisterEvictingKeeps ==
    ASSUME TypeOK, GInv, NEW n \in Names \ LeaseNames, NEW s \in Registrations[n], NEW p \in WithParams,
           NEW o \in Objs, NEW victim \in Names, RegisterEvicting(n, s, p, o, victim)
    PROVE  GInv'
<1> USE Facts DEF registry, resources, scheduler
<1>1. o \in Unused /\ LockFree /\ n \notin Registered
  BY DEF RegisterEvicting
<1>2. victim \in Registered /\ ~job[jobs[victim]].running /\ victim # n
  BY <1>1 DEF RegisterEvicting, Evictable
<1>3. \A t \in Threads : Executing(t) => job[exec[t].obj].name \notin {victim} \cup {n}
  <2>1. \A t \in Threads : Executing(t) => job[exec[t].obj].name # n  BY <1>1, NotBusy
  <2> QED  BY <1>2, <2>1 DEF GInv, Tracked
<1>4. ~isRunning[n]  BY <1>1, NotRunning
<1>5. heap'[o] = 1 /\ \A x \in Objs \ {o} : heap'[x] = IF job[x].name \in {victim} \cup {n} THEN 0 ELSE heap[x]
  <2>1. heap[o] = 0  BY <1>1 DEF Unused
  <2>2. \A x \in Objs : job[x].name = n => heap[x] = 0
    BY <1>1 DEF GInv, Placed, Waits, Registered
  <2> QED  BY <2>1, <2>2 DEF RegisterEvicting, Push, RemoveFromHeap
<1>6. job' = [job EXCEPT ![o] = NewJob(n, s, p), ![jobs[victim]].state = "CANCELLED"]
  BY DEF RegisterEvicting
<1>7. jobs[victim] \in Objs /\ jobs[victim] # o  BY <1>1, <1>2 DEF Unused
<1>8. /\ job'[o].name = n /\ ~job'[o].running /\ job'[o].state = "QUEUED"
      /\ \A x \in Objs \ {o} : /\ job'[x].name = job[x].name
                               /\ job'[x].running = job[x].running
                               /\ job'[x].set = job[x].set
                               /\ job'[x].state = job[x].state \/ \E m \in {victim} : x = jobs[m]
  <2>1. job'[o] = NewJob(n, s, p)  BY <1>6, <1>7
  <2>2. \A x \in Objs \ {o} : /\ x # jobs[victim] => job'[x] = job[x]
                              /\ x = jobs[victim] => job'[x] = [job[x] EXCEPT !.state = "CANCELLED"]
    BY <1>6, <1>7
  <2>3. \A x \in Objs : LET y == [job[x] EXCEPT !.state = "CANCELLED"] IN
            y.name = job[x].name /\ y.running = job[x].running /\ y.set = job[x].set
    BY DEF Jobs
  <2>4. ASSUME NEW x \in Objs \ {o}
        PROVE  /\ job'[x].name = job[x].name /\ job'[x].running = job[x].running
               /\ job'[x].set = job[x].set
               /\ job'[x].state = job[x].state \/ \E m \in {victim} : x = jobs[m]
    BY <2>2, <2>3
  <2>5. job'[o].name = n /\ ~job'[o].running /\ job'[o].state = "QUEUED"  BY <2>1 DEF NewJob
  <2> QED  BY <2>4, <2>5
<1>9. UNCHANGED <<deferred, exec, loop>>  BY DEF RegisterEvicting
<1>10. /\ \A m \in Names : jobs'[m] = IF m = n THEN o ELSE IF m \in {victim} THEN NoJob ELSE jobs[m]
       /\ \A m \in Names : isRunning'[m] = (isRunning[m] /\ m \notin {victim})
  BY <1>2 DEF RegisterEvicting
<1>11. NewJobIn(n, o, {victim})
  BY <1>1, <1>2, <1>3, <1>4, <1>5, <1>8, <1>9, <1>10 DEF NewJobIn
<1> QED  BY <1>11, NewJobKeeps

LEMMA AcceptedTriggerKeeps ==
    ASSUME TypeOK, GInv, NEW n \in Names, NEW p \in BOOLEAN, Trigger(n, p), CanExecute(jobs[n])
    PROVE  GInv'
<1> USE Facts DEF GInv, registry, resources, scheduler
<1> DEFINE o == jobs[n]
<1>1. n \in Registered /\ o \in Objs /\ job[o].name = n /\ ~Busy(n) /\ LockFree
  BY DEF Trigger, NamesMatch
<1>2. n \notin LeaseNames  BY <1>1 DEF LeaseBusy, Busy
<1>3. ~Executed(o)
  <2>1. \A t \in Threads : Executing(t) => job[exec[t].obj].name # n  BY <1>1, NotBusy
  <2> QED  BY <1>1, <2>1 DEF Executed
<1>4. PICK a, d : job' = [job EXCEPT ![o].params = a, ![o].due = d]
  BY DEF Trigger
<1>5. \A x \in Objs : /\ job'[x].name = job[x].name
                      /\ job'[x].running = job[x].running
                      /\ job'[x].set = job[x].set
                      /\ job'[x].state = job[x].state
  <2> HIDE DEF o
  <2> QED  BY <1>1, <1>4 DEF Jobs
<1>6. UNCHANGED <<jobs, isRunning, deferred, exec, loop>>  BY DEF Trigger
<1>7. \A x \in Objs : heap'[x] = IF x = o THEN 1 ELSE IF job[x].name = n THEN 0 ELSE heap[x]
  <2>1. heap' = [RemoveFromHeap(n) EXCEPT ![o] = @ + 1]  BY DEF Trigger, Push
  <2>2. o \in Objs /\ job[o].name = n  BY <1>1
  <2> HIDE DEF o
  <2> QED  BY <2>1, <2>2 DEF RemoveFromHeap
<1>8. \A x \in Objs \ {o} : job[x].name = n => heap[x] = 0  BY <1>1 DEF Placed, Waits
<1>9. \A x \in Objs : deferred[x] = 0  BY <1>1 DEF DeferredInPass
<1> HIDE DEF o
<1>10. (\A t \in Threads : Executing(t)' <=> Executing(t)) /\ (\A x : Executed(x)' <=> Executed(x))
       /\ Registered' = Registered
  BY <1>6 DEF Executing, Executed, Registered
<1>11. NamesMatch' /\ LeaseBusy' /\ NeverCancelled'
  BY <1>5, <1>6, <1>10 DEF NamesMatch, LeaseBusy, NeverCancelled
<1>12. Tracked' /\ OneExecutor'  BY <1>5, <1>6, <1>10 DEF Tracked, OneExecutor
<1>13. Backed'  BY <1>5, <1>6, <1>10 DEF Backed
<1>14. Placed'
  <2>1. jobs[job[o].name] = o  BY <1>1 DEF o
  <2> QED  BY <1>1, <1>2, <1>5, <1>6, <1>7, <1>9, <2>1 DEF Placed, Waits
<1>15. Once' /\ DeferredInPass'
  BY <1>1, <1>3, <1>6, <1>7, <1>9, <1>10 DEF Once, Counts, Waits, DeferredInPass
<1>16. InReach'
  BY <1>5, <1>6, <1>7, <1>8, <1>9, <1>10 DEF InReach, Waits
<1> QED
  BY <1>11, <1>12, <1>13, <1>14, <1>15, <1>16

-----------------------------------------------------------------------------
(* The scheduler's pass *)

LEMMA DiscardKeeps ==
    ASSUME TypeOK, GInv, NEW l \in Loops, NEW o \in Objs, Discard(l, o)
    PROVE  GInv'
<1> USE Facts DEF GInv, registry, resources, scheduler
<1>1. /\ UNCHANGED <<jobs, job, isRunning, deferred, exec, loop>>
      /\ heap' = [heap EXCEPT ![o] = @ - 1] /\ heap[o] > 0 /\ ~Runnable(o)
  BY DEF Discard, Pop, Popped
<1>2. (\A t \in Threads : Executing(t)' <=> Executing(t)) /\ (\A x : Executed(x)' <=> Executed(x))
      /\ Registered' = Registered
  BY <1>1 DEF Executing, Executed, Registered
<1>3. NamesMatch' /\ LeaseBusy' /\ NeverCancelled' /\ DeferredInPass'
  BY <1>1, <1>2 DEF NamesMatch, LeaseBusy, NeverCancelled, DeferredInPass, LockFree
<1>4. Tracked' /\ OneExecutor' /\ Backed'  BY <1>1, <1>2 DEF Tracked, OneExecutor, Backed
<1>5. Placed' /\ Once'  BY <1>1, <1>2 DEF Placed, Once, Counts, Waits
<1>6. job[o].running => Executed(o)
  <2>1. jobs[job[o].name] = o /\ job[o].name \in Names \ LeaseNames
    BY <1>1 DEF Placed, Waits, Jobs
  <2> QED  BY <2>1 DEF Backed, Registered
<1>7. InReach'
  BY <1>1, <1>2, <1>6 DEF InReach, Waits, Runnable
<1> QED  BY <1>3, <1>4, <1>5, <1>7

LEMMA DispatchKeeps ==
    ASSUME TypeOK, GInv, NEW l \in Loops, NEW o \in Objs, NEW t \in Threads, Dispatch(l, o, t)
    PROVE  GInv'
<1> USE Facts DEF GInv, registry, resources, scheduler
<1> DEFINE n == job[o].name
<1>1. /\ UNCHANGED <<jobs, deferred, loop>> /\ heap' = [heap EXCEPT ![o] = @ - 1] /\ heap[o] > 0
      /\ isRunning' = [isRunning EXCEPT ![n] = TRUE] /\ ~job[o].running /\ ~Executing(t)
  BY DEF Dispatch, Pop, Popped, Runnable
<1>2. /\ exec'[t].obj = o /\ Executing(t)'
      /\ \A u \in Threads \ {t} : exec'[u] = exec[u]
  BY DEF Dispatch, Executing
<1>3. /\ job'[o].name = n /\ job'[o].set = job[o].set /\ job'[o].running /\ job'[o].state = "RUNNING"
      /\ \A x \in Objs \ {o} : job'[x] = job[x]
  BY DEF Dispatch, Jobs
<1>4. jobs[n] = o /\ n \in Names \ LeaseNames  BY <1>1 DEF Placed, Waits, Jobs
<1>5. ~Executed(o) /\ heap[o] = 1 /\ deferred[o] = 0  BY <1>1 DEF Once, Counts, Waits
<1>6. Registered' = Registered /\ n \in Registered /\ Registered \subseteq Names
  BY <1>1, <1>4 DEF Registered
<1>7. /\ \A u \in Threads \ {t} : Executing(u)' <=> Executing(u)
      /\ \A x : Executed(x)' <=> x = o \/ Executed(x)
  BY <1>1, <1>2 DEF Executing, Executed
<1> HIDE DEF n
<1>8. \A m \in Registered : m # n => jobs[m] # o  BY <1>3 DEF n, NamesMatch
<1>9. NamesMatch'  BY <1>1, <1>3, <1>6, <1>8 DEF NamesMatch, n
<1>10. Tracked'
  <2> SUFFICES ASSUME NEW u \in Threads, Executing(u)'
               PROVE  /\ jobs[job'[exec'[u].obj].name] = exec'[u].obj
                      /\ job'[exec'[u].obj].name \notin LeaseNames
                      /\ job'[exec'[u].obj].running /\ isRunning'[job'[exec'[u].obj].name]
    BY <1>1 DEF Tracked
  <2>1. CASE u = t  BY <1>1, <1>2, <1>3, <1>4, <2>1
  <2>2. CASE u # t
    <3>1. Executing(u) /\ exec'[u].obj = exec[u].obj /\ exec[u].obj \in Objs \ {o}
      BY <1>2, <1>5, <1>7, <2>2 DEF Executed
    <3>2. job[exec[u].obj].name \in Names  BY <3>1 DEF Jobs
    <3> QED  BY <1>1, <1>3, <1>4, <3>1, <3>2 DEF Tracked
  <2> QED  BY <2>1, <2>2
<1>11. Backed'
  <2> SUFFICES ASSUME NEW m \in Names \ LeaseNames, m # n,
                      isRunning'[m] \/ (m \in Registered /\ job'[jobs[m]].running)
               PROVE  Executed(jobs[m])
    BY <1>1, <1>4, <1>6, <1>7 DEF Backed
  <2> QED  BY <1>1, <1>3, <1>8 DEF Backed
<1>12. OneExecutor'
  <2> SUFFICES ASSUME NEW u \in Threads, NEW v \in Threads, Executing(u)', exec'[u].obj = exec'[v].obj
               PROVE  u = v
    BY DEF OneExecutor
  <2>1. \A w \in Threads \ {t} : Executing(w) => exec[w].obj # o  BY <1>5 DEF Executed
  <2>2. CASE u = t \/ v = t
    <3>1. ASSUME NEW w \in Threads \ {t} PROVE exec'[w].obj # o
      <4>1. exec'[w].obj = exec[w].obj  BY <1>2
      <4>2. exec[w].obj # NoJob => Executing(w)  BY TypeParts DEF ExecOK
      <4> QED  BY <2>1, <4>1, <4>2
    <3> QED  BY <1>2, <2>2, <3>1
  <2>3. CASE u # t /\ v # t  BY <1>2, <1>7, <2>3 DEF OneExecutor
  <2> QED  BY <2>2, <2>3
<1>13. LeaseBusy'  BY <1>1, <1>6 DEF LeaseBusy
<1>14. Placed' /\ DeferredInPass'
  BY <1>1, <1>3, <1>4 DEF Placed, Waits, DeferredInPass, LockFree
<1>15. Once'  BY <1>1, <1>5, <1>7 DEF Once, Counts, Waits
<1>16. NeverCancelled'  BY <1>1, <1>3, <1>6, <1>8 DEF NeverCancelled
<1>17. InReach'
  <2> SUFFICES ASSUME NEW m \in Registered \ LeaseNames, jobs[m] # o, job'[jobs[m]].set.enabled
               PROVE  heap'[jobs[m]] > 0 \/ deferred[jobs[m]] > 0 \/ Executed(jobs[m])
    BY <1>1, <1>6, <1>7 DEF InReach, Waits
  <2> QED  BY <1>1, <1>3 DEF InReach, Waits
<1> QED
  BY <1>9, <1>10, <1>11, <1>12, <1>13, <1>14, <1>15, <1>16, <1>17

-----------------------------------------------------------------------------
(* The end of a run, and leases *)

LEMMA FinalizeKeeps ==
    ASSUME TypeOK, GInv, NEW t \in Threads, Finalize(t)
    PROVE  GInv'
<1> USE Facts DEF GInv, registry, resources, scheduler
<1> DEFINE o == exec[t].obj
           n == job[o].name
           After(x) == \E u \in Threads : Executing(u)' /\ exec'[u].obj = x
<1>1. /\ UNCHANGED <<deferred, loop, lease>> /\ LockFree /\ Executing(t)
      /\ isRunning' = [isRunning EXCEPT ![n] = FALSE]
      /\ exec' = [exec EXCEPT ![t] = Idle]
      /\ heap' = IF Requeued(o) THEN Push(heap, o) ELSE IF Retired(o) THEN RemoveFromHeap(n) ELSE heap
      /\ jobs' = IF Retired(o) THEN [jobs EXCEPT ![n] = NoJob] ELSE jobs
  BY DEF Finalize, Executing
<1>2. o \in Objs /\ n \in Names \ LeaseNames /\ jobs[n] = o /\ n \in Registered
  BY <1>1 DEF Tracked, Jobs, Registered
<1>3. heap[o] = 0 /\ \A x \in Objs : deferred[x] = 0
  BY <1>1, <1>2 DEF Once, Waits, DeferredInPass, Executed
<1>4. job[o].state # "CANCELLED"  BY <1>2 DEF NeverCancelled
<1>5. /\ job'[o].name = n /\ job'[o].set = job[o].set /\ ~job'[o].running
      /\ job'[o].state # "CANCELLED"
      /\ \A x \in Objs \ {o} : job'[x] = job[x]
  <2>1. PICK s \in Statuses, d \in BOOLEAN :
            /\ s # "CANCELLED"
            /\ job' = [job EXCEPT ![o].running = FALSE, ![o].params = FALSE, ![o].state = s, ![o].due = d]
    BY <1>2, <1>4 DEF Finalize, Jobs, Statuses
  <2>2. o \in Objs  BY <1>2
  <2> HIDE DEF o
  <2> QED  BY <2>1, <2>2 DEF n, Jobs
<1>6. Requeued(o) \/ Retired(o) \/ ~job[o].set.enabled
  BY <1>4 DEF Requeued, Retired
<1>7. \A x \in Objs : heap'[x] = IF x = o THEN (IF Requeued(o) THEN 1 ELSE 0) ELSE heap[x]
  <2>1. \A x \in Objs \ {o} : job[x].name = n => heap[x] = 0
    BY <1>2 DEF Placed, Waits
  <2>2. CASE Requeued(o)  BY <1>1, <1>2, <1>3, <2>2 DEF Push
  <2>3. CASE ~Requeued(o) /\ Retired(o)  BY <1>1, <1>2, <1>3, <2>1, <2>3 DEF RemoveFromHeap
  <2>4. CASE ~Requeued(o) /\ ~Retired(o)  BY <1>1, <1>2, <1>3, <2>4
  <2> QED  BY <2>2, <2>3, <2>4
<1>8. ~(Requeued(o) /\ Retired(o))  BY DEF Requeued, Retired
<1>9. \A m \in Names : jobs'[m] = IF m = n /\ Retired(o) THEN NoJob ELSE jobs[m]
  BY <1>1, <1>2
<1>10. /\ \A m \in Names \ {n} : m \in Registered' <=> m \in Registered
       /\ n \in Registered' <=> ~Retired(o)
       /\ Registered' \subseteq Names
  BY <1>2, <1>9 DEF Registered
<1>11. /\ ~(Executing(t)') /\ \A u \in Threads \ {t} : exec'[u] = exec[u] /\ (Executing(u)' <=> Executing(u))
       /\ \A x \in Objs \ {o} : After(x) <=> Executed(x)
       /\ ~After(o)
  BY <1>1, <1>2 DEF Executing, Executed, Idle, OneExecutor
<1>12. \A m \in Registered : m # n => jobs[m] # o  BY DEF NamesMatch
<1> HIDE DEF n, o, After
<1>13. NamesMatch'  BY <1>5, <1>9, <1>10, <1>12, <1>2 DEF NamesMatch
<1>14. Tracked'
  <2> SUFFICES ASSUME NEW u \in Threads, Executing(u)'
               PROVE  /\ jobs'[job'[exec'[u].obj].name] = exec'[u].obj
                      /\ job'[exec'[u].obj].name \notin LeaseNames
                      /\ job'[exec'[u].obj].running /\ isRunning'[job'[exec'[u].obj].name]
    BY DEF Tracked
  <2>1. u # t /\ Executing(u) /\ exec'[u].obj = exec[u].obj  BY <1>11
  <2>2. exec[u].obj \in Objs \ {o}  BY <1>1, <2>1 DEF OneExecutor, o
  <2>3. job[exec[u].obj].name \in Names \ {n}
    BY <1>2, <2>1, <2>2 DEF Tracked, Jobs
  <2> QED  BY <1>1, <1>5, <1>9, <2>1, <2>2, <2>3 DEF Tracked
<1>15. Backed'
  <2> SUFFICES ASSUME NEW m \in Names \ LeaseNames,
                      isRunning'[m] \/ (m \in Registered' /\ job'[jobs'[m]].running)
               PROVE  After(jobs'[m])
    BY DEF Backed, Executed, After
  <2>1. m # n  BY <1>1, <1>2, <1>5, <1>9, <1>10
  <2>2. isRunning[m] \/ (m \in Registered /\ job[jobs[m]].running)
    BY <1>1, <1>5, <1>9, <1>10, <1>12, <2>1
  <2>3. Executed(jobs[m])  BY <2>2 DEF Backed
  <2>4. jobs[m] \in Objs \ {o}  BY <1>12, <2>1, <2>3 DEF Executed, Registered
  <2> QED  BY <1>9, <1>11, <2>1, <2>3, <2>4
<1>16. OneExecutor'
  <2> SUFFICES ASSUME NEW u \in Threads, NEW v \in Threads, Executing(u)', exec'[u].obj = exec'[v].obj
               PROVE  u = v
    BY DEF OneExecutor
  <2>1. u # t /\ Executing(u) /\ exec'[u].obj = exec[u].obj /\ exec[u].obj # NoJob  BY <1>11
  <2>2. v # t  BY <1>1, <2>1 DEF Idle
  <2> QED  BY <1>11, <2>1, <2>2 DEF OneExecutor
<1>17. LeaseBusy'  BY <1>1, <1>2, <1>10 DEF LeaseBusy
<1>18. Placed'
  <2> SUFFICES ASSUME NEW x \in Objs, heap'[x] > 0
               PROVE  jobs'[job'[x].name] = x /\ job'[x].name \notin LeaseNames
    BY <1>1, <1>3 DEF Placed, Waits
  <2>1. CASE x = o  BY <1>2, <1>5, <1>7, <1>8, <1>9, <2>1
  <2>2. CASE x # o
    <3>1. job[x].name \in Names  BY DEF Jobs
    <3> QED  BY <1>2, <1>5, <1>7, <1>9, <2>2, <3>1 DEF Placed, Waits
  <2> QED  BY <2>1, <2>2
<1>19. Once' /\ DeferredInPass'
  <2>1. Counts'  BY <1>1, <1>3, <1>7 DEF Once, Counts
  <2>2. ASSUME NEW x \in Objs, After(x) PROVE ~(Waits(x)')
    <3>1. x # o /\ Executed(x)  BY <1>11, <2>2
    <3> QED  BY <1>1, <1>3, <1>7, <3>1 DEF Once, Waits
  <2> QED  BY <1>1, <1>3, <2>1, <2>2 DEF Once, Executed, After, DeferredInPass
<1>20. NeverCancelled'  BY <1>2, <1>5, <1>9, <1>10, <1>12 DEF NeverCancelled
<1>21. InReach'
  <2> SUFFICES ASSUME NEW m \in Registered' \ LeaseNames, job'[jobs'[m]].set.enabled
               PROVE  heap'[jobs'[m]] > 0 \/ After(jobs'[m])
    BY DEF InReach, Waits, Executed, After
  <2>1. CASE m = n  BY <1>2, <1>5, <1>6, <1>7, <1>9, <1>10, <2>1
  <2>2. CASE m # n
    <3>1. m \in Registered /\ jobs'[m] = jobs[m] /\ jobs[m] \in Objs \ {o}
      BY <1>9, <1>10, <1>12, <2>2
    <3> QED  BY <1>3, <1>5, <1>7, <1>11, <3>1 DEF InReach, Waits
  <2> QED  BY <2>1, <2>2
<1> QED
  BY <1>13, <1>14, <1>15, <1>16, <1>17, <1>18, <1>19, <1>20, <1>21

LEMMA LeasesKeep ==
    ASSUME TypeOK, GInv, NEW k \in Leasers, (\E o \in Objs : LeaseEnter(k, o)) \/ LeaseDrop(k)
    PROVE  GInv'
<1> USE Facts DEF GInv, registry, resources, scheduler
<1> DEFINE n == LeaseName[k]
<1>1. n \in Names /\ n \in LeaseNames  BY LeaseNameTyped DEF LeaseNames
<1>2. UNCHANGED <<heap, deferred, exec, loop>>  BY DEF LeaseEnter, LeaseDrop
<1> DEFINE Registry == /\ \A m \in Names \ {n} : jobs'[m] = jobs[m] /\ isRunning'[m] = isRunning[m]
                       /\ jobs'[n] # NoJob => isRunning'[n]
           Table == /\ \A x \in Objs \ Unused : job'[x] = job[x]
                    /\ jobs'[n] # NoJob => job'[jobs'[n]].name = n /\ job'[jobs'[n]].state = "RUNNING"
<1>3. Registry
  <2>1. CASE LeaseDrop(k)  BY <1>1, <2>1 DEF LeaseDrop
  <2>2. ASSUME NEW o \in Objs, LeaseEnter(k, o) PROVE Registry
    BY <1>1, <2>2 DEF LeaseEnter
  <2> QED  BY <2>1, <2>2
\* What is in use does not change, and the name leads to a running job of its own.
<1>4. Table
  <2>1. CASE LeaseDrop(k)  BY <1>1, <2>1 DEF LeaseDrop
  <2>2. ASSUME NEW o \in Objs, LeaseEnter(k, o) PROVE Table
    <3>1. o \in Unused /\ jobs'[n] = o
          /\ job'[o] = [NewJob(n, LeasedSettings, FALSE) EXCEPT !.state = "RUNNING", !.running = TRUE]
          /\ \A x \in Objs \ {o} : job'[x] = job[x]
      BY <1>1, <2>2 DEF LeaseEnter
    <3> QED  BY <3>1 DEF NewJob
  <2> QED  BY <2>1, <2>2
<1> HIDE DEF n
<1>5. /\ \A m \in Registered : jobs[m] \in Objs \ Unused
      /\ \A x \in Objs : Waits(x) => x \notin Unused
      /\ \A t \in Threads : Executing(t) => exec[t].obj \in Objs \ Unused
  BY DEF Unused, Waits, Registered
<1>6. /\ \A m \in Names \ {n} : m \in Registered' <=> m \in Registered
      /\ Registered' \subseteq Names /\ (n \in Registered' => jobs'[n] # NoJob)
  BY <1>3 DEF Registered
<1>7. (\A t \in Threads : Executing(t)' <=> Executing(t)) /\ (\A x : Executed(x)' <=> Executed(x))
  BY <1>2 DEF Executing, Executed
<1>8. NamesMatch' /\ NeverCancelled'
  BY <1>3, <1>4, <1>5, <1>6 DEF NamesMatch, NeverCancelled
<1>9. Tracked'
  <2> SUFFICES ASSUME NEW t \in Threads, Executing(t)
               PROVE  /\ jobs'[job'[exec[t].obj].name] = exec[t].obj
                      /\ job'[exec[t].obj].name \notin LeaseNames
                      /\ job'[exec[t].obj].running /\ isRunning'[job'[exec[t].obj].name]
    BY <1>2, <1>7 DEF Tracked
  <2>1. job[exec[t].obj].name \in Names \ {n}  BY <1>1 DEF Tracked, Jobs
  <2> QED  BY <1>3, <1>4, <1>5, <2>1 DEF Tracked
<1>10. Backed'
  <2> SUFFICES ASSUME NEW m \in Names \ LeaseNames,
                      isRunning'[m] \/ (m \in Registered /\ job'[jobs[m]].running)
               PROVE  Executed(jobs[m])
    BY <1>1, <1>3, <1>6, <1>7 DEF Backed
  <2> QED  BY <1>1, <1>3, <1>4, <1>5 DEF Backed
<1>11. OneExecutor' /\ DeferredInPass' /\ LeaseBusy'
  BY <1>2, <1>3, <1>6, <1>7 DEF OneExecutor, DeferredInPass, LockFree, LeaseBusy
<1>12. Placed'
  <2> SUFFICES ASSUME NEW x \in Objs, Waits(x)
               PROVE  jobs'[job'[x].name] = x /\ job'[x].name \notin LeaseNames
    BY <1>2 DEF Placed, Waits
  <2>1. job[x].name \in Names \ {n}  BY <1>1 DEF Placed, Jobs
  <2> QED  BY <1>3, <1>4, <1>5, <2>1 DEF Placed
<1>13. Once'  BY <1>2, <1>7 DEF Once, Counts, Waits
<1>14. InReach'
  <2> SUFFICES ASSUME NEW m \in Registered \ LeaseNames, job'[jobs[m]].set.enabled
               PROVE  Waits(jobs[m]) \/ Executed(jobs[m])
    BY <1>1, <1>2, <1>3, <1>6, <1>7 DEF InReach, Waits
  <2> QED  BY <1>4, <1>5 DEF InReach
<1> QED  BY <1>8, <1>9, <1>10, <1>11, <1>12, <1>13, <1>14

-----------------------------------------------------------------------------
LEMMA InitGInv == Init => GInv
<1> SUFFICES ASSUME Init PROVE GInv  OBVIOUS
<1>1. Registered = {} /\ \A t \in Threads : ~Executing(t)
  BY DEF Init, Registered, Executing, Idle
<1>2. \A o \in Objs : heap[o] = 0 /\ deferred[o] = 0  BY DEF Init
<1>3. NamesMatch /\ Tracked /\ OneExecutor /\ LeaseBusy /\ NeverCancelled /\ InReach
  BY <1>1 DEF NamesMatch, Tracked, OneExecutor, LeaseBusy, NeverCancelled, InReach
<1>4. Backed  BY <1>1 DEF Init, Backed
<1>5. Placed /\ Once /\ DeferredInPass
  BY <1>1, <1>2 DEF Placed, Once, Counts, DeferredInPass, Waits
<1> QED  BY <1>3, <1>4, <1>5 DEF GInv

LEMMA StepGInv == IInv /\ GInv /\ [Undisturbed]_vars => GInv'
<1> SUFFICES ASSUME TypeOK, Selected, GInv, [Undisturbed]_vars PROVE GInv'  BY DEF IInv
<1>1. ASSUME NEW n \in Names \ LeaseNames, Register(n) PROVE GInv'
  BY <1>1, RegisterRunningQuiet, QuietKeeps, RegisterNewKeeps, RegisterEvictingKeeps DEF Register
<1>2. ASSUME NEW n \in Names, NEW p \in WithParams, Trigger(n, p) PROVE GInv'
  <2>1. p \in BOOLEAN  BY QueueAssumption DEF QueueAssumption
  <2> QED  BY <1>2, <2>1, AcceptedTriggerKeeps, RefusedTriggerQuiet, QuietKeeps
<1>3. CASE Leasing
  BY <1>3, LeasesKeep, LeaseExitQuiet, QuietKeeps DEF Leasing
<1>4. CASE Around \/ StartStop \/ Pausing
  BY <1>4, AroundQuiet, QuietKeeps
<1>5. ASSUME NEW l \in Loops, Pass(l) PROVE GInv'
  <2>1. CASE BeginPass(l) \/ Repeat(l)  BY <2>1, PassQuiet, QuietKeeps
  <2>2. CASE EndPass(l)  BY <2>2, EndPassQuiet, QuietKeeps
  <2>3. ASSUME NEW o \in Objs, Discard(l, o) \/ Refuse(l, o) \/ Postpone(l, o) PROVE GInv'
    BY <2>3, DiscardKeeps, DeferralQuiet, QuietKeeps
  <2>4. ASSUME NEW o \in Objs, NEW t \in Threads, Dispatch(l, o, t) PROVE GInv'
    BY <2>4, DispatchKeeps
  <2>5. ASSUME NEW t \in Threads, Launch(l, t) PROVE GInv'
    BY <2>5, ThreadsQuiet, QuietKeeps
  <2> QED  BY <1>5, <2>1, <2>2, <2>3, <2>4, <2>5 DEF Pass
<1>6. ASSUME NEW t \in Threads, Work(t) PROVE GInv'
  BY <1>6, ThreadsQuiet, QuietKeeps, FinalizeKeeps DEF Work
<1>7. CASE UNCHANGED vars
  <2>1. Quiet /\ Still  BY <1>7 DEF vars, Quiet, Still, SameExecs, Executing, LockFree
  <2> QED  BY <2>1, QuietKeeps
<1> QED  BY <1>1, <1>2, <1>3, <1>4, <1>5, <1>6, <1>7 DEF Undisturbed, Submitting

LEMMA Ordered == UndisturbedSpec => [](IInv /\ GInv)
<1>1. Init => IInv /\ GInv  BY InitIInv, InitGInv
<1>2. IInv /\ GInv /\ [Undisturbed]_vars => IInv' /\ GInv'
  <2>1. [Undisturbed]_vars => [Next]_vars  BY DEF Next
  <2> QED  BY <2>1, StepGInv, StepTypeOK, StepSelected DEF IInv
<1> QED  BY <1>1, <1>2, PTL DEF UndisturbedSpec

-----------------------------------------------------------------------------
(* What follows from the invariant *)

\* A name is executed by one thread at a time, although the deduplication of
\* register_job, the check of execute_job_now and that of the loop each read a
\* different record of what runs.
THEOREM OneExecution == UndisturbedSpec => []SingleExecution
<1>1. TypeOK /\ GInv => SingleExecution
  <2> SUFFICES ASSUME TypeOK, GInv, NEW t \in Threads, NEW u \in Threads, Executing(t), Executing(u),
                      job[exec[t].obj].name = job[exec[u].obj].name
               PROVE  t = u
    BY DEF SingleExecution
  <2>1. exec[t].obj = exec[u].obj  BY DEF GInv, Tracked
  <2> QED  BY <2>1 DEF GInv, OneExecutor
<1> QED  BY <1>1, Ordered, PTL DEF IInv

\* Whatever waits in the heap is what its name leads to.
THEOREM QueuedReachable == UndisturbedSpec => []QueuedIsRegistered
<1>1. GInv => QueuedIsRegistered  BY DEF GInv, Placed, Waits, QueuedIsRegistered
<1> QED  BY <1>1, Ordered, PTL

\* No registered, enabled job is outside both the heap and the threads.
THEOREM NoneStranded == UndisturbedSpec => []NotStranded
<1>1. TypeOK /\ GInv => NotStranded
  <2> SUFFICES ASSUME TypeOK, GInv, NEW n \in Registered, n \notin LeaseNames, job[jobs[n]].set.enabled
               PROVE  heap[jobs[n]] + deferred[jobs[n]] > 0 \/ \E t \in Threads : exec[t].obj = jobs[n]
    BY DEF NotStranded
  <2>1. Waits(jobs[n]) \/ Executed(jobs[n])  BY DEF GInv, InReach
  <2>2. heap[jobs[n]] \in Nat /\ deferred[jobs[n]] \in Nat  BY Facts
  <2> QED  BY <2>1, <2>2 DEF Waits, Executed
<1> QED  BY <1>1, Ordered, PTL DEF IInv

\* What a dispatch finds: the job passes the gate, and no other thread executes
\* a job the gate would have seen.
LEMMA DispatchGated ==
    ASSUME TypeOK, GInv, NEW l \in Loops, NEW o \in Objs, NEW t \in Threads, Dispatch(l, o, t),
           NEW u \in Threads, Executing(u)
    PROVE  /\ IsWrite(o) => ~IsWrite(exec[u].obj)
           /\ job[o].name \in SyncNames => job[exec[u].obj].name \notin ImportNames
           /\ job[o].name \in ImportNames \ SyncNames => job[exec[u].obj].name \notin SyncNames
<1> DEFINE x == exec[u].obj
           n == job[x].name
<1>1. x \in Objs /\ n \in Names /\ jobs[n] = x /\ job[x].running /\ isRunning[n]
  BY Facts DEF GInv, Tracked, Jobs
<1>2. n \in Registered  BY <1>1, Facts DEF Registered
<1>3. IsWrite(x) => WriteHeavyRunning  BY <1>1, <1>2 DEF WriteHeavyRunning
<1>4. \A S : n \in S => NameRunning(S)  BY <1>1 DEF NameRunning
<1> QED  BY <1>3, <1>4 DEF Dispatch, CanExecute

\* How the executions of a step relate to those before it.
LEMMA StepOnExecutions ==
    ASSUME TypeOK, TypeOK', GInv, [Undisturbed]_vars
    PROVE  \/ /\ \A t \in Threads : Executing(t)' => Executing(t) /\ exec'[t].obj = exec[t].obj
              /\ \A t \in Threads : Executing(t)' => LabelKept(exec[t].obj)
           \/ \E l \in Loops, o \in Objs, t \in Threads :
                 /\ Dispatch(l, o, t) /\ exec'[t].obj = o /\ ~Executing(t) /\ LabelKept(o)
                 /\ \A u \in Threads \ {t} : Executing(u)' =>
                       Executing(u) /\ exec'[u].obj = exec[u].obj /\ LabelKept(exec[u].obj)
<1>1. [Next]_vars  BY DEF Next
<1>2. \A t \in Threads : Executing(t) => LabelKept(exec[t].obj)
  <2>1. \A t \in Threads : Executing(t) => exec[t].obj \in Objs \ Unused  BY Facts DEF Unused
  <2> QED  BY <1>1, <2>1, StepLabels
<1>3. CASE \E l \in Loops, o \in Objs, t \in Threads : Dispatch(l, o, t)
  <2>1. PICK l \in Loops, o \in Objs, t \in Threads : Dispatch(l, o, t)  BY <1>3
  <2>2. o \in Objs \ Unused  BY <2>1, Facts DEF Dispatch, Popped, Unused
  <2>3. LabelKept(o)  BY <1>1, <2>2, StepLabels
  <2>4. exec'[t].obj = o /\ ~Executing(t) /\ \A u \in Threads \ {t} : exec'[u] = exec[u]
    BY <2>1, Facts DEF Dispatch
  <2> QED  BY <1>2, <2>1, <2>3, <2>4 DEF Executing
<1>4. CASE \E t \in Threads : Finalize(t)
  <2>1. PICK t \in Threads : exec' = [exec EXCEPT ![t] = Idle]  BY <1>4 DEF Finalize
  <2>2. ~(Executing(t)') /\ \A u \in Threads \ {t} : exec'[u] = exec[u]  BY <2>1, Facts DEF Executing, Idle
  <2> QED  BY <1>2, <2>2 DEF Executing
<1>5. CASE ExecutionsKept \/ \E h \in Helpers : Help(h) \/ HelpEnds(h)
  <2>1. ExecutionsKept  BY <1>5 DEF ExecutionsKept, Help, HelpEnds
  <2> QED  BY <1>2, <2>1, TypeParts DEF ExecutionsKept, ExecOK
<1> QED  BY <1>1, <1>3, <1>4, <1>5, StepExecutions

\* At most one job of a write category is between dispatch and finalisation,
\* with any number of threads, slots and schedulers.
THEOREM WritersExcluded == UndisturbedSpec => []WriteExclusion
<1>1. Init => WriteExclusion  BY DEF Init, WriteExclusion, Executing, Idle
<1>2. ASSUME TypeOK, TypeOK', GInv, [Undisturbed]_vars, WriteExclusion PROVE WriteExclusion'
  <2> DEFINE Writes(x) == job[x].set.category \in WriteCategories
  <2> SUFFICES ASSUME NEW t \in Threads, NEW u \in Threads, Executing(t)', Executing(u)', t # u,
                      job'[exec'[t].obj].set.category \in WriteCategories,
                      job'[exec'[u].obj].set.category \in WriteCategories
               PROVE  FALSE
    BY DEF WriteExclusion
  <2>1. CASE \A v \in Threads : Executing(v)' => Executing(v) /\ exec'[v].obj = exec[v].obj /\ LabelKept(exec[v].obj)
    BY <1>2, <2>1 DEF WriteExclusion, LabelKept
  <2>2. ASSUME NEW l \in Loops, NEW o \in Objs, NEW v \in Threads, Dispatch(l, o, v), exec'[v].obj = o,
               LabelKept(o),
               \A w \in Threads \ {v} : Executing(w)' =>
                   Executing(w) /\ exec'[w].obj = exec[w].obj /\ LabelKept(exec[w].obj)
        PROVE  FALSE
    <3>1. \A w \in Threads : Executing(w) => (Writes(o) => ~Writes(exec[w].obj))
      BY <1>2, <2>2, DispatchGated DEF IsWrite
    <3>2. CASE t # v /\ u # v  BY <1>2, <2>2, <3>2 DEF WriteExclusion, LabelKept
    <3>3. CASE t = v \/ u = v  BY <2>2, <3>1, <3>3 DEF LabelKept
    <3> QED  BY <3>2, <3>3
  <2> QED  BY <1>2, <2>1, <2>2, StepOnExecutions
<1>3. IInv /\ IInv' /\ GInv /\ [Undisturbed]_vars /\ WriteExclusion => WriteExclusion'  BY <1>2 DEF IInv
<1> QED  BY <1>1, <1>3, Ordered, PTL DEF UndisturbedSpec

\* A sync of the library or an update of the database never runs beside an
\* import scan.
THEOREM SyncOrImport == UndisturbedSpec => []SyncImportExclusion
<1>1. Init => SyncImportExclusion  BY DEF Init, SyncImportExclusion, Executing, Idle
<1>2. ASSUME TypeOK, TypeOK', GInv, [Undisturbed]_vars, SyncImportExclusion PROVE SyncImportExclusion'
  <2> SUFFICES ASSUME NEW t \in Threads, NEW u \in Threads, Executing(t)', Executing(u)',
                      job'[exec'[t].obj].name \in SyncNames,
                      job'[exec'[u].obj].name \in ImportNames \ SyncNames
               PROVE  FALSE
    BY DEF SyncImportExclusion
  <2>1. CASE \A v \in Threads : Executing(v)' => Executing(v) /\ exec'[v].obj = exec[v].obj /\ LabelKept(exec[v].obj)
    BY <1>2, <2>1 DEF SyncImportExclusion, LabelKept
  <2>2. ASSUME NEW l \in Loops, NEW o \in Objs, NEW v \in Threads, Dispatch(l, o, v), exec'[v].obj = o,
               LabelKept(o),
               \A w \in Threads \ {v} : Executing(w)' =>
                   Executing(w) /\ exec'[w].obj = exec[w].obj /\ LabelKept(exec[w].obj)
        PROVE  FALSE
    <3>1. \A w \in Threads : Executing(w) =>
              /\ job[o].name \in SyncNames => job[exec[w].obj].name \notin ImportNames
              /\ job[o].name \in ImportNames \ SyncNames => job[exec[w].obj].name \notin SyncNames
      BY <1>2, <2>2, DispatchGated
    <3>2. CASE t # v /\ u # v  BY <1>2, <2>2, <3>2 DEF SyncImportExclusion, LabelKept
    <3>3. CASE t = v \/ u = v  BY <2>2, <3>1, <3>3 DEF LabelKept
    <3> QED  BY <3>2, <3>3
  <2> QED  BY <1>2, <2>1, <2>2, StepOnExecutions
<1>3. IInv /\ IInv' /\ GInv /\ [Undisturbed]_vars /\ SyncImportExclusion => SyncImportExclusion'
  BY <1>2 DEF IInv
<1> QED  BY <1>1, <1>3, Ordered, PTL DEF UndisturbedSpec

-----------------------------------------------------------------------------
(* Parameters of a waiting job *)

LEMMA StepParams ==
    ASSUME TypeOK, GInv, [Undisturbed]_vars, NEW x \in Objs \ Unused, job[x].params, ~Executed(x)
    PROVE  job'[x].params
<1> USE Facts DEF GInv
<1> DEFINE Kept == job'[x].params
<1>1. ASSUME NEW n \in Names \ LeaseNames, Register(n) PROVE Kept
  <2>1. PICK s \in Registrations[n], p \in WithParams :
            \/ RegisterRunning(n, s, p)
            \/ \E o \in Objs : RegisterNew(n, s, p, o)
            \/ \E o \in Objs, victim \in Names : RegisterEvicting(n, s, p, o, victim)
    BY <1>1 DEF Register
  <2>2. CASE RegisterRunning(n, s, p)
    <3>1. x # jobs[n]  BY <2>2 DEF RegisterRunning, Busy, Backed
    <3> QED  BY <2>2, <3>1 DEF RegisterRunning
  <2>3. ASSUME NEW o \in Objs, RegisterNew(n, s, p, o) PROVE Kept
    BY <2>3 DEF RegisterNew, Unused
  <2>4. ASSUME NEW o \in Objs, NEW victim \in Names, RegisterEvicting(n, s, p, o, victim) PROVE Kept
    BY <2>4 DEF RegisterEvicting, Unused, Jobs
  <2> QED  BY <2>1, <2>2, <2>3, <2>4
<1>2. ASSUME NEW n \in Names, NEW p \in WithParams, Trigger(n, p) PROVE Kept
  <2>1. jobs[n] \in Objs  BY <1>2 DEF Trigger
  <2>2. CASE CanExecute(jobs[n])
    <3>1. PICK d : job' = [job EXCEPT ![jobs[n]].params = MergedParams(jobs[n], p), ![jobs[n]].due = d]
      BY <1>2, <2>2 DEF Trigger
    <3>2. x = jobs[n] => MergedParams(jobs[n], p)  BY DEF MergedParams
    <3> QED  BY <2>1, <3>1, <3>2 DEF Jobs
  <2>3. CASE ~CanExecute(jobs[n])  BY <1>2, <2>1, <2>3, RefusedFields DEF Trigger
  <2> QED  BY <2>2, <2>3
<1>3. CASE Pausing  BY <1>3 DEF Pausing, Pause, Resume, Jobs
<1>4. CASE Leasing
  <2>1. ASSUME NEW k \in Leasers, NEW o \in Objs, LeaseEnter(k, o) PROVE Kept
    <3>1. o # x  BY <2>1 DEF LeaseEnter, Unused
    <3>2. PICK j : job' = [job EXCEPT ![o] = j]  BY <2>1 DEF LeaseEnter
    <3> QED  BY <3>1, <3>2
  <2>2. ASSUME NEW k \in Leasers, LeaseExit(k) PROVE Kept
    <3>1. CASE LeaseName[k] \notin Registered  BY <2>2, <3>1 DEF LeaseExit
    <3>2. CASE LeaseName[k] \in Registered
      <4>1. PICK ending : job' = [job EXCEPT ![jobs[LeaseName[k]]].state = ending,
                                             ![jobs[LeaseName[k]]].running = FALSE]
        BY <2>2, <3>2 DEF LeaseExit
      <4> QED  BY <3>2, <4>1 DEF Jobs
    <3> QED  BY <3>1, <3>2
  <2>3. ASSUME NEW k \in Leasers, LeaseDrop(k) PROVE Kept  BY <2>3 DEF LeaseDrop
  <2> QED  BY <1>4, <2>1, <2>2, <2>3 DEF Leasing
<1>5. CASE StartStop \/ Around
  BY <1>5 DEF StartStop, Start, Stop, Around, TimePasses, Help, HelpEnds, RequestRestart,
              PluginChanges, Jobs
<1>6. ASSUME NEW l \in Loops, Pass(l) PROVE Kept
  <2>1. CASE BeginPass(l) \/ EndPass(l) \/ Repeat(l) \/ \E u \in Threads : Launch(l, u)
    BY <2>1 DEF BeginPass, EndPass, Repeat, Launch
  <2>2. ASSUME NEW o \in Objs, Discard(l, o) \/ Refuse(l, o) \/ Postpone(l, o) PROVE Kept
    <3>1. CASE Discard(l, o)  BY <3>1 DEF Discard
    <3>2. CASE Refuse(l, o)  BY <3>2, RefusedFields DEF Refuse
    <3>3. CASE Postpone(l, o)  BY <3>3 DEF Postpone, Jobs
    <3> QED  BY <2>2, <3>1, <3>2, <3>3
  <2>3. ASSUME NEW o \in Objs, NEW u \in Threads, Dispatch(l, o, u) PROVE Kept
    BY <2>3 DEF Dispatch, Jobs
  <2> QED  BY <1>6, <2>1, <2>2, <2>3 DEF Pass
<1>7. ASSUME NEW u \in Threads, Work(u) PROVE Kept
  <2>1. exec[u].obj # x  BY <1>7 DEF Work, Return, Finalize, Executing, Executed
  <2> QED  BY <1>7, <2>1 DEF Work, Return, Finalize
<1>8. CASE UNCHANGED vars  BY <1>8 DEF vars
<1> QED  BY <1>1, <1>2, <1>3, <1>4, <1>5, <1>6, <1>7, <1>8 DEF Undisturbed, Submitting

\* A job that no execution has keeps the parameters of its triggers, wherever it waits.
THEOREM WaitingKeepsParams == UndisturbedSpec => ParamsKept
<1>1. IInv /\ GInv /\ [Undisturbed]_vars =>
          [\A o \in Objs \ Unused :
              job[o].params => job'[o].params \/ \E t \in Threads : exec[t].obj = o]_vars
  BY StepParams DEF IInv, Executed
<1> QED  BY <1>1, Ordered, PTL DEF UndisturbedSpec, ParamsKept

-----------------------------------------------------------------------------
(* Leased workflows *)

\* Two workflows that lease one name hide each other: the first to end
\* unregisters the object of the second.  Where each has a name of its own, the
\* gates see it as long as it works.
OwnLeases == \A k, m \in Leasers : LeaseName[k] = LeaseName[m] => k = m

LeaseSeen == \A k \in Leasers : lease[k] = "working" =>
    /\ LeaseName[k] \in Registered
    /\ job[jobs[LeaseName[k]]].running
    /\ job[jobs[LeaseName[k]]].set.category \in WriteCategories

LEMMA LeasePlaceKept ==
    ASSUME OwnLeases, TypeOK, GInv, [Undisturbed]_vars, NEW k \in Leasers, lease[k] = "working",
           LeaseName[k] \in Registered, job[jobs[LeaseName[k]]].running
    PROVE  LeaseExit(k) \/ (jobs'[LeaseName[k]] = jobs[LeaseName[k]] /\ job'[jobs[LeaseName[k]]].running)
<1> USE Facts DEF GInv, registry
<1> DEFINE n == LeaseName[k]
           x == jobs[n]
           Kept == jobs'[n] = x /\ job'[x].running
<1>0. /\ n \in LeaseNames /\ n \in Names /\ x \in Objs /\ x \notin Unused /\ job[x].name = n
      /\ job[x].running /\ n \in Registered
  BY DEF LeaseNames, Unused, NamesMatch
<1>00. \A m \in Leasers : LeaseName[m] = n => m = k  BY DEF OwnLeases
<1> HIDE DEF n, x
<1> USE <1>0
<1>1. ASSUME NEW m \in Names \ LeaseNames, Register(m) PROVE Kept
  <2>1. PICK s \in Registrations[m], p \in WithParams :
            \/ RegisterRunning(m, s, p)
            \/ \E o \in Objs : RegisterNew(m, s, p, o)
            \/ \E o \in Objs, victim \in Names : RegisterEvicting(m, s, p, o, victim)
    BY <1>1 DEF Register
  <2>2. CASE RegisterRunning(m, s, p)  BY <2>2 DEF RegisterRunning, Jobs, x
  <2>3. ASSUME NEW o \in Objs, RegisterNew(m, s, p, o) PROVE Kept
    BY <2>3 DEF RegisterNew, x
  <2>4. ASSUME NEW o \in Objs, NEW victim \in Names, RegisterEvicting(m, s, p, o, victim) PROVE Kept
    <3>1. victim # n /\ o # x  BY <2>4 DEF RegisterEvicting, Evictable, x
    <3>2. jobs[victim] # x  BY <2>4, <3>1 DEF NamesMatch, RegisterEvicting, Evictable, x
    <3> QED  BY <2>4, <3>1, <3>2 DEF RegisterEvicting, x
  <2> QED  BY <2>1, <2>2, <2>3, <2>4
<1>2. ASSUME NEW m \in Names, NEW p \in WithParams, Trigger(m, p) PROVE Kept
  <2>1. jobs[m] \in Objs  BY <1>2 DEF Trigger
  <2>2. CASE CanExecute(jobs[m])
    <3>1. PICK a, d : job' = [job EXCEPT ![jobs[m]].params = a, ![jobs[m]].due = d]
      BY <1>2, <2>2 DEF Trigger
    <3>2. job'[x].running  BY <2>1, <3>1 DEF Jobs
    <3>3. jobs'[n] = x  BY <1>2 DEF Trigger, x
    <3> QED  BY <3>2, <3>3
  <2>3. CASE ~CanExecute(jobs[m])  BY <1>2, <2>1, <2>3, RefusedFields DEF Trigger, x
  <2> QED  BY <2>2, <2>3
<1>3. CASE Pausing  BY <1>3 DEF Pausing, Pause, Resume, Jobs, x
<1>4. ASSUME NEW m \in Leasers, LeaseDrop(m) \/ (\E o \in Objs : LeaseEnter(m, o)) \/ LeaseExit(m)
      PROVE  LeaseExit(k) \/ Kept
  <2>1. CASE m = k  BY <1>4, <2>1 DEF LeaseDrop, LeaseEnter
  <2>2. CASE m # k
    <3>1. LeaseName[m] # n  BY <1>00, <2>2
    <3>2. LeaseName[m] \in Registered => jobs[LeaseName[m]] # x  BY <3>1 DEF NamesMatch
    <3>3. CASE LeaseDrop(m)  BY <3>1, <3>3 DEF LeaseDrop, x
    <3>4. ASSUME NEW o \in Objs, LeaseEnter(m, o) PROVE Kept  BY <3>1, <3>4 DEF LeaseEnter, x
    <3>5. CASE LeaseExit(m)  BY <3>2, <3>5 DEF LeaseExit, x
    <3> QED  BY <1>4, <3>3, <3>4, <3>5
  <2> QED  BY <2>1, <2>2
<1>5. CASE StartStop \/ Around
  BY <1>5 DEF StartStop, Start, Stop, Around, TimePasses, Help, HelpEnds, RequestRestart,
              PluginChanges, Jobs, x
<1>6. ASSUME NEW l \in Loops, Pass(l) PROVE Kept
  <2>1. CASE BeginPass(l) \/ EndPass(l) \/ Repeat(l) \/ \E u \in Threads : Launch(l, u)
    BY <2>1 DEF BeginPass, EndPass, Repeat, Launch, x
  <2>2. ASSUME NEW o \in Objs, Discard(l, o) \/ Refuse(l, o) \/ Postpone(l, o) PROVE Kept
    <3>0. jobs'[n] = x  BY <2>2 DEF Discard, Refuse, Postpone, x
    <3>1. CASE Discard(l, o)  BY <3>0, <3>1 DEF Discard
    <3>2. CASE Refuse(l, o)  BY <3>0, <3>2, RefusedFields DEF Refuse
    <3>3. CASE Postpone(l, o)  BY <3>0, <3>3 DEF Postpone, Jobs
    <3> QED  BY <2>2, <3>1, <3>2, <3>3
  <2>3. ASSUME NEW o \in Objs, NEW u \in Threads, Dispatch(l, o, u) PROVE Kept
    BY <2>3 DEF Dispatch, Jobs, x
  <2> QED  BY <1>6, <2>1, <2>2, <2>3 DEF Pass
<1>7. ASSUME NEW u \in Threads, Work(u) PROVE Kept
  <2>1. Executing(u)  BY <1>7 DEF Work, Return, Finalize, Executing
  <2>2. exec[u].obj # x /\ job[exec[u].obj].name # n  BY <2>1 DEF Tracked
  <2>3. jobs'[n] = x
    <3>1. ASSUME NEW outcome \in Outcomes, Return(u, outcome) PROVE jobs' = jobs  BY <3>1 DEF Return
    <3>2. CASE Finalize(u)
      <4>1. jobs' = jobs \/ jobs' = [jobs EXCEPT ![job[exec[u].obj].name] = NoJob]
        BY <3>2 DEF Finalize
      <4> QED  BY <4>1, <2>2 DEF x
    <3> QED  BY <1>7, <3>1, <3>2 DEF Work, x
  <2>4. job'[x] = job[x]  BY <1>7, <2>2 DEF Work, Return, Finalize
  <2> QED  BY <2>3, <2>4
<1>8. CASE UNCHANGED vars  BY <1>8 DEF vars, x
<1> QED
  BY <1>1, <1>2, <1>3, <1>4, <1>5, <1>6, <1>7, <1>8 DEF Undisturbed, Submitting, Leasing, n, x

LEMMA StepLeaseSeen ==
    ASSUME OwnLeases, IInv, GInv, [Undisturbed]_vars, LeaseSeen
    PROVE  LeaseSeen'
<1> SUFFICES ASSUME NEW k \in Leasers, lease'[k] = "working"
             PROVE  LET n == LeaseName[k] IN
                    /\ n \in Registered'
                    /\ job'[jobs'[n]].running /\ job'[jobs'[n]].set.category \in WriteCategories
  BY DEF LeaseSeen
<1> DEFINE n == LeaseName[k]
<1>0. TypeOK /\ [Next]_vars /\ n \in Names  BY LeaseNameTyped DEF IInv, Next
<1> USE <1>0, Facts
<1>1. CASE lease[k] = "working"
  <2>1. n \in Registered /\ job[jobs[n]].running /\ job[jobs[n]].set.category \in WriteCategories
    BY <1>1 DEF LeaseSeen
  <2>2. ~LeaseExit(k)  BY TypeParts DEF LeaseExit, AroundOK
  <2>3. jobs'[n] = jobs[n] /\ job'[jobs[n]].running  BY <1>1, <2>1, <2>2, LeasePlaceKept
  <2>4. LabelKept(jobs[n])  BY <2>1, StepLabels DEF Unused
  <2> QED  BY <2>1, <2>3, <2>4 DEF LabelKept, Registered
<1>2. CASE lease[k] # "working"
  <2>1. PICK o \in Objs : LeaseEnter(k, o)
    <3>1. CASE Leasing
      <4>1. PICK m \in Leasers : (\E o \in Objs : LeaseEnter(m, o)) \/ LeaseExit(m) \/ LeaseDrop(m)
        BY <3>1 DEF Leasing
      <4>2. \/ lease' = [lease EXCEPT ![m] = "ending"] \/ lease' = [lease EXCEPT ![m] = "none"]
            \/ lease' = [lease EXCEPT ![m] = "working"] /\ \E o \in Objs : LeaseEnter(m, o)
        BY <4>1 DEF LeaseEnter, LeaseExit, LeaseDrop
      <4> QED  BY <1>2, <4>2, TypeParts DEF AroundOK
    <3>2. ASSUME ~Leasing PROVE lease' = lease
      <4>1. CASE Submitting
        <5>1. ASSUME NEW m \in Names, Register(m) PROVE lease' = lease
          BY <5>1 DEF Register, RegisterRunning, RegisterNew, RegisterEvicting
        <5>2. ASSUME NEW m \in Names, NEW p \in WithParams, Trigger(m, p) PROVE lease' = lease
          BY <5>2 DEF Trigger
        <5> QED  BY <4>1, <5>1, <5>2 DEF Submitting
      <4>2. CASE Pausing \/ StartStop \/ Around
        BY <4>2 DEF Pausing, Pause, Resume, StartStop, Start, Stop, Around, TimePasses, Help,
                    HelpEnds, RequestRestart, PluginChanges
      <4>3. CASE \E l \in Loops : Pass(l)
        BY <4>3 DEF Pass, BeginPass, EndPass, Repeat, Discard, Refuse, Postpone, Dispatch, Launch
      <4>4. CASE \E u \in Threads : Work(u)
        BY <4>4 DEF Work, Return, Finalize
      <4> QED  BY <3>2, <4>1, <4>2, <4>3, <4>4 DEF Undisturbed, vars
    <3> QED  BY <1>2, <3>1, <3>2
  <2>2. jobs'[n] = o /\ job'[o].running /\ job'[o].set = LeasedSettings
    BY <2>1 DEF LeaseEnter, NewJob
  <2> QED  BY <2>2 DEF Registered, LeasedSettings, WriteCategories
<1> QED  BY <1>1, <1>2

LEMMA StepGatesWriters ==
    ASSUME IInv, IInv', GInv, [Undisturbed]_vars, LeaseSeen,
           NEW t \in Threads, ~Executing(t), Executing(t)', IsWrite(exec'[t].obj)
    PROVE  \A k \in Leasers : lease[k] # "working"
<1> USE Facts DEF IInv
<1>1. PICK l \in Loops, o \in Objs, u \in Threads :
          /\ Dispatch(l, o, u) /\ exec'[u].obj = o
          /\ \A v \in Threads \ {u} : Executing(v)' => Executing(v)
  BY StepOnExecutions
<1>2. ~WriteHeavyRunning  BY <1>1 DEF Dispatch, CanExecute
<1> SUFFICES ASSUME NEW k \in Leasers, lease[k] = "working" PROVE FALSE  OBVIOUS
<1>3. WriteHeavyRunning  BY DEF LeaseSeen, WriteHeavyRunning, IsWrite
<1> QED  BY <1>2, <1>3

\* While a leased workflow works no write job is dispatched, if no two workflows
\* lease the same name.
THEOREM LeasesGate == OwnLeases => (UndisturbedSpec => LeaseGatesWriters)
<1> SUFFICES ASSUME OwnLeases PROVE UndisturbedSpec => LeaseGatesWriters  OBVIOUS
<1>1. Init => LeaseSeen  BY DEF Init, LeaseSeen
<1>2. IInv /\ GInv /\ LeaseSeen /\ [Undisturbed]_vars => LeaseSeen'  BY StepLeaseSeen
<1>3. IInv /\ IInv' /\ GInv /\ LeaseSeen /\ [Undisturbed]_vars =>
          [\A t \in Threads : (~Executing(t) /\ Executing(t)' /\ IsWrite(exec'[t].obj))
              => \A k \in Leasers : lease[k] # "working"]_vars
  BY StepGatesWriters
<1> QED  BY <1>1, <1>2, <1>3, Ordered, PTL DEF UndisturbedSpec, LeaseGatesWriters

-----------------------------------------------------------------------------
(* The exclusive lease, whatever is cancelled or removed *)

\* The permit goes back if the settings of the job ask for the lease when the
\* run ends, and it was taken if they asked for it at the dispatch: the two
\* agree if a name is never registered both with the lease and without.
OneLeaseValue == \A n \in Names \ LeaseNames :
    \A r, s \in Registrations[n] : r.exclusive = s.exclusive

Consistent == \A n \in Registered \ LeaseNames :
    \A s \in Registrations[n] : job[jobs[n]].set.exclusive = s.exclusive

\* An execution has the lease exactly if its job asks for it, now.
LeasesMatch == \A t \in Threads :
    exec[t].leased <=> Executing(t) /\ job[exec[t].obj].set.exclusive

Held == {t \in Threads : exec[t].leased}
OneHolder == \A t, u \in Held : t = u

LInv == NamesMatch /\ Consistent /\ LeasesMatch /\ OneHolder /\ LeaseAccounting

\* A name keeps its object, loses it, or gets a new one with the settings of a
\* registration.
NewUnder(n, o) ==
    /\ jobs'[n] = o /\ job'[o].name = n
    /\ n \notin LeaseNames => job'[o].set \in Registrations[n]

LEMMA StepRegistered ==
    ASSUME TypeOK, [Next]_vars, NEW n \in Names
    PROVE  jobs'[n] = jobs[n] \/ jobs'[n] = NoJob \/ \E o \in Objs : NewUnder(n, o)
<1> USE Facts DEF registry
<1> DEFINE Goal == jobs'[n] = jobs[n] \/ jobs'[n] = NoJob \/ \E o \in Objs : NewUnder(n, o)
<1>1. ASSUME NEW m \in Names \ LeaseNames, Register(m) PROVE Goal
  <2>1. PICK s \in Registrations[m], p \in WithParams :
            \/ RegisterRunning(m, s, p)
            \/ \E o \in Objs : RegisterNew(m, s, p, o)
            \/ \E o \in Objs, victim \in Names : RegisterEvicting(m, s, p, o, victim)
    BY <1>1 DEF Register
  <2>2. CASE RegisterRunning(m, s, p)  BY <2>2 DEF RegisterRunning
  <2>3. ASSUME NEW o \in Objs, RegisterNew(m, s, p, o) PROVE Goal
    <3>1. n = m => NewUnder(n, o)  BY <2>3 DEF RegisterNew, NewUnder, NewJob
    <3> QED  BY <2>3, <3>1 DEF RegisterNew
  <2>4. ASSUME NEW o \in Objs, NEW victim \in Names, RegisterEvicting(m, s, p, o, victim) PROVE Goal
    <3>1. o # jobs[victim] /\ jobs[victim] \in Objs  BY <2>4 DEF RegisterEvicting, Unused, Evictable
    <3>2. job'[o] = NewJob(m, s, p)  BY <2>4, <3>1 DEF RegisterEvicting
    <3>3. n = m => NewUnder(n, o)  BY <2>4, <3>2 DEF RegisterEvicting, NewUnder, NewJob
    <3> QED  BY <2>4, <3>3 DEF RegisterEvicting
  <2> QED  BY <2>1, <2>2, <2>3, <2>4
<1>2. ASSUME NEW m \in Names, NEW p \in WithParams, Trigger(m, p) PROVE Goal
  BY <1>2 DEF Trigger
<1>3. CASE Pausing \/ Cancelling \/ StartStop \/ Around
  BY <1>3 DEF Pausing, Pause, Resume, Cancelling, Cancel, KillByPlugin, Unregister, CancelAll,
              StartStop, Start, Stop, Around, TimePasses, Help, HelpEnds, RequestRestart, PluginChanges
<1>4. ASSUME NEW k \in Leasers, (\E o \in Objs : LeaseEnter(k, o)) \/ LeaseExit(k) \/ LeaseDrop(k)
      PROVE  Goal
  <2>1. ASSUME NEW o \in Objs, LeaseEnter(k, o) PROVE Goal
    <3>1. n = LeaseName[k] => NewUnder(n, o)
      BY <2>1 DEF LeaseEnter, NewUnder, NewJob, LeaseNames
    <3> QED  BY <2>1, <3>1 DEF LeaseEnter
  <2>2. CASE LeaseExit(k)  BY <2>2 DEF LeaseExit
  <2>3. CASE LeaseDrop(k)  BY <2>3 DEF LeaseDrop
  <2> QED  BY <1>4, <2>1, <2>2, <2>3
<1>5. ASSUME NEW l \in Loops, Pass(l) PROVE Goal
  BY <1>5 DEF Pass, BeginPass, EndPass, Repeat, Discard, Refuse, Postpone, Dispatch, Launch
<1>6. ASSUME NEW t \in Threads, Work(t) PROVE Goal
  <2>1. ASSUME NEW outcome \in Outcomes, Return(t, outcome) PROVE Goal  BY <2>1 DEF Return
  <2>2. CASE Finalize(t)
    <3>1. jobs' = jobs \/ jobs' = [jobs EXCEPT ![job[exec[t].obj].name] = NoJob]
      BY <2>2 DEF Finalize
    <3> QED  BY <3>1
  <2> QED  BY <1>6, <2>1, <2>2 DEF Work
<1>7. CASE UNCHANGED vars  BY <1>7 DEF vars
<1> QED
  BY <1>1, <1>2, <1>3, <1>4, <1>5, <1>6, <1>7 DEF Next, Undisturbed, Submitting, Leasing

LEMMA StepConsistent ==
    ASSUME OneLeaseValue, IInv, [Next]_vars, NamesMatch, Consistent
    PROVE  NamesMatch' /\ Consistent'
<1> USE Facts DEF IInv
<1>1. \A n \in Registered : LabelKept(jobs[n])  BY StepLabels DEF Unused
<1> SUFFICES ASSUME NEW n \in Names, jobs'[n] # NoJob
             PROVE  /\ job'[jobs'[n]].name = n
                    /\ n \notin LeaseNames =>
                          \A s \in Registrations[n] : job'[jobs'[n]].set.exclusive = s.exclusive
  BY DEF NamesMatch, Consistent, Registered
<1>2. CASE jobs'[n] = jobs[n]
  <2>1. n \in Registered /\ job[jobs[n]].name = n  BY <1>2 DEF Registered, NamesMatch
  <2>2. \A m \in Registered : jobs[m] = jobs[n] => m = n  BY <2>1 DEF NamesMatch
  <2>3. LabelKept(jobs[n])  BY <1>1, <2>1
  <2> QED  BY <1>2, <2>1, <2>2, <2>3 DEF LabelKept, Consistent, OneLeaseValue
<1>3. ASSUME NEW o \in Objs, NewUnder(n, o)
      PROVE  /\ job'[jobs'[n]].name = n
             /\ n \notin LeaseNames =>
                   \A s \in Registrations[n] : job'[jobs'[n]].set.exclusive = s.exclusive
  BY <1>3 DEF NewUnder, OneLeaseValue
<1> QED  BY <1>2, <1>3, StepRegistered

\* The settings of an executing job ask for the lease after a step if and only
\* if they did before.
LEMMA AskedKept ==
    ASSUME OneLeaseValue, TypeOK, [Next]_vars, NamesMatch, Consistent, NEW x \in Objs \ Unused
    PROVE  job'[x].set.exclusive = job[x].set.exclusive
<1>1. LabelKept(x)  BY StepLabels
<1>2. ASSUME NEW n \in Registered \ LeaseNames, NEW s \in Registrations[n], jobs[n] = x
      PROVE  s.exclusive = job[x].set.exclusive
  BY <1>2 DEF Consistent
<1> QED  BY <1>1, <1>2 DEF LabelKept

LEMMA HeldFinite == IsFiniteSet(Held) /\ Cardinality(Held) \in Nat
<1>1. Held \subseteq Threads /\ IsFiniteSet(Threads)  BY QueueAssumption DEF Held, QueueAssumption
<1> QED  BY <1>1, FS_Subset, FS_CardinalityType

LEMMA HeldAccounting ==
    LeaseAccounting <=> permits + Cardinality(Held) = MaxWriters /\ (exclusiveActive <=> Held # {})
BY DEF LeaseAccounting, Held

LEMMA DispatchLeases ==
    ASSUME IInv, LInv, NEW l \in Loops, NEW o \in Objs, NEW t \in Threads, Dispatch(l, o, t),
           \A x \in Objs \ Unused : job'[x].set.exclusive = job[x].set.exclusive
    PROVE  LeasesMatch' /\ OneHolder' /\ LeaseAccounting'
<1> USE Facts, TypeParts DEF IInv, LInv, PoolsOK
<1> DEFINE asks == job[o].set.exclusive
<1>1. /\ exec'[t] = [pc |-> "selected", obj |-> o, leased |-> asks] /\ ~Executing(t)
      /\ \A u \in Threads \ {t} : exec'[u] = exec[u]
      /\ permits' = IF asks THEN permits - 1 ELSE permits
      /\ exclusiveActive' = (exclusiveActive \/ asks)
      /\ asks \in BOOLEAN
  BY DEF Dispatch, Jobs, Settings
<1>2. o \notin Unused  BY DEF Dispatch, Popped, Unused
<1>3. LeasesMatch'
  <2> SUFFICES ASSUME NEW u \in Threads
               PROVE  exec'[u].leased <=> exec'[u].pc # "idle" /\ job'[exec'[u].obj].set.exclusive
    BY DEF LeasesMatch, Executing
  <2>1. CASE u = t  BY <1>1, <1>2, <2>1
  <2>2. CASE u # t
    <3>1. Executing(u) => exec[u].obj \in Objs \ Unused  BY DEF Unused
    <3> QED  BY <1>1, <2>2, <3>1 DEF LeasesMatch, Executing
  <2> QED  BY <2>1, <2>2
<1>4. ~exec[t].leased  BY <1>1 DEF LeasesMatch
<1>5. CASE asks
  <2>1. ~exclusiveActive  BY <1>5 DEF Dispatch, CanExecute, IsWrite, WriteHeavyRunning
  <2>2. Held = {}  BY <2>1, HeldAccounting
  <2>3. Held' = {t}  BY <1>1, <1>5, <2>2 DEF Held
  <2>4. permits = MaxWriters /\ MaxWriters \in Nat
    BY <2>2, HeldAccounting, FS_EmptySet, QueueAssumption DEF QueueAssumption
  <2>5. Cardinality({t}) = 1  BY FS_Singleton
  <2>6. permits' = permits - 1 /\ Cardinality(Held)' = 1  BY <1>1, <1>5, <2>3, <2>5
  <2>7. permits' + Cardinality(Held)' = MaxWriters  BY <2>4, <2>6
  <2>8. exclusiveActive' /\ Held' # {}  BY <1>1, <1>5, <2>3
  <2> QED  BY <1>3, <2>3, <2>7, <2>8 DEF OneHolder, LeaseAccounting, Held
<1>6. CASE ~asks
  <2>1. Held' = Held  BY <1>1, <1>4, <1>6 DEF Held
  <2>2. permits' = permits /\ exclusiveActive' = exclusiveActive  BY <1>1, <1>6
  <2> QED  BY <1>3, <2>1, <2>2 DEF OneHolder, LeaseAccounting, Held
<1> QED  BY <1>5, <1>6

LEMMA FinalizeLeases ==
    ASSUME IInv, LInv, NEW t \in Threads, Finalize(t),
           \A x \in Objs \ Unused : job'[x].set.exclusive = job[x].set.exclusive
    PROVE  LeasesMatch' /\ OneHolder' /\ LeaseAccounting'
<1> USE Facts, TypeParts DEF IInv, LInv, PoolsOK
<1> DEFINE asks == job[exec[t].obj].set.exclusive
<1>1. /\ exec'[t] = Idle /\ Executing(t) /\ \A u \in Threads \ {t} : exec'[u] = exec[u]
      /\ permits' = IF asks THEN permits + 1 ELSE permits
      /\ exclusiveActive' = (exclusiveActive /\ ~asks)
  BY DEF Finalize, Executing, ReturnsLease
<1>2. asks \in BOOLEAN  BY <1>1 DEF Jobs, Settings
<1>3. LeasesMatch'
  <2> SUFFICES ASSUME NEW u \in Threads
               PROVE  exec'[u].leased <=> exec'[u].pc # "idle" /\ job'[exec'[u].obj].set.exclusive
    BY DEF LeasesMatch, Executing
  <2>1. CASE u = t  BY <1>1, <2>1 DEF Idle
  <2>2. CASE u # t
    <3>1. Executing(u) => exec[u].obj \in Objs \ Unused  BY DEF Unused
    <3> QED  BY <1>1, <2>2, <3>1 DEF LeasesMatch, Executing
  <2> QED  BY <2>1, <2>2
<1>4. exec[t].leased <=> asks  BY <1>1 DEF LeasesMatch
<1>5. CASE asks
  <2>1. Held = {t} /\ Held' = {}  BY <1>1, <1>4, <1>5 DEF Held, OneHolder, Idle
  <2>2. Cardinality({t}) = 1 /\ Cardinality({}) = 0  BY FS_Singleton, FS_EmptySet
  <2>3. permits + 1 = MaxWriters /\ MaxWriters \in Nat
    BY <2>1, <2>2, HeldAccounting, QueueAssumption DEF QueueAssumption
  <2>4. permits' = permits + 1 /\ Cardinality(Held)' = 0  BY <1>1, <1>5, <2>1, <2>2
  <2>5. permits' + Cardinality(Held)' = MaxWriters  BY <2>3, <2>4
  <2>6. ~exclusiveActive' /\ Held' = {}  BY <1>1, <1>5, <2>1
  <2> QED  BY <1>3, <2>5, <2>6 DEF OneHolder, LeaseAccounting, Held
<1>6. CASE ~asks
  <2>1. Held' = Held  BY <1>1, <1>4, <1>6 DEF Held, Idle
  <2>2. permits' = permits /\ exclusiveActive' = exclusiveActive  BY <1>1, <1>6
  <2> QED  BY <1>3, <2>1, <2>2 DEF OneHolder, LeaseAccounting, Held
<1> QED  BY <1>5, <1>6

LEMMA StepLInv ==
    ASSUME OneLeaseValue, IInv, IInv', LInv, [Next]_vars
    PROVE  LInv'
<1> USE Facts, TypeParts DEF IInv, LInv
<1>1. NamesMatch' /\ Consistent'  BY StepConsistent
<1>2. \A x \in Objs \ Unused : job'[x].set.exclusive = job[x].set.exclusive  BY AskedKept
<1>3. CASE ExecutionsKept /\ permits' = permits /\ exclusiveActive' = exclusiveActive
  <2>1. Held' = Held  BY <1>3 DEF Held, ExecutionsKept
  <2>2. \A t \in Threads : Executing(t)' <=> Executing(t)
    BY <1>3, TypeParts DEF ExecutionsKept, ExecOK
  <2>3. \A t \in Threads : Executing(t) => exec[t].obj \in Objs \ Unused  BY DEF Unused
  <2>4. LeasesMatch'
    <3> SUFFICES ASSUME NEW t \in Threads
                 PROVE  exec'[t].leased <=> Executing(t)' /\ job'[exec'[t].obj].set.exclusive
      BY DEF LeasesMatch
    <3> QED  BY <1>2, <1>3, <2>2, <2>3 DEF LeasesMatch, ExecutionsKept
  <2> QED  BY <1>1, <1>3, <2>1, <2>4 DEF OneHolder, LeaseAccounting, Held
<1>4. ASSUME NEW h \in Helpers, Help(h) \/ HelpEnds(h)
      PROVE  ExecutionsKept /\ permits' = permits /\ exclusiveActive' = exclusiveActive
  BY <1>4 DEF Help, HelpEnds, ExecutionsKept
<1>5. ASSUME NEW l \in Loops, NEW o \in Objs, NEW t \in Threads, Dispatch(l, o, t) PROVE LInv'
  BY <1>1, <1>2, <1>5, DispatchLeases
<1>6. ASSUME NEW t \in Threads, Finalize(t) PROVE LInv'  BY <1>1, <1>2, <1>6, FinalizeLeases
<1> QED  BY <1>3, <1>4, <1>5, <1>6, StepExecutions DEF resources

LEMMA InitLInv == Init => LInv
<1> SUFFICES ASSUME Init PROVE LInv  OBVIOUS
<1>1. Registered = {} /\ Held = {}  BY DEF Init, Registered, Held, Idle
<1>2. NamesMatch /\ Consistent /\ OneHolder  BY <1>1 DEF NamesMatch, Consistent, OneHolder
<1>3. LeasesMatch  BY DEF Init, LeasesMatch, Executing, Idle
<1>4. LeaseAccounting
  BY <1>1, FS_EmptySet, HeldAccounting, QueueAssumption DEF Init, QueueAssumption
<1> QED  BY <1>2, <1>3, <1>4 DEF LInv

\* However jobs are cancelled, removed, retried or evicted, every permit of the
\* write lease is held by an execution or free, if no name is registered both
\* with the exclusive lease and without.
THEOREM LeaseAccounted == OneLeaseValue => (Spec => []LeaseAccounting)
<1> SUFFICES ASSUME OneLeaseValue PROVE Spec => []LeaseAccounting  OBVIOUS
<1>1. IInv /\ [Next]_vars => IInv'  BY StepTypeOK, StepSelected DEF IInv
<1>2. IInv /\ IInv' /\ LInv /\ [Next]_vars => LInv'  BY StepLInv
<1>3. LInv => LeaseAccounting  BY DEF LInv
<1> QED  BY <1>1, <1>2, <1>3, InitIInv, InitLInv, PTL DEF Spec
=============================================================================
