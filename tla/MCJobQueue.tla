----------------------------- MODULE MCJobQueue -----------------------------
(***************************************************************************)
(* Instances of JobQueue for TLC.                                          *)
(***************************************************************************)
EXTENDS JobQueue, TLC

CONSTANTS sync, import, chore, report, upkeep, plex,
          o1, o2, o3, o4, t1, t2, t3, l1, l2, worker1, helper

Set(recurring, category, retries) ==
    [recurring |-> recurring, enabled |-> TRUE, category |-> category,
     exclusive |-> FALSE, maxRetries |-> retries, priority |-> "NORMAL", plugin |-> NoPlugin]

\* library_sync, auto_import_scan and a plugin's one-time write job, beside a
\* workflow that leases the name upkeep.
GateRegistrations ==
    (sync :> {Set(TRUE, "DATABASE_WRITE_HEAVY", 0)})
    @@ (import :> {Set(TRUE, "GENERAL", 0)})
    @@ (chore :> {[Set(FALSE, "BACKGROUND_METADATA", 0) EXCEPT !.plugin = plex]})
OneLeaser == worker1 :> upkeep

\* A recurring job that may be re-registered disabled, and a one-time job that
\* is retried once.
RequeueRegistrations ==
    (sync :> {Set(TRUE, "DATABASE_WRITE_HEAVY", 0),
              [Set(TRUE, "DATABASE_WRITE_HEAVY", 0) EXCEPT !.enabled = FALSE]})
    @@ (import :> {Set(FALSE, "GENERAL", 1)})

\* A plugin's monolithic one-time migration that asks for the exclusive lease,
\* and a recurring core job.
CancelRegistrations ==
    (chore :> {[Set(FALSE, "DATABASE_WRITE_HEAVY", 1) EXCEPT !.exclusive = TRUE, !.plugin = plex]})
    @@ (report :> {Set(TRUE, "CRITICAL", 0)})

\* The restart flag, which only pauses jobs, stays down.
CancelSpec == Init /\ [][Next /\ ~restart']_vars

\* Two write jobs.
WriterRegistrations ==
    (sync :> {Set(TRUE, "DATABASE_WRITE_HEAVY", 0)})
    @@ (chore :> {Set(FALSE, "BACKGROUND_METADATA", 0)})

NoLeaseName == [k \in {} |-> sync]
Symmetry == Permutations(Objs) \cup Permutations(Threads)

\* Objects nothing refers to do not distinguish states.
View == <<[o \in Objs |-> IF o \in Unused THEN <<>> ELSE <<job[o]>>],
          jobs, heap, deferred, isRunning, paused, slots, permits, exclusiveActive,
          helping, exec, loop, toRun, started, lease, restart, accepting>>

-----------------------------------------------------------------------------
(* Draining: two write jobs, one of them exclusive, and two others compete for *)
(* one general slot; nothing more is submitted.                                *)
DrainRegistrations ==
    (sync :> {Set(FALSE, "DATABASE_WRITE_HEAVY", 1)})
    @@ (chore :> {[Set(FALSE, "BACKGROUND_METADATA", 0) EXCEPT !.exclusive = TRUE]})
    @@ (report :> {Set(FALSE, "GENERAL", 1)})

Place == (sync :> o1) @@ (chore :> o2) @@ (report :> o3)

DrainInit ==
    /\ jobs = Place
    /\ job = [o \in Objs |-> LET n == CHOOSE n \in Names : Place[n] = o IN
                             NewJob(n, CHOOSE s \in Registrations[n] : TRUE, FALSE)]
    /\ heap = [o \in Objs |-> 1] /\ deferred = [o \in Objs |-> 0]
    /\ isRunning = [n \in Names |-> FALSE] /\ paused = {}
    /\ slots = [p \in Pools |-> Capacity(p)]
    /\ permits = MaxWriters /\ exclusiveActive = FALSE
    /\ helping = {}
    /\ exec = [t \in Threads |-> Idle]
    /\ loop = [l \in Loops |-> "sleep"] /\ toRun = [l \in Loops |-> {}] /\ started = TRUE
    /\ lease = [k \in Leasers |-> "none"]
    /\ restart = FALSE /\ accepting = Plugins

DrainNext == \/ \E l \in Loops : Pass(l)
             \/ \E t \in Threads : Work(t)
             \/ \E o \in Objs : TimePasses(o)

DrainSpec == DrainInit /\ [][DrainNext]_vars /\ Fairness

\* Every job, its retries included, is eventually run and retired, and every
\* slot and permit is back: collisions, missing slots and the lease delay a job
\* (_run_loop defers it) but never lose it.
Drains == <>[](/\ Registered = {}
               /\ \A o \in Objs : heap[o] + deferred[o] = 0
               /\ \A p \in Pools : slots[p] = Capacity(p)
               /\ permits = MaxWriters)
=============================================================================
