----------------------------- MODULE WriteLease -----------------------------
(***************************************************************************)
(* JobQueue.db_write_lease (core/task_manager/task_queue.py): the lease    *)
(* every database write is meant to take.  It is a counting semaphore of   *)
(* MaxWriters permits (one for SQLite) plus a dictionary from a thread to  *)
(* the depth of its nested `with' blocks, so that only the outermost block *)
(* of a thread takes and returns a permit.  The scheduler also takes a     *)
(* permit, on its own thread, on behalf of a job that asked for the        *)
(* exclusive lease, and returns it when the job is finalised; that permit  *)
(* is not entered in the dictionary.                                       *)
(***************************************************************************)
EXTENDS Integers, FiniteSets

CONSTANTS
    Threads,
    ExclusiveThreads, \* threads that may run a job with exclusive_db_lease
    MaxWriters,       \* max_writers: 1 for SQLite, worker_count for PostgreSQL
    MaxDepth          \* bound on nesting

ASSUME LeaseAssumption ==
    /\ IsFiniteSet(Threads) /\ ExclusiveThreads \subseteq Threads
    /\ MaxWriters \in Nat \ {0} /\ MaxDepth \in Nat

VARIABLES
    permits,  \* value of _db_write_lease
    depth,    \* _lease_holders; 0 stands for "not in the dictionary"
    nested,   \* how many open blocks of the thread took the nested branch
    outer,    \* whether an open block of the thread took the other branch
    pc,       \* where in db_write_lease the thread is
    granted   \* permit taken by the scheduler for the thread's job

leaseVars == <<permits, depth, nested, outer, pc, granted>>

Steps == {"free", "check", "wait", "got", "leaving"}

TypeOK ==
    /\ permits \in Nat
    /\ depth \in [Threads -> Nat] /\ nested \in [Threads -> Nat]
    /\ outer \in [Threads -> BOOLEAN] /\ granted \in [Threads -> BOOLEAN]
    /\ pc \in [Threads -> Steps]

Init ==
    /\ permits = MaxWriters
    /\ depth = [t \in Threads |-> 0] /\ nested = [t \in Threads |-> 0]
    /\ outer = [t \in Threads |-> FALSE] /\ granted = [t \in Threads |-> FALSE]
    /\ pc = [t \in Threads |-> "free"]

-----------------------------------------------------------------------------
\* The dictionary decides, under _lease_lock, which branch the block takes.
Holding(t) == depth[t] > 0

EnterNested(t) ==
    /\ pc[t] = "free"
    /\ Holding(t) /\ depth[t] < MaxDepth
    /\ depth' = [depth EXCEPT ![t] = @ + 1]
    /\ nested' = [nested EXCEPT ![t] = @ + 1]
    /\ UNCHANGED <<permits, outer, pc, granted>>

EnterOuter(t) ==
    /\ pc[t] = "free"
    /\ ~Holding(t)
    /\ pc' = [pc EXCEPT ![t] = "check"]
    /\ UNCHANGED <<permits, depth, nested, outer, granted>>

\* _check_wal_backpressure: the WAL file may stay over its limit even after the
\* checkpoint, and then the block raises TimeoutError.
WalAccepts(t) ==
    /\ pc[t] = "check"
    /\ pc' = [pc EXCEPT ![t] = "wait"]
    /\ UNCHANGED <<permits, depth, nested, outer, granted>>

WalRejects(t) ==
    /\ pc[t] = "check"
    /\ pc' = [pc EXCEPT ![t] = "free"]
    /\ UNCHANGED <<permits, depth, nested, outer, granted>>

Acquire(t) ==
    /\ pc[t] = "wait" /\ permits > 0
    /\ permits' = permits - 1
    /\ pc' = [pc EXCEPT ![t] = "got"]
    /\ UNCHANGED <<depth, nested, outer, granted>>

TimeOutUnnoticed(t) ==
    /\ pc[t] = "wait" /\ permits = 0
    /\ pc' = [pc EXCEPT ![t] = "got"]
    /\ UNCHANGED <<permits, depth, nested, outer, granted>>

TimeOut(t) ==
    /\ pc[t] = "wait" /\ permits = 0
    /\ pc' = [pc EXCEPT ![t] = "free"]
    /\ UNCHANGED <<permits, depth, nested, outer, granted>>

Record(t) ==
    /\ pc[t] = "got"
    /\ depth' = [depth EXCEPT ![t] = 1]
    /\ outer' = [outer EXCEPT ![t] = TRUE]
    /\ pc' = [pc EXCEPT ![t] = "free"]
    /\ UNCHANGED <<permits, nested, granted>>

\* Blocks close innermost first, whether by return or by exception.
Decremented(t) == [depth EXCEPT ![t] = IF @ <= 1 THEN 0 ELSE @ - 1]

ExitNestedReleasing(t) ==
    /\ pc[t] = "free" /\ nested[t] > 0
    /\ depth' = Decremented(t)
    /\ nested' = [nested EXCEPT ![t] = @ - 1]
    /\ permits' = permits + 1
    /\ UNCHANGED <<outer, pc, granted>>

ExitNested(t) ==
    /\ pc[t] = "free" /\ nested[t] > 0
    /\ depth' = Decremented(t)
    /\ nested' = [nested EXCEPT ![t] = @ - 1]
    /\ UNCHANGED <<permits, outer, pc, granted>>

ExitOuter(t) ==
    /\ pc[t] = "free" /\ nested[t] = 0 /\ outer[t]
    /\ depth' = Decremented(t)
    /\ outer' = [outer EXCEPT ![t] = FALSE]
    /\ pc' = [pc EXCEPT ![t] = "leaving"]
    /\ UNCHANGED <<permits, nested, granted>>

Release(t) ==
    /\ pc[t] = "leaving"
    /\ permits' = permits + 1
    /\ pc' = [pc EXCEPT ![t] = "free"]
    /\ UNCHANGED <<depth, nested, outer, granted>>

\* _run_loop takes the permit of an exclusive job before its thread starts, and
\* _finalize_job_after_run returns it when the job's function has returned.
GrantBlindly(t) ==
    /\ t \in ExclusiveThreads
    /\ pc[t] = "free" /\ ~outer[t] /\ ~granted[t]
    /\ granted' = [granted EXCEPT ![t] = TRUE]
    /\ UNCHANGED <<permits, depth, nested, outer, pc>>

Grant(t) ==
    /\ t \in ExclusiveThreads
    /\ pc[t] = "free" /\ ~outer[t] /\ ~granted[t]
    /\ permits > 0
    /\ permits' = permits - 1
    /\ granted' = [granted EXCEPT ![t] = TRUE]
    /\ UNCHANGED <<depth, nested, outer, pc>>

Revoke(t) ==
    /\ granted[t]
    /\ pc[t] = "free" /\ ~outer[t]
    /\ permits' = permits + 1
    /\ granted' = [granted EXCEPT ![t] = FALSE]
    /\ UNCHANGED <<depth, nested, outer, pc>>

Enter(t) == EnterNested(t) \/ EnterOuter(t)
Proceed(t) == WalAccepts(t) \/ WalRejects(t) \/ Acquire(t) \/ TimeOut(t) \/ Record(t)
Exit(t) == ExitNested(t) \/ ExitOuter(t) \/ Release(t)

Next == \E t \in Threads : Enter(t) \/ Proceed(t) \/ Exit(t) \/ Grant(t) \/ Revoke(t)

Spec == Init /\ [][Next]_leaseVars

-----------------------------------------------------------------------------
(* Properties *)

\* Who has a permit: a thread, by its outermost block, from the moment the
\* semaphore lets it through to the moment it is released, or a job's thread,
\* by the scheduler's hand.
Scoped == {t \in Threads : outer[t] \/ pc[t] \in {"got", "leaving"}}
Exclusive == {t \in Threads : granted[t]}

\* No permit is ever lost or made up, however blocks nest, time out, are
\* rejected or raise.
PermitAccounting ==
    permits + Cardinality(Scoped) + Cardinality(Exclusive) = MaxWriters

\* The dictionary agrees with the open blocks, and only a thread with a permit
\* is in it: a nested block never runs without one.
DepthAccounting ==
    \A t \in Threads : /\ depth[t] = nested[t] + (IF outer[t] THEN 1 ELSE 0)
                       /\ nested[t] > 0 => outer[t]
                       /\ outer[t] => pc[t] = "free"

\* With one permit, the blocks of two threads are never open together.
MutualExclusion ==
    MaxWriters = 1 => \A t, u \in Threads : outer[t] /\ outer[u] => t = u

-----------------------------------------------------------------------------
(* The promise: at most MaxWriters holds at a time. *)
Holds == (Scoped \X {"scoped"}) \cup (Exclusive \X {"exclusive"})
Promise == INSTANCE LimitedHolds WITH
    Clients <- Threads \X {"scoped", "exclusive"}, Limit <- MaxWriters, holders <- Holds
PromiseSpec == Promise!Spec
=============================================================================
