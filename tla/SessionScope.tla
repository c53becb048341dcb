---------------------------- MODULE SessionScope ----------------------------
(***************************************************************************)
(* MusicDatabase.session_scope and WorkingDatabase.session_scope over one  *)
(* SQLite file, composed with WriteLease.  A session writes to the file    *)
(* when it is flushed, which may be long before the commit that the scope  *)
(* runs inside db_write_lease; from its first write on it holds SQLite's   *)
(* own write lock (writer), for which others wait up to busy_timeout.      *)
(*                                                                         *)
(* A thread uses one of three styles found in the code:                    *)
(*   LeaseFirst  the scope is opened inside a lease, and flushes in its    *)
(*               body (get_system_user_id, handle_track_rated);            *)
(*   FlushFirst  the body writes with no lease held, the commit takes one  *)
(*               (the full rebuild of library_sync, queue_download);       *)
(*   the others  only the commit writes.                                   *)
(***************************************************************************)
EXTENDS WriteLease

CONSTANTS LeaseFirst, FlushFirst, NoThread

ASSUME StyleAssumption ==
    /\ LeaseFirst \subseteq Threads /\ FlushFirst \subseteq Threads \ LeaseFirst
    /\ NoThread \notin Threads

VARIABLES
    writer, \* the thread that holds SQLite's write lock
    phase   \* where each thread is in its session scope

dbVars == <<writer, phase>>
allVars == <<leaseVars, dbVars>>

Phases == {"idle", "body", "dirty", "failed", "closed"}

ScopeTypeOK == /\ TypeOK
               /\ writer \in Threads \cup {NoThread}
               /\ phase \in [Threads -> Phases]

ScopeInit == Init /\ writer = NoThread /\ phase = [t \in Threads |-> "idle"]

NoBase(t) == 0
Base(t) == IF t \in LeaseFirst THEN 1 ELSE 0
InCommit(t) == pc[t] = "free" /\ depth[t] = Base(t) + 1

-----------------------------------------------------------------------------
\* The lease that encloses the scope, or the one around its commit.
TakeLease(t) ==
    /\ \/ phase[t] = "idle" /\ depth[t] < Base(t)
       \/ phase[t] \in {"body", "dirty"} /\ depth[t] = Base(t)
    /\ Enter(t)
    /\ UNCHANGED dbVars

GetLease(t) == (WalAccepts(t) \/ Acquire(t) \/ Record(t)) /\ UNCHANGED dbVars

\* No lease: the exception leaves the scope, if one is open.
LoseLease(t) ==
    /\ WalRejects(t) \/ TimeOut(t)
    /\ phase' = [phase EXCEPT ![t] = IF @ = "idle" THEN @ ELSE "failed"]
    /\ UNCHANGED writer

Open(t) ==
    /\ phase[t] = "idle" /\ pc[t] = "free" /\ depth[t] = Base(t)
    /\ phase' = [phase EXCEPT ![t] = "body"]
    /\ UNCHANGED <<leaseVars, writer>>

Flush(t) ==
    /\ t \in LeaseFirst \cup FlushFirst
    /\ phase[t] = "body" /\ pc[t] = "free" /\ depth[t] = Base(t)
    /\ writer = NoThread
    /\ writer' = t
    /\ phase' = [phase EXCEPT ![t] = "dirty"]
    /\ UNCHANGED leaseVars

\* busy_timeout expires: the flush, or the flush inside the commit, raises
\* "database is locked".
Locked(t) ==
    /\ writer \notin {NoThread, t}
    /\ phase[t] = "body" /\ pc[t] = "free"
    /\ t \in LeaseFirst \cup FlushFirst \/ InCommit(t)
    /\ phase' = [phase EXCEPT ![t] = "failed"]
    /\ UNCHANGED <<leaseVars, writer>>

Commit(t) ==
    /\ phase[t] \in {"body", "dirty"} /\ InCommit(t)
    /\ writer \in {NoThread, t}
    /\ writer' = NoThread
    /\ phase' = [phase EXCEPT ![t] = "closed"]
    /\ UNCHANGED leaseVars

\* The commit raises inside its lease: a failed flush is rolled back at once
\* (writer is free), a failed COMMIT leaves the transaction open (writer stays
\* or becomes t) until the scope's rollback, after the lease has been closed.
CommitFails(t) ==
    /\ phase[t] \in {"body", "dirty"} /\ InCommit(t)
    /\ writer \in {NoThread, t}
    /\ writer' \in {NoThread, t}
    /\ phase' = [phase EXCEPT ![t] = "failed"]
    /\ UNCHANGED leaseVars

\* The body raises, with or without writes of its own behind it.
BodyRaises(t) ==
    /\ phase[t] \in {"body", "dirty"} /\ pc[t] = "free" /\ depth[t] = Base(t)
    /\ phase' = [phase EXCEPT ![t] = "failed"]
    /\ UNCHANGED <<leaseVars, writer>>

RollbackKeeping(t) ==
    /\ phase[t] = "failed" /\ pc[t] = "free" /\ depth[t] = Base(t)
    /\ phase' = [phase EXCEPT ![t] = "closed"]
    /\ UNCHANGED <<leaseVars, writer>>

\* The scope's `except' rolls back once the commit's lease block has closed.
Rollback(t) ==
    /\ phase[t] = "failed" /\ pc[t] = "free" /\ depth[t] = Base(t)
    /\ writer' = IF writer = t THEN NoThread ELSE writer
    /\ phase' = [phase EXCEPT ![t] = "closed"]
    /\ UNCHANGED leaseVars

CloseLeaseOnSuccess(t) ==
    /\ phase[t] = "closed" \/ pc[t] = "leaving"
    /\ Exit(t)
    /\ UNCHANGED dbVars

CloseLease(t) ==
    /\ \/ phase[t] = "closed"
       \/ phase[t] = "failed" /\ depth[t] > Base(t)
       \/ pc[t] = "leaving"
    /\ Exit(t)
    /\ UNCHANGED dbVars

Done(t) ==
    /\ phase[t] = "closed" /\ pc[t] = "free" /\ depth[t] = 0
    /\ phase' = [phase EXCEPT ![t] = "idle"]
    /\ UNCHANGED <<leaseVars, writer>>

Step(t) == \/ TakeLease(t) \/ GetLease(t) \/ LoseLease(t) \/ Open(t) \/ Flush(t)
           \/ BodyRaises(t) \/ Locked(t) \/ Commit(t) \/ CommitFails(t)
           \/ Rollback(t) \/ CloseLease(t) \/ Done(t)

\* The scheduler takes and returns the permit of an exclusive job around its run.
Schedule(t) == phase[t] = "idle" /\ (Grant(t) \/ Revoke(t)) /\ UNCHANGED dbVars

ScopeNext == \E t \in Threads : Step(t) \/ Schedule(t)

ScopeSpec == ScopeInit /\ [][ScopeNext]_allVars

\* A thread inside the database code is not suspended forever, and both waits
\* are bounded by their timeouts.
FairScopeSpec == ScopeSpec /\ \A t \in Threads : WF_allVars(Step(t))

-----------------------------------------------------------------------------
(* Properties *)

\* SQLite's lock is held while no other thread is inside the lease, not even one
\* that is about to wait for that lock ("All database mutations MUST acquire
\* db_write_lease"), with the two exceptions of the code: a scope that flushes
\* before its commit takes the lease, and a scope whose commit failed and that no
\* lease encloses, because its lease block closes before the rollback.
WritersSerialised ==
    \A t \in Threads : writer = t =>
        \/ t \in FlushFirst
        \/ t \notin LeaseFirst /\ phase[t] = "failed"
        \/ \A u \in Threads : outer[u] => u = t

\* A committed or rolled-back scope leaves no lock behind, one whose commit failed
\* with the lock in hand included.
LockReleased == \A t \in Threads : writer = t => phase[t] \in {"dirty", "failed"}

\* Every scope that is opened is closed, in a lock cycle too, because both
\* waits time out (timeout=30.0 of the lease, PRAGMA busy_timeout).
ScopesEnd == \A t \in Threads : phase[t] = "body" ~> phase[t] = "idle"
=============================================================================
