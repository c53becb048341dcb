------------------------- MODULE SessionScope_proofs -------------------------
(***************************************************************************)
(* For every number of threads of each style: the scopes use the write     *)
(* lease as WriteLease describes it, so that its theorems hold of them,    *)
(* and SQLite's own lock is held only by a scope that is still open, inside*)
(* the lease unless the scope flushed before it took one or its commit     *)
(* failed.                                                                 *)
(***************************************************************************)
EXTENDS SessionScope, WriteLease_proofs

\* SQLite's lock is held by a thread that flushes or whose commit failed, and inside
\* the lease by one that takes the lease first.
WriterInside ==
    \A t \in Threads : writer = t =>
        /\ t \in LeaseFirst \cup FlushFirst \/ phase[t] = "failed"
        /\ t \in LeaseFirst => outer[t]

SInv == IInv /\ ScopeTypeOK /\ LockReleased /\ WriterInside

-----------------------------------------------------------------------------
\* Every step of a scope is a step of the lease or leaves it alone.
LEMMA LeaseStep == [ScopeNext]_allVars => [Next]_leaseVars
<1> SUFFICES ASSUME [ScopeNext]_allVars PROVE [Next]_leaseVars  OBVIOUS
<1>1. CASE UNCHANGED allVars  BY <1>1 DEF allVars
<1>2. ASSUME NEW t \in Threads, Step(t) PROVE [Next]_leaseVars
  <2>1. CASE TakeLease(t)  BY <2>1 DEF TakeLease, Next
  <2>2. CASE GetLease(t)  BY <2>2 DEF GetLease, Next, Proceed
  <2>3. CASE LoseLease(t)  BY <2>3 DEF LoseLease, Next, Proceed
  <2>4. CASE CloseLease(t)  BY <2>4 DEF CloseLease, Next
  <2>5. CASE Open(t) \/ Flush(t) \/ BodyRaises(t) \/ Locked(t) \/ Commit(t) \/ CommitFails(t)
            \/ Rollback(t) \/ Done(t)
    BY <2>5 DEF Open, Flush, BodyRaises, Locked, Commit, CommitFails, Rollback, Done
  <2> QED  BY <1>2, <2>1, <2>2, <2>3, <2>4, <2>5 DEF Step
<1>3. ASSUME NEW t \in Threads, Schedule(t) PROVE [Next]_leaseVars
  BY <1>3 DEF Schedule, Next
<1> QED  BY <1>1, <1>2, <1>3 DEF ScopeNext

\* The scopes, the scheduler's permits included, are users of db_write_lease:
\* whatever the module of the lease proves holds of them.
THEOREM ScopesUseLease == ScopeSpec => Spec
<1>1. ScopeInit => Init  BY DEF ScopeInit
<1> QED  BY <1>1, LeaseStep, PTL DEF ScopeSpec, Spec

-----------------------------------------------------------------------------
LEMMA InitSInv == ScopeInit => SInv
<1> SUFFICES ASSUME ScopeInit PROVE SInv  OBVIOUS
<1>1. IInv  BY InitIInv DEF ScopeInit
<1>2. ScopeTypeOK  BY <1>1 DEF ScopeInit, ScopeTypeOK, IInv, Phases
<1>3. LockReleased /\ WriterInside
  BY StyleAssumption DEF ScopeInit, LockReleased, WriterInside, StyleAssumption
<1> QED  BY <1>1, <1>2, <1>3 DEF SInv

LEMMA StepScopeType ==
    ASSUME SInv, [ScopeNext]_allVars
    PROVE  ScopeTypeOK'
<1>1. TypeOK'  BY LeaseStep, StepTypeOK DEF SInv
<1>2. writer \in Threads \cup {NoThread} /\ phase \in [Threads -> Phases]
  BY DEF SInv, ScopeTypeOK
<1>3. (writer \in Threads \cup {NoThread} /\ phase \in [Threads -> Phases])'
  <2>1. CASE UNCHANGED dbVars  BY <1>2, <2>1 DEF dbVars
  <2>2. ASSUME NEW t \in Threads,
               LoseLease(t) \/ Open(t) \/ Flush(t) \/ BodyRaises(t) \/ Locked(t) \/ Commit(t)
               \/ CommitFails(t) \/ Rollback(t) \/ Done(t)
        PROVE  (writer \in Threads \cup {NoThread} /\ phase \in [Threads -> Phases])'
    BY <1>2, <2>2 DEF LoseLease, Open, Flush, BodyRaises, Locked, Commit, CommitFails, Rollback, Done, Phases
  <2> QED  BY <2>1, <2>2 DEF ScopeNext, Step, TakeLease, GetLease, CloseLease, Schedule, allVars, dbVars
<1> QED  BY <1>1, <1>3 DEF ScopeTypeOK

LEMMA StepLockReleased ==
    ASSUME SInv, [ScopeNext]_allVars
    PROVE  LockReleased'
<1>0. /\ writer \in Threads \cup {NoThread} /\ phase \in [Threads -> Phases]
      /\ \A t \in Threads : writer = t => phase[t] \in {"dirty", "failed"}
  BY DEF SInv, ScopeTypeOK, LockReleased
<1> USE DEF LockReleased
<1>1. CASE UNCHANGED dbVars  BY <1>0, <1>1 DEF dbVars
<1>2. ASSUME NEW t \in Threads,
             LoseLease(t) \/ Open(t) \/ BodyRaises(t) \/ Locked(t) \/ Done(t)
      PROVE  LockReleased'
  BY <1>0, <1>2 DEF LoseLease, Open, BodyRaises, Locked, Done
<1>3. ASSUME NEW t \in Threads, Flush(t) PROVE LockReleased'  BY <1>0, <1>3 DEF Flush
<1>4. ASSUME NEW t \in Threads, Commit(t) \/ CommitFails(t) \/ Rollback(t) PROVE LockReleased'
  BY <1>0, <1>4, StyleAssumption DEF Commit, CommitFails, Rollback, StyleAssumption
<1> QED  BY <1>1, <1>2, <1>3, <1>4
         DEF ScopeNext, Step, TakeLease, GetLease, CloseLease, Schedule, allVars, dbVars

\* A step of the lease closes the outermost block of a thread only if no nested
\* block is open, and touches no other thread's.
LEMMA OuterKept ==
    ASSUME SInv, NEW t \in Threads, NEW u \in Threads, outer[u],
           Enter(t) \/ Proceed(t) \/ Exit(t) \/ Grant(t) \/ Revoke(t)
    PROVE  outer'[u] \/ (u = t /\ ExitOuter(t) /\ depth[t] = 1)
<1>1. outer \in [Threads -> BOOLEAN] /\ DepthAccounting  BY DEF SInv, IInv, TypeOK
<1>2. CASE ExitOuter(t)
  BY <1>1, <1>2 DEF ExitOuter, DepthAccounting
<1>3. CASE ~ExitOuter(t)
  BY <1>1, <1>3 DEF Enter, EnterNested, EnterOuter, Proceed, WalAccepts, WalRejects, Acquire, TimeOut,
                    Record, Exit, ExitNested, Release, Grant, Revoke
<1> QED  BY <1>2, <1>3

LEMMA StepWriterInside ==
    ASSUME SInv, [ScopeNext]_allVars
    PROVE  WriterInside'
<1>0. /\ writer \in Threads \cup {NoThread} /\ phase \in [Threads -> Phases]
      /\ \A t \in Threads : writer = t => phase[t] \in {"dirty", "failed"}
      /\ DepthAccounting /\ outer \in [Threads -> BOOLEAN] /\ nested \in [Threads -> Nat]
  BY DEF SInv, ScopeTypeOK, LockReleased, IInv, TypeOK
<1>1. CASE UNCHANGED allVars  BY <1>1 DEF allVars, dbVars, leaseVars, SInv, WriterInside
<1>2. ASSUME NEW t \in Threads, UNCHANGED writer,
             \A u \in Threads : phase[u] = "failed" => phase'[u] = "failed",
             Enter(t) \/ Proceed(t) \/ Exit(t) \/ Grant(t) \/ Revoke(t),
             ExitOuter(t) => CloseLease(t)
      PROVE  WriterInside'
  <2> SUFFICES ASSUME NEW u \in Threads, writer = u, u \in LeaseFirst PROVE outer'[u]
    <3>1. \A u \in Threads : writer = u => u \in LeaseFirst \cup FlushFirst \/ phase'[u] = "failed"
      BY <1>2 DEF WriterInside, SInv
    <3> QED  BY <1>2, <3>1 DEF WriterInside
  <2>1. outer[u]  BY DEF SInv, WriterInside
  <2>2. CASE outer'[u]  BY <2>2
  <2>3. CASE u = t /\ ExitOuter(t) /\ depth[t] = 1
    <3>1. pc[t] = "free"  BY <2>3 DEF ExitOuter
    <3>2. Base(t) = 1  BY <2>3 DEF Base
    <3>3. phase[t] = "closed"  BY <1>2, <2>3, <3>1, <3>2 DEF CloseLease
    <3> QED  BY <1>0, <2>3, <3>3
  <2> QED  BY <1>2, <2>1, <2>2, <2>3, OuterKept
<1>3. ASSUME NEW t \in Threads, TakeLease(t) \/ GetLease(t) \/ LoseLease(t) \/ CloseLease(t) \/ Schedule(t)
      PROVE  WriterInside'
  <2>1. UNCHANGED writer /\ (Enter(t) \/ Proceed(t) \/ Exit(t) \/ Grant(t) \/ Revoke(t))
    BY <1>3 DEF TakeLease, GetLease, LoseLease, CloseLease, Schedule, Proceed, dbVars
  <2>2. ExitOuter(t) => CloseLease(t)
    <3> SUFFICES ASSUME ExitOuter(t), ~CloseLease(t) PROVE FALSE  OBVIOUS
    <3>1. pc[t] = "free" /\ pc'[t] = "leaving"  BY <1>0 DEF ExitOuter, SInv, IInv, TypeOK
    <3> QED
      BY <1>3, <3>1 DEF TakeLease, GetLease, LoseLease, Schedule, Enter, EnterNested, EnterOuter,
                        WalAccepts, WalRejects, Acquire, TimeOut, Record, Grant, Revoke, SInv, IInv, TypeOK
  <2>3. \A u \in Threads : phase[u] = "failed" => phase'[u] = "failed"
    BY <1>0, <1>3 DEF TakeLease, GetLease, LoseLease, CloseLease, Schedule, dbVars
  <2> QED  BY <1>2, <2>1, <2>2, <2>3
<1>4. ASSUME NEW t \in Threads, Flush(t) PROVE WriterInside'
  <2>1. writer' = t /\ UNCHANGED outer /\ t \in LeaseFirst \cup FlushFirst /\ depth[t] = Base(t)
    BY <1>4 DEF Flush, leaseVars
  <2>2. t \in LeaseFirst => outer[t]
    <3> SUFFICES ASSUME t \in LeaseFirst, ~outer[t] PROVE FALSE  OBVIOUS
    <3>1. nested[t] = 0  BY <1>0 DEF DepthAccounting
    <3>2. depth[t] = 0  BY <1>0, <3>1 DEF DepthAccounting
    <3> QED  BY <2>1, <3>2 DEF Base
  <2> QED  BY <2>1, <2>2 DEF WriterInside
<1>5. ASSUME NEW t \in Threads,
             Open(t) \/ BodyRaises(t) \/ Locked(t) \/ Commit(t) \/ Rollback(t) \/ Done(t)
      PROVE  WriterInside'
  <2>1. UNCHANGED outer /\ writer' \in {writer, NoThread}
    BY <1>5 DEF Open, BodyRaises, Locked, Commit, Rollback, Done, leaseVars
  <2>2. \A u \in Threads : writer' = u /\ phase[u] = "failed" => phase'[u] = "failed"
    BY <1>0, <1>5, StyleAssumption DEF Open, BodyRaises, Locked, Commit, Rollback, Done, StyleAssumption
  <2> QED  BY <1>0, <2>1, <2>2, StyleAssumption DEF WriterInside, SInv, StyleAssumption
<1>6. ASSUME NEW t \in Threads, CommitFails(t) PROVE WriterInside'
  <2>1. UNCHANGED outer /\ writer' \in {NoThread, t} /\ phase'[t] = "failed" /\ depth[t] = Base(t) + 1
    BY <1>0, <1>6 DEF CommitFails, InCommit, leaseVars
  <2>2. t \in LeaseFirst => outer[t]
    <3> SUFFICES ASSUME t \in LeaseFirst, ~outer[t] PROVE FALSE  OBVIOUS
    <3>1. nested[t] = 0  BY <1>0 DEF DepthAccounting
    <3>2. depth[t] = 0  BY <1>0, <3>1 DEF DepthAccounting
    <3> QED  BY <2>1, <3>2 DEF Base
  <2> QED  BY <2>1, <2>2, StyleAssumption DEF WriterInside, StyleAssumption
<1> QED  BY <1>1, <1>3, <1>4, <1>5, <1>6 DEF ScopeNext, Step

\* The inductive invariant of the composition.
LEMMA ScopeInductive == ScopeSpec => []SInv
<1>1. SInv /\ [ScopeNext]_allVars => SInv'
  BY LeaseStep, StepTypeOK, StepDepth, StepPermits, StepScopeType, StepLockReleased, StepWriterInside
  DEF SInv, IInv
<1> QED  BY <1>1, InitSInv, PTL DEF ScopeSpec

\* A session scope leaves SQLite's lock free when it has committed or rolled back,
\* with or without a lease, for any number of scopes that time out on either lock.
THEOREM LocksReleased == ScopeSpec => []LockReleased
BY ScopeInductive, PTL DEF SInv

\* With one permit, SQLite's lock and the lease exclude each other between threads,
\* commits that fail included, but for a scope that flushes before it takes the
\* lease, and for the rollback of a failed commit that no outer lease encloses.
THEOREM Serialised == MaxWriters = 1 => (ScopeSpec => []WritersSerialised)
<1> SUFFICES ASSUME MaxWriters = 1 PROVE ScopeSpec => []WritersSerialised  OBVIOUS
<1>1. SInv /\ MutualExclusion => WritersSerialised
  BY StyleAssumption DEF SInv, WriterInside, MutualExclusion, WritersSerialised, StyleAssumption
<1>2. ScopeSpec => []MutualExclusion  BY ScopesUseLease, Exclusion, PTL
<1> QED  BY <1>1, <1>2, ScopeInductive, PTL
=============================================================================
