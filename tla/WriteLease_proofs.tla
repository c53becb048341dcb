-------------------------- MODULE WriteLease_proofs --------------------------
(***************************************************************************)
(* For every number of threads, writers and nested blocks: the write lease *)
(* neither loses nor makes up a permit, its dictionary agrees with the     *)
(* open blocks, and it implements its promise (LimitedHolds).              *)
(***************************************************************************)
EXTENDS WriteLease, FiniteSetTheorems, TLAPS

\* Inductive as it stands: DepthAccounting is what tells that a thread about to
\* take or return a permit has no block open, and TypeOK bounds permits below.
IInv == TypeOK /\ DepthAccounting /\ PermitAccounting

-----------------------------------------------------------------------------
\* Threads with a permit are finitely many.
LEMMA HoldersFinite ==
    /\ IsFiniteSet(Scoped) /\ Cardinality(Scoped) \in Nat
    /\ IsFiniteSet(Exclusive) /\ Cardinality(Exclusive) \in Nat
<1>1. Scoped \in SUBSET Threads /\ Exclusive \in SUBSET Threads  BY DEF Scoped, Exclusive
<1>2. IsFiniteSet(Threads)  BY LeaseAssumption DEF LeaseAssumption
<1>3. IsFiniteSet(Scoped) /\ IsFiniteSet(Exclusive)  BY <1>1, <1>2, FS_Subset
<1> QED  BY <1>3, FS_CardinalityType

\* No thread in the middle of taking or returning a permit has a block open.
LEMMA NothingOpen ==
    ASSUME TypeOK, DepthAccounting, NEW t \in Threads, pc[t] # "free"
    PROVE  ~outer[t] /\ nested[t] = 0 /\ depth[t] = 0
<1>1. ~outer[t]  BY DEF DepthAccounting
<1>2. nested[t] = 0  BY <1>1 DEF DepthAccounting, TypeOK
<1> QED  BY <1>1, <1>2 DEF DepthAccounting

LEMMA InitIInv == Init => IInv
<1> SUFFICES ASSUME Init PROVE IInv  OBVIOUS
<1>1. TypeOK  BY LeaseAssumption DEF Init, TypeOK, Steps, LeaseAssumption
<1>2. DepthAccounting  BY DEF Init, DepthAccounting
<1>3. PermitAccounting
  <2>1. Scoped = {} /\ Exclusive = {}  BY DEF Init, Scoped, Exclusive
  <2> QED  BY <2>1, FS_EmptySet, LeaseAssumption DEF Init, PermitAccounting, LeaseAssumption
<1> QED  BY <1>1, <1>2, <1>3 DEF IInv

-----------------------------------------------------------------------------
LEMMA StepTypeOK == IInv /\ [Next]_leaseVars => TypeOK'
<1> SUFFICES ASSUME TypeOK, DepthAccounting, [Next]_leaseVars PROVE TypeOK'  BY DEF IInv
<1> USE DEF TypeOK, Steps
<1>1. CASE UNCHANGED leaseVars  BY <1>1 DEF leaseVars
<1>2. ASSUME NEW t \in Threads, Enter(t) PROVE TypeOK'
  <2>1. CASE EnterNested(t)  BY <2>1 DEF EnterNested
  <2>2. CASE EnterOuter(t)  BY <2>2 DEF EnterOuter
  <2> QED  BY <1>2, <2>1, <2>2 DEF Enter
<1>3. ASSUME NEW t \in Threads, Proceed(t) PROVE TypeOK'
  <2>1. CASE WalAccepts(t) \/ WalRejects(t) \/ TimeOut(t)  BY <2>1 DEF WalAccepts, WalRejects, TimeOut
  <2>2. CASE Acquire(t)  BY <2>2 DEF Acquire
  <2>3. CASE Record(t)  BY <2>3 DEF Record
  <2> QED  BY <1>3, <2>1, <2>2, <2>3 DEF Proceed
<1>4. ASSUME NEW t \in Threads, Exit(t) PROVE TypeOK'
  <2>1. Decremented(t) \in [Threads -> Nat]  BY DEF Decremented
  <2>2. CASE ExitNested(t)  BY <2>1, <2>2 DEF ExitNested
  <2>3. CASE ExitOuter(t)  BY <2>1, <2>3 DEF ExitOuter
  <2>4. CASE Release(t)  BY <2>4 DEF Release
  <2> QED  BY <1>4, <2>2, <2>3, <2>4 DEF Exit
<1>5. ASSUME NEW t \in Threads, Grant(t) \/ Revoke(t) PROVE TypeOK'
  <2>1. CASE Grant(t)  BY <2>1 DEF Grant
  <2>2. CASE Revoke(t)  BY <2>2 DEF Revoke
  <2> QED  BY <1>5, <2>1, <2>2
<1> QED  BY <1>1, <1>2, <1>3, <1>4, <1>5 DEF Next

LEMMA StepDepth == IInv /\ [Next]_leaseVars => DepthAccounting'
<1> SUFFICES ASSUME TypeOK, DepthAccounting, [Next]_leaseVars PROVE DepthAccounting'  BY DEF IInv
<1> USE DEF TypeOK, Steps, DepthAccounting
<1>1. CASE UNCHANGED leaseVars  BY <1>1 DEF leaseVars
<1>2. ASSUME NEW t \in Threads, Enter(t) PROVE DepthAccounting'
  BY <1>2 DEF Enter, EnterNested, EnterOuter, Holding
<1>3. ASSUME NEW t \in Threads, Proceed(t) PROVE DepthAccounting'
  <2>1. CASE Record(t)
    <3>1. ~outer[t] /\ nested[t] = 0 /\ depth[t] = 0  BY <2>1, NothingOpen DEF Record
    <3> QED  BY <2>1, <3>1 DEF Record
  <2>2. CASE WalAccepts(t) \/ WalRejects(t) \/ Acquire(t) \/ TimeOut(t)
    BY <2>2 DEF WalAccepts, WalRejects, Acquire, TimeOut
  <2> QED  BY <1>3, <2>1, <2>2 DEF Proceed
<1>4. ASSUME NEW t \in Threads, Exit(t) PROVE DepthAccounting'
  BY <1>4 DEF Exit, ExitNested, ExitOuter, Release, Decremented
<1>5. ASSUME NEW t \in Threads, Grant(t) \/ Revoke(t) PROVE DepthAccounting'
  BY <1>5 DEF Grant, Revoke
<1> QED  BY <1>1, <1>2, <1>3, <1>4, <1>5 DEF Next

-----------------------------------------------------------------------------
\* What each step does to the two sets of holders.
LEMMA StepHolders ==
    ASSUME TypeOK, DepthAccounting, [Next]_leaseVars
    PROVE  \/ Scoped' = Scoped /\ Exclusive' = Exclusive /\ permits' = permits
           \/ \E t \in Threads \ Scoped :
                Scoped' = Scoped \cup {t} /\ Exclusive' = Exclusive /\ permits' = permits - 1 /\ permits > 0
           \/ \E t \in Scoped :
                Scoped' = Scoped \ {t} /\ Exclusive' = Exclusive /\ permits' = permits + 1
           \/ \E t \in Threads \ Exclusive :
                Exclusive' = Exclusive \cup {t} /\ Scoped' = Scoped /\ permits' = permits - 1 /\ permits > 0
           \/ \E t \in Exclusive :
                Exclusive' = Exclusive \ {t} /\ Scoped' = Scoped /\ permits' = permits + 1
<1> USE DEF TypeOK, Steps, Scoped, Exclusive
<1>1. CASE UNCHANGED leaseVars  BY <1>1 DEF leaseVars
<1>2. ASSUME NEW t \in Threads, Enter(t)
      PROVE  Scoped' = Scoped /\ Exclusive' = Exclusive /\ permits' = permits
  BY <1>2 DEF Enter, EnterNested, EnterOuter
<1>3. ASSUME NEW t \in Threads, WalAccepts(t) \/ WalRejects(t) \/ TimeOut(t) \/ Record(t)
      PROVE  Scoped' = Scoped /\ Exclusive' = Exclusive /\ permits' = permits
  BY <1>3 DEF WalAccepts, WalRejects, TimeOut, Record
<1>4. ASSUME NEW t \in Threads, Acquire(t)
      PROVE  /\ t \in Threads \ Scoped /\ Scoped' = Scoped \cup {t}
             /\ Exclusive' = Exclusive /\ permits' = permits - 1 /\ permits > 0
  <2>1. ~outer[t]  BY <1>4, NothingOpen DEF Acquire
  <2> QED  BY <1>4, <2>1 DEF Acquire
<1>5. ASSUME NEW t \in Threads, ExitNested(t) \/ ExitOuter(t)
      PROVE  Scoped' = Scoped /\ Exclusive' = Exclusive /\ permits' = permits
  BY <1>5 DEF ExitNested, ExitOuter
<1>6. ASSUME NEW t \in Threads, Release(t)
      PROVE  /\ t \in Scoped /\ Scoped' = Scoped \ {t}
             /\ Exclusive' = Exclusive /\ permits' = permits + 1
  <2>1. ~outer[t]  BY <1>6, NothingOpen DEF Release
  <2> QED  BY <1>6, <2>1 DEF Release
<1>7. ASSUME NEW t \in Threads, Grant(t)
      PROVE  /\ t \in Threads \ Exclusive /\ Exclusive' = Exclusive \cup {t}
             /\ Scoped' = Scoped /\ permits' = permits - 1 /\ permits > 0
  BY <1>7 DEF Grant
<1>8. ASSUME NEW t \in Threads, Revoke(t)
      PROVE  /\ t \in Exclusive /\ Exclusive' = Exclusive \ {t}
             /\ Scoped' = Scoped /\ permits' = permits + 1
  BY <1>8 DEF Revoke
<1> HIDE DEF TypeOK, Steps, Scoped, Exclusive
<1> QED
  BY <1>1, <1>2, <1>3, <1>4, <1>5, <1>6, <1>7, <1>8 DEF Next, Enter, Proceed, Exit

LEMMA StepPermits == IInv /\ [Next]_leaseVars => PermitAccounting'
<1> SUFFICES ASSUME TypeOK, DepthAccounting, PermitAccounting, [Next]_leaseVars
             PROVE  PermitAccounting'
  BY DEF IInv
<1> USE DEF PermitAccounting
<1>0. permits \in Nat /\ MaxWriters \in Nat  BY LeaseAssumption DEF TypeOK, LeaseAssumption
<1>1. CASE Scoped' = Scoped /\ Exclusive' = Exclusive /\ permits' = permits  BY <1>1
<1>2. ASSUME NEW t \in Threads \ Scoped,
             Scoped' = Scoped \cup {t}, Exclusive' = Exclusive, permits' = permits - 1
      PROVE  PermitAccounting'
  <2>1. Cardinality(Scoped') = Cardinality(Scoped) + 1  BY <1>2, HoldersFinite, FS_AddElement
  <2> QED  BY <1>0, <1>2, <2>1, HoldersFinite
<1>3. ASSUME NEW t \in Scoped,
             Scoped' = Scoped \ {t}, Exclusive' = Exclusive, permits' = permits + 1
      PROVE  PermitAccounting'
  <2>1. Cardinality(Scoped') = Cardinality(Scoped) - 1  BY <1>3, HoldersFinite, FS_RemoveElement
  <2> QED  BY <1>0, <1>3, <2>1, HoldersFinite
<1>4. ASSUME NEW t \in Threads \ Exclusive,
             Exclusive' = Exclusive \cup {t}, Scoped' = Scoped, permits' = permits - 1
      PROVE  PermitAccounting'
  <2>1. Cardinality(Exclusive') = Cardinality(Exclusive) + 1  BY <1>4, HoldersFinite, FS_AddElement
  <2> QED  BY <1>0, <1>4, <2>1, HoldersFinite
<1>5. ASSUME NEW t \in Exclusive,
             Exclusive' = Exclusive \ {t}, Scoped' = Scoped, permits' = permits + 1
      PROVE  PermitAccounting'
  <2>1. Cardinality(Exclusive') = Cardinality(Exclusive) - 1  BY <1>5, HoldersFinite, FS_RemoveElement
  <2> QED  BY <1>0, <1>5, <2>1, HoldersFinite
<1> QED  BY <1>1, <1>2, <1>3, <1>4, <1>5, StepHolders

-----------------------------------------------------------------------------
THEOREM Invariance == Spec => []IInv
<1>1. IInv /\ [Next]_leaseVars => IInv'  BY StepTypeOK, StepDepth, StepPermits DEF IInv
<1> QED  BY <1>1, InitIInv, PTL DEF Spec

\* The state of the lease has its type: the semaphore is never below zero, and
\* no thread's depth is.
THEOREM TypeCorrect == Spec => []TypeOK
<1>1. IInv => TypeOK  BY DEF IInv
<1> QED  BY <1>1, Invariance, PTL

\* db_write_lease neither loses nor makes up a permit, however blocks nest, time
\* out, are rejected or raise, and whatever the scheduler takes for jobs.
THEOREM PermitsAccounted == Spec => []PermitAccounting
<1>1. IInv => PermitAccounting  BY DEF IInv
<1> QED  BY <1>1, Invariance, PTL

\* _lease_holders agrees with the open blocks of every thread.
THEOREM DepthsAccounted == Spec => []DepthAccounting
<1>1. IInv => DepthAccounting  BY DEF IInv
<1> QED  BY <1>1, Invariance, PTL

\* With one writer (SQLite), blocks of two threads are never open together.
THEOREM Exclusion == Spec => []MutualExclusion
<1>1. ASSUME IInv, MaxWriters = 1, NEW t \in Threads, NEW u \in Threads, outer[t], outer[u], t # u
      PROVE  FALSE
  <2>1. {t, u} \in SUBSET Scoped  BY <1>1 DEF Scoped
  <2>2. Cardinality({t, u}) <= Cardinality(Scoped)  BY <2>1, HoldersFinite, FS_Subset
  <2>3. IsFiniteSet({t}) /\ Cardinality({t}) = 1  BY FS_Singleton
  <2>4. Cardinality({t} \cup {u}) = 2  BY <1>1, <2>3, FS_AddElement
  <2>5. {t} \cup {u} = {t, u}  OBVIOUS
  <2>6. permits \in Nat /\ permits + Cardinality(Scoped) + Cardinality(Exclusive) = 1
    BY <1>1 DEF IInv, TypeOK, PermitAccounting
  <2> QED  BY <2>2, <2>4, <2>5, <2>6, HoldersFinite
<1>2. IInv => MutualExclusion  BY <1>1 DEF MutualExclusion
<1> QED  BY <1>2, Invariance, PTL

-----------------------------------------------------------------------------
(* The refinement. *)

LEMMA HoldsCounted ==
    Cardinality(Holds) = Cardinality(Scoped) + Cardinality(Exclusive)
<1>1. /\ IsFiniteSet({"scoped"}) /\ Cardinality({"scoped"}) = 1
      /\ IsFiniteSet({"exclusive"}) /\ Cardinality({"exclusive"}) = 1
  BY FS_Singleton
<1> DEFINE A == Scoped \X {"scoped"}
           B == Exclusive \X {"exclusive"}
<1>2. IsFiniteSet(A) /\ Cardinality(A) = Cardinality(Scoped)
  <2>1. IsFiniteSet(A) /\ Cardinality(A) = Cardinality(Scoped) * Cardinality({"scoped"})
    BY <1>1, HoldersFinite, FS_Product, ZenonT(30)
  <2> QED  BY <1>1, <2>1, HoldersFinite
<1>3. IsFiniteSet(B) /\ Cardinality(B) = Cardinality(Exclusive)
  <2>1. IsFiniteSet(B) /\ Cardinality(B) = Cardinality(Exclusive) * Cardinality({"exclusive"})
    BY <1>1, HoldersFinite, FS_Product, ZenonT(30)
  <2> QED  BY <1>1, <2>1, HoldersFinite
<1>4. A \cap B = {}  OBVIOUS
<1>5. Cardinality(A \cup B) = Cardinality(A) + Cardinality(B) - Cardinality(A \cap B)
  BY <1>2, <1>3, FS_Union
<1>6. Cardinality(A \cap B) = 0  BY <1>4, FS_EmptySet
<1>7. Holds = A \cup B  BY DEF Holds
<1> QED  BY <1>2, <1>3, <1>5, <1>6, <1>7, HoldersFinite

\* The promise's module has a Cardinality of its own.
LEMMA SameCardinality == \A S : Promise!Cardinality(S) = Cardinality(S)
BY DEF Promise!Cardinality, Cardinality

\* The lease, nested blocks and scheduler included, is a place with room for
\* MaxWriters that clients enter and leave one at a time.
THEOREM Refinement == Spec => PromiseSpec
<1>1. Init => Promise!Init  BY DEF Init, Promise!Init, Holds, Scoped, Exclusive
<1>2. IInv /\ [Next]_leaseVars => [Promise!Next]_Holds
  <2> SUFFICES ASSUME IInv, [Next]_leaseVars PROVE Promise!Next \/ Holds' = Holds  OBVIOUS
  <2> DEFINE Clients == Threads \X {"scoped", "exclusive"}
  <2>1. permits > 0 => Cardinality(Holds) < MaxWriters
    <3>1. permits \in Nat /\ MaxWriters \in Nat  BY LeaseAssumption DEF IInv, TypeOK, LeaseAssumption
    <3> QED  BY <3>1, HoldsCounted, HoldersFinite DEF IInv, PermitAccounting
  <2>2. CASE Scoped' = Scoped /\ Exclusive' = Exclusive  BY <2>2 DEF Holds
  <2>3. ASSUME NEW t \in Threads \ Scoped, permits > 0, Scoped' = Scoped \cup {t}, Exclusive' = Exclusive
        PROVE  Promise!Next
    <3>1. <<t, "scoped">> \in Clients /\ <<t, "scoped">> \notin Holds  BY <2>3 DEF Holds
    <3>2. Holds' = Holds \cup {<<t, "scoped">>}  BY <2>3 DEF Holds
    <3>3. Promise!Take(<<t, "scoped">>)  BY <2>1, <2>3, <3>1, <3>2, SameCardinality DEF Promise!Take
    <3> QED  BY <3>1, <3>3 DEF Promise!Next
  <2>4. ASSUME NEW t \in Scoped, Scoped' = Scoped \ {t}, Exclusive' = Exclusive
        PROVE  Promise!Next
    <3>1. <<t, "scoped">> \in Clients /\ <<t, "scoped">> \in Holds  BY <2>4 DEF Holds, Scoped
    <3>2. Holds' = Holds \ {<<t, "scoped">>}  BY <2>4 DEF Holds
    <3>3. Promise!Give(<<t, "scoped">>)  BY <3>1, <3>2 DEF Promise!Give
    <3> QED  BY <3>1, <3>3 DEF Promise!Next
  <2>5. ASSUME NEW t \in Threads \ Exclusive, permits > 0, Exclusive' = Exclusive \cup {t}, Scoped' = Scoped
        PROVE  Promise!Next
    <3>1. <<t, "exclusive">> \in Clients /\ <<t, "exclusive">> \notin Holds  BY <2>5 DEF Holds
    <3>2. Holds' = Holds \cup {<<t, "exclusive">>}  BY <2>5 DEF Holds
    <3>3. Promise!Take(<<t, "exclusive">>)  BY <2>1, <2>5, <3>1, <3>2, SameCardinality DEF Promise!Take
    <3> QED  BY <3>1, <3>3 DEF Promise!Next
  <2>6. ASSUME NEW t \in Exclusive, Exclusive' = Exclusive \ {t}, Scoped' = Scoped
        PROVE  Promise!Next
    <3>1. <<t, "exclusive">> \in Clients /\ <<t, "exclusive">> \in Holds  BY <2>6 DEF Holds, Exclusive
    <3>2. Holds' = Holds \ {<<t, "exclusive">>}  BY <2>6 DEF Holds
    <3>3. Promise!Give(<<t, "exclusive">>)  BY <3>1, <3>2 DEF Promise!Give
    <3> QED  BY <3>1, <3>3 DEF Promise!Next
  <2> QED  BY <2>2, <2>3, <2>4, <2>5, <2>6, StepHolders DEF IInv
<1> QED  BY <1>1, <1>2, Invariance, PTL DEF Spec, PromiseSpec, Promise!Spec
=============================================================================
