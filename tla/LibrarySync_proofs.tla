-------------------------- MODULE LibrarySync_proofs --------------------------
(***************************************************************************)
(* For every library, chunk size and number of events: a run of the sync   *)
(* never stores a time of the native reader that is later than the tags,   *)
(* and keeps the rows of the files that were there.                        *)
(***************************************************************************)
EXTENDS LibrarySync, FiniteSetTheorems, TLAPS

Rec == [mtime : Nat, tags : Nat, late : BOOLEAN]

\* Functions on some of the files.
Partial(T) == UNION {[S -> T] : S \in SUBSET Files}

Local == [pc : {"idle", "clear", "read", "walk", "extract", "tags", "look", "time", "upsert"},
          mode : Modes,
          known : Partial(Nat), unwalked : SUBSET Files, seen : SUBSET Files,
          dirty : SUBSET Files, at : SUBSET Files, stamp : Nat, tags : Nat,
          chunk : Partial(Rec)]

TypeOK ==
    /\ disk \in [Files -> Nat] /\ hidden \subseteq Files /\ flying \subseteq Files
    /\ events \in Nat /\ steady \subseteq Files
    /\ rows \in Partial(Rec)
    /\ sync \in Local

\* Versions are named by times that have passed.  A file that is being read is at
\* its stamped version, at a later one, or gone, and so are its tags if it has any.
TimesPass ==
    /\ \A f \in Files : disk[f] <= events
    /\ sync.stamp <= events /\ sync.tags <= events
    /\ sync.tags = 0 \/ sync.stamp <= sync.tags
    /\ \A f \in sync.at : disk[f] = 0 \/ sync.stamp <= disk[f]

\* What NeverBehind says of the rows, it says of the chunk that becomes rows.
Behind(r) == r.tags # 0 /\ ~r.late /\ r.tags < r.mtime
ChunkNeverBehind == \A f \in DOMAIN sync.chunk : ~Behind(sync.chunk[f])

Between == {"idle", "clear", "read", "walk", "extract", "upsert"}

\* A steady file is listed and not in flight, and the walk has it still to come
\* or has seen it.  Tags are only held while a file is read.
Walked ==
    /\ \A f \in steady : Listed(f) /\ f \notin flying
    /\ sync.pc = "walk" => steady \subseteq sync.seen \cup sync.unwalked
    /\ sync.pc = "clear" => sync.mode = "full_rebuild"
    /\ sync.pc \in Between => sync.tags = 0

IInv == TypeOK /\ TimesPass /\ ChunkNeverBehind /\ NeverBehind /\ Walked

USE SyncAssumption DEF SyncAssumption

-----------------------------------------------------------------------------
LEMMA NoneTyped == \A T : <<>> \in Partial(T) /\ DOMAIN <<>> = {}
<1> SUFFICES ASSUME NEW T PROVE <<>> \in Partial(T) /\ DOMAIN <<>> = {}  OBVIOUS
<1>1. <<>> \in [{} -> T] /\ DOMAIN <<>> = {}  OBVIOUS
<1> QED  BY <1>1 DEF Partial

LEMMA PartialTyped ==
    ASSUME NEW T, NEW S \in SUBSET Files, NEW g, g = [f \in S |-> g[f]], \A f \in S : g[f] \in T
    PROVE  g \in Partial(T)
<1>1. g \in [S -> T]  OBVIOUS
<1> QED  BY <1>1 DEF Partial

LEMMA InPartial ==
    ASSUME NEW T, NEW g \in Partial(T)
    PROVE  DOMAIN g \subseteq Files /\ g = [f \in DOMAIN g |-> g[f]] /\ \A f \in DOMAIN g : g[f] \in T
<1>1. PICK S \in SUBSET Files : g \in [S -> T]  BY DEF Partial
<1> QED  BY <1>1

LEMMA UpsertedValues ==
    ASSUME NEW g, NEW h
    PROVE  /\ DOMAIN Upserted(g, h) = DOMAIN g \cup DOMAIN h
           /\ \A f \in DOMAIN g : Upserted(g, h)[f] = g[f]
           /\ \A f \in DOMAIN h \ DOMAIN g : Upserted(g, h)[f] = h[f]
BY DEF Upserted

LEMMA UpsertedTyped ==
    ASSUME NEW T, NEW g \in Partial(T), NEW h \in Partial(T)
    PROVE  Upserted(g, h) \in Partial(T)
<1> DEFINE S == DOMAIN g \cup DOMAIN h
<1>1. S \subseteq Files /\ \A f \in S : Upserted(g, h)[f] \in T  BY InPartial DEF Upserted
<1>2. Upserted(g, h) = [f \in S |-> Upserted(g, h)[f]]  BY DEF Upserted
<1> HIDE DEF S
<1> QED  BY <1>1, <1>2, PartialTyped

LEMMA IdleTyped == Idle \in Local
BY NoneTyped DEF Idle, Local, Modes

LEMMA InitIInv == Init => IInv
<1> SUFFICES ASSUME Init PROVE IInv  OBVIOUS
<1> USE NoneTyped DEF Init
<1>1. TypeOK  BY IdleTyped DEF TypeOK
<1>2. TimesPass /\ ChunkNeverBehind /\ NeverBehind /\ Walked
  BY DEF TimesPass, ChunkNeverBehind, NeverBehind, Walked, Idle
<1> QED  BY <1>1, <1>2 DEF IInv

-----------------------------------------------------------------------------
\* The row that a reading ends with joins the chunk.
LEMMA RowJoins ==
    ASSUME TypeOK, ChunkNeverBehind, NEW f \in Files, NEW row \in Rec, ~Behind(row)
    PROVE  /\ Upserted([g \in {f} |-> row], sync.chunk) \in Partial(Rec)
           /\ \A h \in DOMAIN Upserted([g \in {f} |-> row], sync.chunk) :
                 ~Behind(Upserted([g \in {f} |-> row], sync.chunk)[h])
<1> DEFINE one == [g \in {f} |-> row]
<1>1. one \in Partial(Rec)
  <2>1. one \in [{f} -> Rec] /\ {f} \in SUBSET Files  OBVIOUS
  <2> HIDE DEF one
  <2> QED  BY <2>1 DEF Partial
<1>2. sync.chunk \in Partial(Rec)  BY DEF TypeOK, Local
<1>3. DOMAIN one = {f} /\ one[f] = row  OBVIOUS
<1> HIDE DEF one
<1>4. Upserted(one, sync.chunk) \in Partial(Rec)  BY <1>1, <1>2, UpsertedTyped
<1>5. /\ DOMAIN Upserted(one, sync.chunk) = {f} \cup DOMAIN sync.chunk
      /\ Upserted(one, sync.chunk)[f] = row
      /\ \A g \in DOMAIN sync.chunk \ {f} : Upserted(one, sync.chunk)[g] = sync.chunk[g]
  BY <1>3 DEF Upserted
<1>6. \A h \in DOMAIN Upserted(one, sync.chunk) : ~Behind(Upserted(one, sync.chunk)[h])
  BY <1>5 DEF ChunkNeverBehind
<1> QED  BY <1>4, <1>6 DEF one

LEMMA ExtractedEffect ==
    ASSUME TypeOK, NEW f, NEW chunk \in Partial(Rec), \A g \in DOMAIN chunk : ~Behind(chunk[g]),
           Extracted(f, chunk)
    PROVE  /\ sync' \in Local /\ sync'.pc \in {"upsert", "extract"}
           /\ sync'.at = {} /\ sync'.stamp = 0 /\ sync'.tags = 0
           /\ ChunkNeverBehind'
<1> DEFINE todo == sync.dirty \ {f}
<1>1. PICK p \in {"upsert", "extract"} :
         sync' = [sync EXCEPT !.pc = p, !.dirty = todo, !.at = {}, !.stamp = 0, !.tags = 0,
                              !.chunk = chunk]
  BY DEF Extracted
<1>2. todo \subseteq Files  BY DEF TypeOK, Local
<1> HIDE DEF todo
<1> QED  BY <1>1, <1>2 DEF TypeOK, Local, ChunkNeverBehind

-----------------------------------------------------------------------------
\* What happens around the sync, and the end of a run.
LEMMA OutsideStep ==
    ASSUME IInv, NEW f,
           \/ f \in Files /\ (Write(f) \/ Delete(f) \/ TakeOff(f) \/ Land(f))
           \/ Hide \/ Kill \/ GiveUp
    PROVE  IInv'
<1> USE DEF IInv
<1>1. UNCHANGED <<rows, sync>>  BY DEF Write, Delete, TakeOff, Land, Hide, Kill, GiveUp, outside
<1>2. ChunkNeverBehind' /\ NeverBehind'  BY <1>1 DEF ChunkNeverBehind, NeverBehind
<1>3. events' \in Nat /\ events <= events' /\ \A g \in Files :
         /\ disk'[g] \in Nat /\ disk'[g] <= events'
         /\ disk'[g] = disk[g] \/ disk'[g] = 0 \/ disk'[g] = events'
  BY DEF Write, Delete, TakeOff, Land, Hide, Kill, GiveUp, outside, Happens, TypeOK, TimesPass
<1>4. TypeOK'
  <2>1. disk' \in [Files -> Nat]
    <3>1. disk' = [g \in Files |-> disk'[g]]
      BY DEF Write, Delete, TakeOff, Land, Hide, Kill, GiveUp, outside, TypeOK
    <3> QED  BY <1>3, <3>1
  <2>2. hidden' \subseteq Files /\ flying' \subseteq Files /\ steady' \subseteq Files
    BY DEF Write, Delete, TakeOff, Land, Hide, Kill, GiveUp, outside, TypeOK
  <2> QED  BY <1>1, <1>3, <2>1, <2>2 DEF TypeOK
<1>5. TimesPass'
  <2>1. sync.stamp \in Nat /\ sync.tags \in Nat /\ sync.at \subseteq Files  BY DEF TypeOK, Local
  <2>2. \A g \in sync.at : disk'[g] = 0 \/ sync.stamp <= disk'[g]
    BY <1>3, <2>1 DEF TimesPass, TypeOK
  <2> QED  BY <1>1, <1>3, <2>1, <2>2 DEF TimesPass, TypeOK
<1>6. Walked'
  <2>1. steady' \subseteq steady  BY DEF Write, Delete, TakeOff, Land, Hide, Kill, GiveUp, outside
  <2>2. \A g \in steady' : disk'[g] # 0 /\ g \notin hidden' /\ g \notin flying'
    BY <2>1 DEF Write, Delete, TakeOff, Land, Hide, Kill, GiveUp, outside, Happens, Walked, Listed, TypeOK
  <2> QED  BY <1>1, <2>1, <2>2 DEF Walked, Listed
<1> QED  BY <1>2, <1>4, <1>5, <1>6

\* Where a step leaves the outside alone and keeps the chunk's promise, what is
\* left to see is its own part of the invariant.
LEMMA RunStep ==
    ASSUME IInv, UNCHANGED <<disk, hidden, flying, steady>>, events' \in Nat, events <= events',
           sync' \in Local, sync'.stamp = sync.stamp \/ sync'.stamp = 0,
           sync'.tags = sync.tags \/ sync'.tags = 0,
           sync'.stamp = sync.stamp \/ sync'.tags = 0,
           sync'.at = sync.at \/ sync'.at = {},
           sync'.pc \in Between => sync'.tags = 0 \/ sync.pc \in Between,
           rows' \in Partial(Rec),
           ChunkNeverBehind', NeverBehind',
           sync'.pc = "walk" => steady \subseteq sync'.seen \cup sync'.unwalked,
           sync'.pc # "clear"
    PROVE  IInv'
<1> USE DEF IInv
<1>1. TypeOK'  BY DEF TypeOK
<1>2. TimesPass'
  <2>1. sync.stamp \in Nat /\ sync.tags \in Nat /\ sync.at \subseteq Files /\ events \in Nat  BY DEF TypeOK, Local
  <2>2. \A g \in Files : disk[g] \in Nat  BY DEF TypeOK
  <2> QED  BY <2>1, <2>2 DEF TimesPass
<1>3. Walked'  BY DEF Walked, Listed
<1> QED  BY <1>1, <1>2, <1>3

\* Rows that are taken away leave a table that is still one.
LEMMA Kept ==
    ASSUME IInv, NEW S, rows' = [f \in DOMAIN rows \ S |-> rows[f]]
    PROVE  rows' \in Partial(Rec) /\ NeverBehind'
<1>1. rows \in Partial(Rec)  BY DEF IInv, TypeOK
<1>2. DOMAIN rows \subseteq Files /\ \A f \in DOMAIN rows : rows[f] \in Rec  BY <1>1, InPartial
<1>3. /\ DOMAIN rows' = DOMAIN rows \ S /\ \A f \in DOMAIN rows \ S : rows'[f] = rows[f]
      /\ rows' = [f \in DOMAIN rows \ S |-> rows'[f]]
  OBVIOUS
<1>4. rows' \in Partial(Rec)  BY <1>2, <1>3, PartialTyped
<1> QED  BY <1>3, <1>4 DEF IInv, NeverBehind, Rec

\* The steps of the run that write nothing.
LEMMA QuietStep ==
    ASSUME IInv, NEW f,
           Read \/ (f \in Files /\ (Walk(f) \/ StatFails(f))) \/ UpsertCancelled \/ Finish \/ Fail
    PROVE  IInv'
<1>1. /\ UNCHANGED <<disk, hidden, flying, steady, rows>> /\ events' \in Nat /\ events <= events'
      /\ rows' \in Partial(Rec) /\ NeverBehind'
  BY DEF Read, Walk, StatFails, UpsertCancelled, Finish, Fail, End, outside, Happens, IInv, TypeOK,
         NeverBehind
<1>2. sync \in Local /\ ChunkNeverBehind /\ Walked /\ steady \subseteq Files  BY DEF IInv, TypeOK
<1>3. CASE sync' = Idle
  <2>1. /\ Idle.stamp = 0 /\ Idle.tags = 0 /\ Idle.at = {} /\ Idle.chunk = <<>> /\ Idle.pc = "idle"  BY DEF Idle
  <2>2. ChunkNeverBehind'  BY <1>3, <2>1, NoneTyped DEF ChunkNeverBehind
  <2> QED  BY <1>1, <1>3, <2>1, <2>2, IdleTyped, RunStep
<1>4. CASE Read
  <2> DEFINE known == [g \in DOMAIN rows |-> rows[g].mtime]
  <2>1. known \in Partial(Nat)
    <3>1. DOMAIN rows \subseteq Files /\ \A g \in DOMAIN rows : rows[g] \in Rec
      <4>1. rows \in Partial(Rec)  BY DEF IInv, TypeOK
      <4>2. DOMAIN rows \subseteq Files /\ \A g \in DOMAIN rows : rows[g] \in Rec  BY <4>1, InPartial
      <4> QED  BY <4>2 DEF Rec
    <3>2. known = [g \in DOMAIN rows |-> known[g]] /\ \A g \in DOMAIN rows : known[g] \in Nat
      BY <3>1 DEF Rec
    <3> HIDE DEF known
    <3> QED  BY <3>1, <3>2, PartialTyped
  <2>2. sync' = [sync EXCEPT !.pc = "walk", !.unwalked = Files, !.known = known]  BY <1>4 DEF Read
  <2> HIDE DEF known
  <2>3. /\ sync' \in Local /\ sync'.pc = "walk" /\ sync'.unwalked = Files
        /\ sync'.stamp = sync.stamp /\ sync'.at = sync.at /\ sync'.tags = sync.tags
        /\ sync'.chunk = sync.chunk /\ sync.pc \in Between
    BY <1>2, <1>4, <2>1, <2>2 DEF Local, Read, Between
  <2>4. ChunkNeverBehind'  BY <1>2, <2>3 DEF ChunkNeverBehind
  <2> QED  BY <1>1, <1>2, <2>3, <2>4, RunStep
<1>5. CASE f \in Files /\ (Walk(f) \/ StatFails(f))
  <2>1. /\ sync' \in Local /\ sync'.pc = "walk" /\ sync.pc = "walk"
        /\ sync'.unwalked = sync.unwalked \ {f}
        /\ sync'.seen = sync.seen \/ sync'.seen = sync.seen \cup {f}
        /\ sync'.seen = sync.seen => ~Listed(f) \/ f \in flying \/ f \in sync.seen
        /\ sync'.stamp = sync.stamp /\ sync'.at = sync.at /\ sync'.tags = sync.tags /\ sync'.chunk = sync.chunk
    <3>1. sync.pc = "walk" /\ f \in Files  BY <1>5 DEF Walk, StatFails
    <3>2. CASE sync' = [sync EXCEPT !.unwalked = @ \ {f}] /\ (~Listed(f) \/ f \in flying)
      BY <1>2, <3>1, <3>2 DEF Local
    <3>3. CASE sync' = [sync EXCEPT !.unwalked = @ \ {f}, !.seen = @ \cup {f}]
      BY <1>2, <3>1, <3>3 DEF Local
    <3>4. CASE \E d \in {sync.dirty, sync.dirty \cup {f}} :
                  sync' = [sync EXCEPT !.unwalked = @ \ {f}, !.seen = @ \cup {f}, !.dirty = d]
      <4>1. PICK d \in {sync.dirty, sync.dirty \cup {f}} :
               sync' = [sync EXCEPT !.unwalked = @ \ {f}, !.seen = @ \cup {f}, !.dirty = d]
        BY <3>4
      <4>2. d \in SUBSET Files  BY <1>2, <3>1, <4>1 DEF Local
      <4> QED  BY <1>2, <3>1, <4>1, <4>2 DEF Local
    <3>5. CASE Walk(f)  BY <3>2, <3>4, <3>5 DEF Walk
    <3>6. CASE StatFails(f)  BY <3>3, <3>6 DEF StatFails
    <3> QED  BY <1>5, <3>5, <3>6
  <2>2. ChunkNeverBehind'  BY <1>2, <2>1 DEF ChunkNeverBehind
  <2>3. steady \subseteq sync'.seen \cup sync'.unwalked  BY <1>2, <2>1 DEF Walked
  <2> QED  BY <1>1, <2>1, <2>2, <2>3, RunStep DEF Between
<1>6. CASE UpsertCancelled
  <2>1. /\ sync' \in Local /\ sync'.pc = "extract" /\ sync'.chunk = <<>>
        /\ sync'.stamp = sync.stamp /\ sync'.at = sync.at /\ sync'.tags = sync.tags
        /\ sync.pc = "upsert"
    BY <1>2, <1>6, NoneTyped DEF UpsertCancelled, Local
  <2>2. ChunkNeverBehind'  BY <2>1, NoneTyped DEF ChunkNeverBehind
  <2> QED  BY <1>1, <2>1, <2>2, RunStep DEF Between
<1> QED  BY <1>3, <1>4, <1>5, <1>6 DEF Finish, Fail, End

\* A run starts with what is there now.
LEMMA StartStep ==
    ASSUME IInv, NEW mode \in Modes, Start(mode)
    PROVE  IInv'
<1> DEFINE p == IF mode = "full_rebuild" THEN "clear" ELSE "read"
<1>1. sync' = [Idle EXCEPT !.pc = p, !.mode = mode]  BY DEF Start
<1>2. /\ sync' \in Local /\ sync'.pc = p /\ sync'.mode = mode
      /\ sync'.stamp = 0 /\ sync'.tags = 0 /\ sync'.at = {} /\ sync'.chunk = <<>>
  BY <1>1, IdleTyped, NoneTyped DEF Local, Idle, Modes
<1>3. /\ UNCHANGED <<disk, hidden, flying, rows>> /\ events' \in Nat /\ events <= events'
      /\ steady' = {f \in Files : Listed(f) /\ f \notin flying}
  BY DEF Start, IInv, TypeOK, Happens
<1>4. TypeOK'  BY <1>2, <1>3 DEF IInv, TypeOK
<1>5. TimesPass'  BY <1>2, <1>3 DEF IInv, TypeOK, TimesPass
<1>6. ChunkNeverBehind' /\ NeverBehind'  BY <1>2, <1>3, NoneTyped DEF IInv, ChunkNeverBehind, NeverBehind
<1>7. Walked'  BY <1>2, <1>3 DEF Walked, Listed
<1> QED  BY <1>4, <1>5, <1>6, <1>7 DEF IInv

\* The steps that write rows.
LEMMA WriteStep ==
    ASSUME IInv, Clear \/ Prune \/ Upsert
    PROVE  IInv'
<1>1. /\ UNCHANGED <<disk, hidden, flying, steady, events>> /\ events \in Nat
      /\ sync \in Local /\ rows \in Partial(Rec)
      /\ ChunkNeverBehind /\ NeverBehind
  BY DEF Clear, Prune, Upsert, outside, IInv, TypeOK
<1>2. CASE Clear
  <2>1. /\ sync' \in Local /\ sync.pc = "clear" /\ sync'.pc = "read" /\ sync'.chunk = sync.chunk
        /\ sync'.stamp = sync.stamp /\ sync'.at = sync.at /\ sync'.tags = sync.tags
    BY <1>1, <1>2 DEF Clear, Local
  <2>2. rows' \in Partial(Rec) /\ NeverBehind'
    BY <1>2, NoneTyped DEF Clear, NeverBehind
  <2>3. ChunkNeverBehind'  BY <1>1, <2>1 DEF ChunkNeverBehind
  <2> QED  BY <1>1, <2>1, <2>2, <2>3, RunStep DEF Between
<1>3. CASE Prune
  <2>1. /\ sync' \in Local /\ sync.pc = "walk" /\ sync'.pc = "extract" /\ sync'.chunk = sync.chunk
        /\ sync'.stamp = sync.stamp /\ sync'.at = sync.at /\ sync'.tags = sync.tags
    BY <1>1, <1>3 DEF Prune, Local
  <2>2. rows' \in Partial(Rec) /\ NeverBehind'
    <3>1. CASE rows' = rows  BY <1>1, <3>1 DEF NeverBehind
    <3>2. CASE rows' = Restrict(rows, DOMAIN rows \ Orphans)
      <4>1. rows' = [f \in DOMAIN rows \ Orphans |-> rows[f]]  BY <3>2 DEF Restrict
      <4> QED  BY <4>1, Kept
    <3> QED  BY <1>3, <3>1, <3>2 DEF Prune
  <2>3. ChunkNeverBehind'  BY <1>1, <2>1 DEF ChunkNeverBehind
  <2> QED  BY <1>1, <2>1, <2>2, <2>3, RunStep DEF Between
<1>4. CASE Upsert
  <2>1. /\ sync' \in Local /\ sync.pc = "upsert" /\ sync'.pc = "extract" /\ sync'.chunk = <<>>
        /\ sync'.stamp = sync.stamp /\ sync'.at = sync.at /\ sync'.tags = sync.tags
        /\ sync.chunk \in Partial(Rec)
    BY <1>1, <1>4, NoneTyped DEF Upsert, Local
  <2>2. rows' = Upserted(sync.chunk, rows)  BY <1>4 DEF Upsert
  <2>3. rows' \in Partial(Rec)  BY <1>1, <2>1, <2>2, UpsertedTyped
  <2>4. NeverBehind'
    <3> SUFFICES ASSUME NEW f \in DOMAIN rows', rows'[f].tags # 0, ~rows'[f].late
                 PROVE  rows'[f].mtime <= rows'[f].tags
      BY DEF NeverBehind
    <3>1. DOMAIN rows' = DOMAIN sync.chunk \cup DOMAIN rows  BY <2>2 DEF Upserted
    <3>2. CASE f \in DOMAIN sync.chunk
      <4>1. rows'[f] = sync.chunk[f]  BY <2>2, <3>1, <3>2 DEF Upserted
      <4>2. sync.chunk[f] \in Rec  BY <2>1, <3>2, InPartial
      <4> QED  BY <1>1, <3>2, <4>1, <4>2 DEF ChunkNeverBehind, Behind, Rec
    <3>3. CASE f \notin DOMAIN sync.chunk
      <4>1. rows'[f] = rows[f] /\ f \in DOMAIN rows  BY <2>2, <3>1, <3>3 DEF Upserted
      <4> QED  BY <1>1, <4>1 DEF NeverBehind
    <3> QED  BY <3>2, <3>3
  <2>5. ChunkNeverBehind'  BY <2>1, NoneTyped DEF ChunkNeverBehind
  <2> QED  BY <1>1, <2>1, <2>3, <2>4, <2>5, RunStep DEF Between
<1> QED  BY <1>2, <1>3, <1>4

\* What a look at a path finds is its version, or nothing.
LEMMA LooksTyped ==
    ASSUME TypeOK, TimesPass, NEW f \in Files, NEW v \in Looks(f)
    PROVE  v \in Nat /\ v <= events /\ (v = disk[f] \/ v = 0)
BY DEF Looks, TypeOK, TimesPass

\* A file is read in steps: its time, its tags, what is known of it, and its time
\* again if there was none.
LEMMA ReadingStep ==
    ASSUME IInv, NEW f \in Files, Stamp(f) \/ Tags(f) \/ TagsFail(f) \/ Look(f) \/ Time(f)
    PROVE  IInv'
<1>1. /\ UNCHANGED <<disk, hidden, flying, steady, rows>> /\ events' \in Nat /\ events <= events'
      /\ events \in Nat /\ sync \in Local /\ rows \in Partial(Rec) /\ disk \in [Files -> Nat]
      /\ ChunkNeverBehind /\ NeverBehind /\ NeverBehind' /\ TypeOK /\ TimesPass /\ Walked
      /\ disk[f] \in Nat /\ sync.stamp \in Nat /\ disk[f] <= events
  <2>1. IInv /\ TypeOK /\ TimesPass /\ Walked  BY DEF IInv
  <2>2. /\ UNCHANGED <<disk, hidden, flying, steady, rows>>
        /\ events' = events \/ events' = events + 1
    BY DEF Stamp, Tags, TagsFail, Look, Time, outside, Happens
  <2>3. NeverBehind'  BY <2>2 DEF IInv, NeverBehind
  <2> QED  BY <2>1, <2>2, <2>3 DEF IInv, TypeOK, TimesPass, Local
<1>2. CASE Stamp(f)
  <2>1. PICK v \in Looks(f) : sync' = [sync EXCEPT !.pc = "tags", !.at = {f}, !.stamp = v]
    BY <1>2 DEF Stamp
  <2>2. v \in Nat /\ v <= events /\ (v = disk[f] \/ v = 0)  BY <1>1, LooksTyped
  <2>3. /\ sync' \in Local /\ sync'.pc = "tags" /\ sync'.chunk = sync.chunk
        /\ sync'.stamp = v /\ sync'.at = {f} /\ sync'.tags = sync.tags
    BY <1>1, <2>1, <2>2 DEF Local
  <2>4. sync.tags = 0  BY <1>2 DEF IInv, Walked, Stamp, Between
  <2>5. TypeOK'  BY <1>1, <2>3 DEF TypeOK
  <2>6. TimesPass'  BY <1>1, <2>2, <2>3, <2>4 DEF TimesPass
  <2>7. ChunkNeverBehind'  BY <1>1, <2>3 DEF ChunkNeverBehind
  <2>8. Walked'  BY <1>1, <2>3 DEF Walked, Listed, Between
  <2> QED  BY <1>1, <2>5, <2>6, <2>7, <2>8 DEF IInv
<1>3. ASSUME NEW time \in Nat, NEW tags \in Nat, time <= events, tags <= events,
             time \in {0, sync.stamp}, tags = 0 \/ time <= tags, Parsed(f, time, tags)
      PROVE  IInv'
  <2>1. PICK p \in {"look", "time"} : sync' = [sync EXCEPT !.pc = p, !.stamp = time, !.tags = tags]
    BY <1>3 DEF Parsed
  <2>2. /\ sync' \in Local /\ sync'.pc = p /\ sync'.chunk = sync.chunk
        /\ sync'.stamp = time /\ sync'.at = sync.at /\ sync'.tags = tags
    BY <1>1, <1>3, <2>1 DEF Local
  <2>3. TypeOK'  BY <1>1, <2>2 DEF TypeOK
  <2>4. TimesPass'
    <3>1. \A g \in Files : disk[g] \in Nat  BY <1>1
    <3>2. sync.at \subseteq Files  BY <1>1 DEF Local
    <3> QED  BY <1>1, <1>3, <2>2, <3>1, <3>2 DEF TimesPass
  <2>5. ChunkNeverBehind'  BY <1>1, <2>2 DEF ChunkNeverBehind
  <2>6. Walked'  BY <1>1, <2>2 DEF Walked, Listed, Between
  <2> QED  BY <1>1, <2>3, <2>4, <2>5, <2>6 DEF IInv
<1>4. CASE Tags(f)
  <2>1. PICK v \in Looks(f) : Parsed(f, sync.stamp, IF v \in Untagged THEN 0 ELSE v)
    BY <1>4 DEF Tags
  <2>2. v \in Nat /\ v <= events /\ (v = disk[f] \/ v = 0)  BY <1>1, LooksTyped
  <2>3. f \in sync.at /\ (disk[f] = 0 \/ sync.stamp <= disk[f]) /\ sync.stamp <= events
    BY <1>1, <1>4 DEF Tags, TimesPass
  <2> QED  BY <1>1, <1>3, <2>1, <2>2, <2>3
<1>5. CASE TagsFail(f)
  <2>1. PICK time \in {0, sync.stamp} : Parsed(f, time, 0)  BY <1>5 DEF TagsFail
  <2>2. sync.stamp <= events  BY <1>1 DEF TimesPass
  <2> QED  BY <1>1, <1>3, <2>1, <2>2
<1>6. CASE Look(f)
  <2>1. CASE Extracted(f, sync.chunk)
    <3>1. sync.chunk \in Partial(Rec) /\ \A g \in DOMAIN sync.chunk : ~Behind(sync.chunk[g])
      BY <1>1 DEF Local, ChunkNeverBehind
    <3> QED  BY <1>1, <2>1, <3>1, ExtractedEffect, RunStep
  <2>2. CASE sync' = [sync EXCEPT !.pc = "time"]
    <3>1. /\ sync' \in Local /\ sync'.pc = "time" /\ sync'.chunk = sync.chunk
          /\ sync'.stamp = sync.stamp /\ sync'.at = sync.at /\ sync'.tags = sync.tags
      BY <1>1, <2>2 DEF Local
    <3>2. ChunkNeverBehind'  BY <1>1, <3>1 DEF ChunkNeverBehind
    <3> QED  BY <1>1, <3>1, <3>2, RunStep DEF Between
  <2> QED  BY <1>6, <2>1, <2>2 DEF Look
<1>7. CASE Time(f)
  <2> DEFINE row(v) == [mtime |-> v, tags |-> sync.tags, late |-> sync.stamp = 0]
             chunk(v) == Upserted([g \in {f} |-> row(v)], sync.chunk)
  <2>1. PICK v \in IF sync.stamp = 0 THEN Looks(f) ELSE {sync.stamp} : Extracted(f, chunk(v))
    BY <1>7 DEF Time
  <2>2. v \in Nat /\ (sync.stamp # 0 => v = sync.stamp)  BY <1>1, LooksTyped
  <2>3. sync.tags \in Nat /\ (sync.tags = 0 \/ sync.stamp <= sync.tags)
    BY <1>1 DEF Local, TimesPass
  <2>4. row(v) \in Rec /\ ~Behind(row(v))
    <3>1. row(v) \in Rec  BY <2>2, <2>3 DEF Rec
    <3>2. row(v).mtime = v /\ row(v).tags = sync.tags /\ (row(v).late <=> sync.stamp = 0)  OBVIOUS
    <3> HIDE DEF row
    <3>3. sync.stamp = 0 \/ sync.tags = 0 \/ ~(sync.tags < v)  BY <1>1, <2>2, <2>3
    <3>4. ~Behind(row(v))  BY <3>2, <3>3, Zenon DEF Behind
    <3> QED  BY <3>1, <3>4
  <2> HIDE DEF row
  <2>5. chunk(v) \in Partial(Rec) /\ \A g \in DOMAIN chunk(v) : ~Behind(chunk(v)[g])
    BY <1>1, <2>4, RowJoins
  <2> HIDE DEF chunk
  <2> QED  BY <1>1, <2>1, <2>5, ExtractedEffect, RunStep
<1> QED  BY <1>2, <1>4, <1>5, <1>6, <1>7

-----------------------------------------------------------------------------
\* Every step keeps the invariant.
LEMMA StepIInv == IInv /\ [Next]_vars => IInv'
<1> SUFFICES ASSUME IInv, [Next]_vars PROVE IInv'  OBVIOUS
<1>1. CASE UNCHANGED vars
  BY <1>1 DEF vars, outside, IInv, TypeOK, TimesPass, ChunkNeverBehind, NeverBehind, Walked, Listed
<1>2. ASSUME NEW f \in Files, Write(f) \/ Delete(f) \/ TakeOff(f) \/ Land(f) PROVE IInv'
  BY <1>2, OutsideStep
<1>3. ASSUME NEW f \in Files, Walk(f) \/ StatFails(f) PROVE IInv'  BY <1>3, QuietStep
<1>4. ASSUME NEW f \in Files, Stamp(f) \/ Tags(f) \/ TagsFail(f) \/ Look(f) \/ Time(f)
      PROVE  IInv'  BY <1>4, ReadingStep
<1>5. CASE Clear \/ Prune \/ Upsert  BY <1>5, WriteStep
<1>6. ASSUME NEW mode \in Modes, Start(mode) PROVE IInv'  BY <1>6, StartStep
<1>7. CASE Hide \/ Kill \/ GiveUp  BY <1>7, OutsideStep
<1>8. CASE Read \/ UpsertCancelled \/ Finish \/ Fail  BY <1>8, QuietStep
<1> QED  BY <1>1, <1>2, <1>3, <1>4, <1>5, <1>6, <1>7, <1>8 DEF Next, Run

LEMMA Inductive == Spec => []IInv
BY InitIInv, StepIInv, PTL DEF Spec

\* Where the native reader had the file's time, a row's time is never later than
\* its tags, in a library of any size and however its files change meanwhile: the
\* next incremental sync finds every edit.  Rows with a late time are left out.
THEOREM NoEditMissed == Spec => []NeverBehind
BY Inductive, PTL DEF IInv

\* A sync other than a full rebuild keeps the row of every file that was listed
\* and not in flight ever since the run began.
THEOREM SteadyKept == Spec => PresentKept
<1>1. IInv /\ [Next]_vars =>
        \A f \in DOMAIN rows \ DOMAIN rows' : sync.mode = "full_rebuild" \/ f \notin steady
  <2> SUFFICES ASSUME IInv, [Next]_vars, NEW f \in DOMAIN rows, f \notin DOMAIN rows'
               PROVE  sync.mode = "full_rebuild" \/ f \notin steady
    OBVIOUS
  <2>1. CASE Clear  BY <2>1 DEF Clear, IInv, Walked
  <2>2. CASE Prune
    <3>1. sync.pc = "walk" /\ sync.unwalked = {}  BY <2>2 DEF Prune
    <3>2. steady \subseteq sync.seen  BY <3>1 DEF IInv, Walked
    <3>3. CASE sync.mode # "full_rebuild"
      <4>1. rows' = [g \in DOMAIN rows \ Orphans |-> rows[g]]  BY <2>2, <3>3 DEF Prune, Restrict
      <4>2. f \in Orphans  BY <4>1
      <4> QED  BY <3>2, <4>2 DEF Orphans
    <3> QED  BY <3>3
  <2>3. CASE Upsert
    <3>1. DOMAIN rows' = DOMAIN sync.chunk \cup DOMAIN rows  BY <2>3 DEF Upsert, Upserted
    <3> QED  BY <3>1
  <2>4. CASE UNCHANGED rows  BY <2>4
  <2>5. ASSUME ~Clear, ~Prune, ~Upsert PROVE UNCHANGED rows
    BY <2>5 DEF Next, Run, vars, outside, Read, Walk, StatFails, UpsertCancelled, Finish, Fail, End, Start,
                Stamp, Tags, TagsFail, Look, Time, Write, Delete, TakeOff, Land, Hide, Kill, GiveUp
  <2> QED  BY <2>1, <2>2, <2>3, <2>4, <2>5
<1> QED  BY <1>1, Inductive, PTL DEF PresentKept, Spec

-----------------------------------------------------------------------------
(* The bounds: of the times, of the chunk, and of what a run that is over    *)
(* leaves behind.                                                            *)

Small(r) == r.mtime <= MaxEvents /\ r.tags <= MaxEvents
Bounded ==
    /\ events <= MaxEvents
    /\ \A f \in DOMAIN rows : Small(rows[f])
    /\ \A f \in DOMAIN sync.chunk : Small(sync.chunk[f])

\* One file is read at a time, and it stays due until it has been.
Reading == {"tags", "look", "time"}
OneRead == sync.at \subseteq sync.dirty /\ (sync.at # {} <=> sync.pc \in Reading)

\* The chunk has room for the row of the next file, unless it is being written.
Room == /\ Cardinality(DOMAIN sync.chunk) <= ChunkSize
        /\ sync.pc # "upsert" => Cardinality(DOMAIN sync.chunk) < ChunkSize

\* Nobody can kill a run that is over.
Over == sync.pc = "idle" => sync = Idle /\ kill = Unregistered

SInv == Bounded /\ OneRead /\ Room /\ Over

\* Steps that read no file and fill no chunk.
LEMMA CalmStep ==
    ASSUME SInv, events' <= MaxEvents, \A f \in DOMAIN rows' : Small(rows'[f]),
           sync.pc \notin Reading, sync'.pc \notin Reading \cup {"upsert"}, sync'.at \in {sync.at, {}},
           sync'.chunk = <<>> \/ (sync'.chunk = sync.chunk /\ sync.pc # "upsert"),
           sync'.pc = "idle" => sync' = Idle /\ kill' = Unregistered
    PROVE  SInv'
<1>1. DOMAIN <<>> = {} /\ Cardinality({}) = 0  BY FS_EmptySet
<1>2. Bounded'  BY <1>1 DEF SInv, Bounded
<1>3. OneRead'  BY DEF SInv, OneRead
<1>4. Room'  BY <1>1 DEF SInv, Room
<1>5. Over'  BY DEF Over
<1> QED  BY <1>2, <1>3, <1>4, <1>5 DEF SInv

LEMMA OutsideBounds ==
    ASSUME IInv, SInv, NEW f,
           \/ f \in Files /\ (Write(f) \/ Delete(f) \/ TakeOff(f) \/ Land(f))
           \/ Hide \/ Kill \/ GiveUp
    PROVE  SInv'
<1>1. UNCHANGED <<rows, sync>>  BY DEF Write, Delete, TakeOff, Land, Hide, Kill, GiveUp, outside
<1>2. events' <= MaxEvents
  BY DEF Write, Delete, TakeOff, Land, Hide, Kill, GiveUp, outside, Happens, IInv, TypeOK, SInv, Bounded
<1>3. Over'
  BY <1>1 DEF Write, Delete, TakeOff, Land, Hide, Kill, GiveUp, SInv, Over, Unregistered
<1> QED  BY <1>1, <1>2, <1>3 DEF SInv, Bounded, OneRead, Room

LEMMA CalmBounds ==
    ASSUME IInv, SInv, NEW f,
           \/ Clear \/ Read \/ Prune \/ Upsert \/ UpsertCancelled \/ Finish \/ Fail
           \/ f \in Files /\ (Walk(f) \/ StatFails(f))
           \/ f \in Modes /\ Start(f)
    PROVE  SInv'
<1>0. sync \in Local /\ events \in Nat /\ events <= MaxEvents /\ Idle \in Local
  BY IdleTyped DEF IInv, TypeOK, SInv, Bounded
<1>1. events' <= MaxEvents
  BY <1>0 DEF Clear, Read, Prune, Upsert, UpsertCancelled, Finish, Fail, End, Walk, StatFails, Start,
              outside, Happens
<1>2. \A g \in DOMAIN rows' : Small(rows'[g])
  <2>1. CASE rows' = rows \/ DOMAIN rows' = {}  BY <2>1 DEF SInv, Bounded
  <2>2. CASE Prune  BY <2>2 DEF Prune, Restrict, SInv, Bounded
  <2>3. CASE Upsert
    <3>1. \A g \in DOMAIN rows' : \/ g \in DOMAIN sync.chunk /\ rows'[g] = sync.chunk[g]
                                  \/ g \in DOMAIN rows /\ rows'[g] = rows[g]
      BY <2>3 DEF Upsert, Upserted
    <3> QED  BY <3>1 DEF SInv, Bounded
  <2>4. DOMAIN <<>> = {}  OBVIOUS
  <2> QED
    BY <2>1, <2>2, <2>3, <2>4 DEF Clear, Read, UpsertCancelled, Finish, Fail, End, Walk, StatFails, Start, outside
<1>3. Idle.pc = "idle" /\ Idle.at = {} /\ Idle.chunk = <<>>  BY DEF Idle
<1>4. CASE sync' = Idle /\ kill' = Unregistered /\ sync.pc \notin Reading
  BY <1>1, <1>2, <1>3, <1>4, CalmStep DEF Reading
<1>5. CASE f \in Modes /\ Start(f)
  <2>1. sync.pc = "idle" /\ sync'.pc \in {"clear", "read"} /\ sync'.at = {} /\ sync'.chunk = <<>>
    BY <1>3, <1>5 DEF Start, Idle
  <2> QED  BY <1>1, <1>2, <2>1, CalmStep DEF Reading
<1>6. CASE Clear \/ Read \/ Prune \/ (f \in Files /\ (Walk(f) \/ StatFails(f)))
  <2>1. /\ sync.pc \in {"clear", "read", "walk"} /\ sync'.pc \in {"read", "walk", "extract"}
        /\ sync'.at = sync.at /\ sync'.chunk = sync.chunk
    BY <1>0, <1>6 DEF Clear, Read, Prune, Walk, StatFails, Local
  <2> QED  BY <1>1, <1>2, <2>1, CalmStep DEF Reading
<1>7. CASE Upsert \/ UpsertCancelled
  <2>1. sync.pc = "upsert" /\ sync'.pc = "extract" /\ sync'.at = sync.at /\ sync'.chunk = <<>>
    BY <1>0, <1>7 DEF Upsert, UpsertCancelled, Local
  <2> QED  BY <1>1, <1>2, <2>1, CalmStep DEF Reading
<1> QED  BY <1>4, <1>5, <1>6, <1>7 DEF Finish, Fail, End, Reading

\* A chunk grows by one row at most, and is written when it is full.
LEMMA ChunkBounds ==
    ASSUME IInv, SInv, NEW f \in Files, NEW chunk, Extracted(f, chunk), sync.pc \in Reading,
           events' <= MaxEvents, rows' = rows, \A g \in DOMAIN chunk : Small(chunk[g]),
           DOMAIN chunk = DOMAIN sync.chunk \/ DOMAIN chunk = DOMAIN sync.chunk \cup {f}
    PROVE  SInv'
<1> DEFINE todo == sync.dirty \ {f}
           due == chunk # <<>> /\ (todo = {} \/ Cardinality(DOMAIN chunk) >= ChunkSize)
<1>1. sync' = [sync EXCEPT !.pc = IF due THEN "upsert" ELSE "extract", !.dirty = todo,
                           !.at = {}, !.stamp = 0, !.tags = 0, !.chunk = chunk]
  BY DEF Extracted
<1>2. sync \in Local  BY DEF IInv, TypeOK
<1>3. IsFiniteSet(DOMAIN sync.chunk) /\ Cardinality(DOMAIN sync.chunk) < ChunkSize
      /\ Cardinality(DOMAIN sync.chunk) \in Nat
  <2>1. DOMAIN sync.chunk \subseteq Files  BY <1>2, InPartial DEF Local
  <2> QED  BY <2>1, FS_Subset, FS_CardinalityType DEF SInv, Room, Reading
<1>4. Cardinality(DOMAIN chunk) \in Nat /\ Cardinality(DOMAIN chunk) <= ChunkSize
  <2> DEFINE S == DOMAIN sync.chunk
  <2>1. Cardinality(S \cup {f}) = IF f \in S THEN Cardinality(S) ELSE Cardinality(S) + 1
    BY <1>3, FS_AddElement
  <2> QED  BY <1>3, <2>1
<1>5. chunk = <<>> => Cardinality(DOMAIN chunk) < ChunkSize  BY FS_EmptySet
<1> HIDE DEF todo
<1>6. /\ sync'.pc = IF due THEN "upsert" ELSE "extract"
      /\ sync'.at = {} /\ sync'.chunk = chunk
  BY <1>1, <1>2 DEF Local
<1> QED  BY <1>4, <1>5, <1>6 DEF SInv, Bounded, OneRead, Room, Over, Reading

LEMMA ReadingBounds ==
    ASSUME IInv, SInv, NEW f \in Files, Stamp(f) \/ Tags(f) \/ TagsFail(f) \/ Look(f) \/ Time(f)
    PROVE  SInv'
<1>0. /\ sync \in Local /\ events \in Nat /\ events <= MaxEvents /\ rows' = rows
      /\ events' <= MaxEvents /\ TypeOK /\ TimesPass
  <2>1. rows' = rows /\ (events' = events \/ (events < MaxEvents /\ events' = events + 1))
    BY DEF Stamp, Tags, TagsFail, Look, Time, outside, Happens
  <2> QED  BY <2>1 DEF IInv, TypeOK, SInv, Bounded
<1>1. CASE Stamp(f)
  <2>1. /\ sync.pc = "extract" /\ f \in sync.dirty /\ sync'.pc = "tags" /\ sync'.at = {f}
        /\ sync'.dirty = sync.dirty /\ sync'.chunk = sync.chunk
    BY <1>0, <1>1 DEF Stamp, Local
  <2> QED  BY <1>0, <2>1 DEF SInv, Bounded, OneRead, Room, Over, Reading
<1>2. CASE Tags(f) \/ TagsFail(f) \/ (Look(f) /\ sync' = [sync EXCEPT !.pc = "time"])
  <2>1. /\ sync.pc \in Reading /\ sync'.pc \in Reading /\ sync'.at = sync.at
        /\ sync'.dirty = sync.dirty /\ sync'.chunk = sync.chunk
    BY <1>0, <1>2 DEF Tags, TagsFail, Parsed, Look, Local, Reading
  <2> QED  BY <1>0, <2>1 DEF SInv, Bounded, OneRead, Room, Over, Reading
<1>3. CASE Look(f) /\ Extracted(f, sync.chunk)
  BY <1>0, <1>3, ChunkBounds DEF Look, Reading, SInv, Bounded
<1>4. CASE Time(f)
  <2> DEFINE row(v) == [mtime |-> v, tags |-> sync.tags, late |-> sync.stamp = 0]
             one(v) == [g \in {f} |-> row(v)]
  <2>1. PICK v \in IF sync.stamp = 0 THEN Looks(f) ELSE {sync.stamp} :
           Extracted(f, Upserted(one(v), sync.chunk))
    BY <1>4 DEF Time
  <2>2. v <= MaxEvents /\ sync.tags <= MaxEvents
    <3>1. sync.stamp \in Nat /\ sync.tags \in Nat /\ sync.stamp <= events /\ sync.tags <= events
      BY <1>0 DEF Local, TimesPass
    <3>2. v \in Nat /\ v <= events  BY <1>0, <2>1, <3>1, LooksTyped
    <3> QED  BY <1>0, <3>1, <3>2
  <2>3. Small(row(v))  BY <2>2 DEF Small
  <2>4. DOMAIN one(v) = {f} /\ one(v)[f] = row(v)  OBVIOUS
  <2> HIDE DEF one, row
  <2>5. /\ DOMAIN Upserted(one(v), sync.chunk) = DOMAIN sync.chunk \cup {f}
        /\ \A g \in DOMAIN Upserted(one(v), sync.chunk) : Small(Upserted(one(v), sync.chunk)[g])
    BY <2>3, <2>4 DEF Upserted, SInv, Bounded
  <2>6. sync.pc \in Reading  BY <1>4 DEF Time, Reading
  <2> QED  BY <1>0, <2>1, <2>5, <2>6, ChunkBounds
<1> QED  BY <1>1, <1>2, <1>3, <1>4 DEF Look

LEMMA InitSInv == Init => SInv
<1> SUFFICES ASSUME Init PROVE SInv  OBVIOUS
<1>1. DOMAIN <<>> = {} /\ Cardinality({}) = 0  BY FS_EmptySet
<1>2. Bounded  BY <1>1 DEF Init, Bounded, Idle
<1>3. OneRead /\ Room /\ Over  BY <1>1 DEF Init, OneRead, Reading, Room, Over, Idle
<1> QED  BY <1>2, <1>3 DEF SInv

LEMMA StepSInv == IInv /\ SInv /\ [Next]_vars => SInv'
<1> SUFFICES ASSUME IInv, SInv, [Next]_vars PROVE SInv'  OBVIOUS
<1>1. CASE UNCHANGED vars
  BY <1>1 DEF vars, outside, SInv, Bounded, OneRead, Room, Over
<1>2. ASSUME NEW f \in Files, Write(f) \/ Delete(f) \/ TakeOff(f) \/ Land(f) PROVE SInv'
  BY <1>2, OutsideBounds
<1>3. ASSUME NEW f \in Files, Walk(f) \/ StatFails(f) PROVE SInv'  BY <1>3, CalmBounds
<1>4. ASSUME NEW f \in Files, Stamp(f) \/ Tags(f) \/ TagsFail(f) \/ Look(f) \/ Time(f)
      PROVE  SInv'  BY <1>4, ReadingBounds
<1>5. ASSUME NEW mode \in Modes, Start(mode) PROVE SInv'  BY <1>5, CalmBounds
<1>6. CASE Hide \/ Kill \/ GiveUp  BY <1>6, OutsideBounds
<1>7. CASE Clear \/ Read \/ Prune \/ Upsert \/ UpsertCancelled \/ Finish \/ Fail  BY <1>7, CalmBounds
<1> QED  BY <1>1, <1>2, <1>3, <1>4, <1>5, <1>6, <1>7 DEF Next, Run

\* Types of the sync: times that have passed, one file read at a time, a chunk
\* that never outgrows CHUNK_SIZE, and nothing left of a run that is over.
THEOREM SyncTypeCorrect == Spec => []SyncTypeOK
<1>1. IInv /\ SInv => SyncTypeOK
  <2> SUFFICES ASSUME IInv, SInv PROVE SyncTypeOK  OBVIOUS
  <2>1. disk \in [Files -> Times]
    <3>1. \A f \in Files : disk[f] \in Nat /\ disk[f] <= events /\ events \in Nat /\ events <= MaxEvents
      BY DEF IInv, TypeOK, TimesPass, SInv, Bounded
    <3>2. \A f \in Files : disk[f] \in Times  BY <3>1 DEF Times
    <3> QED  BY <3>2 DEF IInv, TypeOK
  <2>2. DOMAIN rows \subseteq Files /\ \A f \in DOMAIN rows : rows[f] \in Row
    <3> DEFINE Any == Rec
    <3>1. rows \in Partial(Any)  BY DEF IInv, TypeOK
    <3> HIDE DEF Any
    <3>2. DOMAIN rows \subseteq Files /\ \A f \in DOMAIN rows : rows[f] \in Any  BY <3>1, InPartial
    <3>3. \A r \in Any : Small(r) => r \in Row  BY DEF Any, Rec, Small, Row, Times
    <3> QED  BY <3>2, <3>3 DEF SInv, Bounded
  <2>3. sync \in Local /\ hidden \subseteq Files /\ flying \subseteq Files  BY DEF IInv, TypeOK
  <2>4. sync.unwalked \cup sync.seen \cup sync.dirty \cup sync.at \subseteq Files  BY <2>3 DEF Local
  <2> QED  BY <2>1, <2>2, <2>3, <2>4 DEF SyncTypeOK, Local, SInv, OneRead, Reading, Room, Over
<1> QED  BY <1>1, InitIInv, StepIInv, InitSInv, StepSInv, PTL DEF Spec
=============================================================================
