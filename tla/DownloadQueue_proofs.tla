------------------------ MODULE DownloadQueue_proofs ------------------------
(***************************************************************************)
(* For every number of tracks, candidates, drivers, callers and rows, and  *)
(* with sessions that fail anywhere: the table stays well formed; what a   *)
(* row rejects stays rejected while one loop writes; and the background    *)
(* loop loses a row that it has set to SEARCHING only to a failing session.*)
(***************************************************************************)
EXTENDS DownloadQueue, SequenceTheorems, TLAPS

\* A waterfall searches for a track, and reports the candidate it has started.
Underway == \A k \in DOMAIN tasks : /\ tasks[k].pc = "search" => tasks[k].track \in Tracks
                                    /\ tasks[k].pc = "report" => tasks[k].left # <<>>

IInv == DQTypeOK /\ Underway

\* What a table must be after a step: rows of the right type that still reject
\* what they rejected.
Wellformed(r) == DOMAIN r \subseteq Ids /\ \A i \in DOMAIN r : r[i] \in Row
Rejects(r) == \A i \in DOMAIN rows \cap DOMAIN r : rows[i].black \subseteq r[i].black
Sound(r) == Wellformed(r) /\ Rejects(r)

USE DownloadAssumption, EarlierAssumption DEF DownloadAssumption, EarlierAssumption, Ids

-----------------------------------------------------------------------------
(* The writes to the table.                                                *)

LEMMA FreshTyped == \A t \in Tracks : Fresh(t) \in Row
<1>1. <<>> \in Seq(Cands)  BY EmptySeq
<1> QED  BY <1>1 DEF Fresh, Row, Statuses


LEMMA RowFields ==
    ASSUME NEW r \in Row
    PROVE  /\ r.track \in Tracks /\ r.status \in Statuses /\ r.retries \in Nat
           /\ r.plugin \in Cands \cup {"none", "provider"} /\ r.active \in Cands \cup {"none"}
           /\ r.stack \in Seq(Cands) /\ r.black \subseteq Cands \cup {"provider"}
BY DEF Row

\* One row is replaced by a row of the right type that rejects as much.
LEMMA RowReplaced ==
    ASSUME Wellformed(rows), NEW i \in DOMAIN rows, NEW r \in Row, rows[i].black \subseteq r.black
    PROVE  Sound([rows EXCEPT ![i] = r])
BY DEF Wellformed, Sound, Rejects

\* Any number of rows are.
LEMMA RowsReplaced ==
    ASSUME Wellformed(rows), NEW g, DOMAIN g = DOMAIN rows,
           \A i \in DOMAIN rows : g[i] \in Row /\ rows[i].black \subseteq g[i].black
    PROVE  Sound(g)
BY DEF Wellformed, Sound, Rejects

LEMMA Unchanged == ASSUME Wellformed(rows) PROVE Sound(rows)
BY DEF Wellformed, Sound, Rejects

LEMMA WithStatusSound ==
    ASSUME Wellformed(rows), NEW i, NEW s \in Statuses
    PROVE  Sound(WithStatus(i, s))
<1>1. CASE i \notin DOMAIN rows  BY <1>1, Unchanged DEF WithStatus
<1>2. CASE i \in DOMAIN rows
  <2>1. rows[i] \in Row  BY <1>2 DEF Wellformed
  <2>2. [rows[i] EXCEPT !.status = s] \in Row  BY <2>1 DEF Row
  <2>3. [rows[i] EXCEPT !.status = s].black = rows[i].black  BY <2>1 DEF Row
  <2>4. WithStatus(i, s) = [rows EXCEPT ![i] = [rows[i] EXCEPT !.status = s]]
    BY <1>2 DEF WithStatus
  <2> QED  BY <1>2, <2>2, <2>3, <2>4, RowReplaced
<1> QED  BY <1>1, <1>2

LEMMA SetAllSound ==
    ASSUME Wellformed(rows), NEW S, NEW s \in Statuses
    PROVE  Sound(SetAll(S, s))
<1>1. \A i \in DOMAIN rows : /\ [rows[i] EXCEPT !.status = s] \in Row
                             /\ [rows[i] EXCEPT !.status = s].black = rows[i].black
                             /\ rows[i] \in Row
  BY DEF Row, Wellformed
<1> QED  BY <1>1, RowsReplaced DEF SetAll

LEMMA WithoutSound ==
    ASSUME Wellformed(rows), NEW S
    PROVE  Sound(Without(rows, S))
BY DEF Wellformed, Sound, Rejects, Without

LEMMA DownloadingSound ==
    ASSUME Wellformed(rows), NEW i, NEW c \in Cands
    PROVE  Sound(Downloading(i, c))
<1>1. CASE i \notin DOMAIN rows  BY <1>1, Unchanged DEF Downloading
<1>2. CASE i \in DOMAIN rows
  <2> DEFINE a == IF rows[i].active = "none" THEN c ELSE rows[i].active
             r == [rows[i] EXCEPT !.status = "DOWNLOADING", !.plugin = c, !.active = a]
  <2>1. rows[i] \in Row  BY <1>2 DEF Wellformed
  <2>2. a \in Cands \cup {"none"}  BY <2>1 DEF Row
  <2>3. r \in Row /\ r.black = rows[i].black  BY <2>1, <2>2 DEF Row, Statuses
  <2>4. Downloading(i, c) = [rows EXCEPT ![i] = r]  BY <1>2 DEF Downloading
  <2> HIDE DEF r
  <2> QED  BY <1>2, <2>3, <2>4, RowReplaced
<1> QED  BY <1>1, <1>2

LEMMA RejectingSound ==
    ASSUME Wellformed(rows), NEW i, NEW c \in Cands \cup {"provider"}
    PROVE  Sound(Rejecting(i, c))
<1>1. CASE i \notin DOMAIN rows  BY <1>1, Unchanged DEF Rejecting
<1>2. CASE i \in DOMAIN rows
  <2> DEFINE r == [rows[i] EXCEPT !.status = "SEARCHING", !.plugin = "none",
                                  !.black = rows[i].black \cup {c}]
  <2>1. rows[i] \in Row  BY <1>2 DEF Wellformed
  <2>2. r \in Row /\ rows[i].black \subseteq r.black  BY <2>1 DEF Row, Statuses
  <2>3. Rejecting(i, c) = [rows EXCEPT ![i] = r]  BY <1>2 DEF Rejecting
  <2> HIDE DEF r
  <2>4. Sound([rows EXCEPT ![i] = r])  BY <1>2, <2>2, RowReplaced
  <2> QED  BY <2>3, <2>4
<1> QED  BY <1>1, <1>2

\* A row that goes back to the queue and counts one more try.
LEMMA AgainTyped ==
    ASSUME NEW r \in Row
    PROVE  LET again  == [r EXCEPT !.status = "QUEUED", !.retries = @ + 1]
               afresh == [r EXCEPT !.status = "QUEUED", !.plugin = "none", !.retries = @ + 1]
           IN  again \in Row /\ afresh \in Row /\ again.black = r.black /\ afresh.black = r.black
<1>1. r.retries + 1 \in Nat  BY RowFields
<1>2. \A n \in Nat : LET again  == [r EXCEPT !.status = "QUEUED", !.retries = n]
                         afresh == [r EXCEPT !.status = "QUEUED", !.plugin = "none", !.retries = n]
                     IN  /\ again \in Row /\ afresh \in Row
                         /\ again.black = r.black /\ afresh.black = r.black
  BY DEF Row, Statuses
<1> QED  BY <1>1, <1>2

LEMMA RotatedSound ==
    ASSUME NEW r \in Row
    PROVE  Rotated(r) \in Row /\ r.black \subseteq Rotated(r).black
<1> DEFINE b == r.black \cup ({r.active} \cap Cands)
<1>1. b \in SUBSET (Cands \cup {"provider"}) /\ r.black \subseteq b  BY DEF Row
<1>2. CASE r.stack # <<>> /\ r.retries < 3
  <2>1. Head(r.stack) \in Cands /\ Tail(r.stack) \in Seq(Cands)
    BY <1>2, RowFields, HeadTailProperties
  <2>2. r.retries + 1 \in Nat  BY RowFields
  <2> DEFINE w == [r EXCEPT !.black = b, !.status = "RETRYING", !.active = Head(r.stack),
                            !.stack = Tail(r.stack), !.retries = r.retries + 1]
  <2>3. Rotated(r) = w  BY <1>2 DEF Rotated
  <2>4. w \in Row  BY <1>1, <2>1, <2>2 DEF Row, Statuses
  <2>5. w.black = b  BY DEF Row
  <2> QED  BY <1>1, <2>3, <2>4, <2>5
<1>3. CASE ~(r.stack # <<>> /\ r.retries < 3)
  <2> DEFINE w == [r EXCEPT !.black = b, !.status = "FAILED"]
  <2>1. Rotated(r) = w  BY <1>3 DEF Rotated
  <2>2. w \in Row /\ w.black = b  BY <1>1 DEF Row, Statuses
  <2> QED  BY <1>1, <2>1, <2>2
<1> QED  BY <1>2, <1>3

-----------------------------------------------------------------------------
(* What a waterfall holds.                                                 *)

LEMMA TaskFields ==
    ASSUME IInv, NEW k \in DOMAIN tasks
    PROVE  /\ k \in TaskKeys /\ k.row \in Ids /\ tasks[k] \in Task
           /\ tasks[k].black \subseteq Cands \cup {"provider"} /\ tasks[k].left \in Seq(Cands)
<1>1. k \in TaskKeys /\ tasks[k] \in Task  BY DEF IInv, DQTypeOK
<1>2. k.row \in Ids  BY <1>1 DEF TaskKeys
<1> QED  BY <1>1, <1>2 DEF Task

LEMMA RankingTyped ==
    ASSUME NEW S \in SUBSET Cands, NEW found \in Rankings(S)
    PROVE  found \in Seq(Cands) /\ Head(found) \in Cands /\ Tail(found) \in Seq(Cands)
<1>1. PICK n \in 1..3 : found \in [1..n -> S]  BY DEF Rankings
<1>2. found \in Seq(Cands) /\ Len(found) = n
  <2>1. n \in Nat /\ found \in [1..n -> Cands]  BY <1>1
  <2> QED  BY <2>1, IsASeq
<1>3. found # <<>>  BY <1>2, EmptySeq
<1> QED  BY <1>2, <1>3, HeadTailProperties

LEMMA FoundTyped ==
    ASSUME IInv, NEW k \in DOMAIN tasks, tasks[k].pc = "search",
           NEW found \in Rankings(Offers[tasks[k].track] \ tasks[k].black)
    PROVE  found \in Seq(Cands) /\ Head(found) \in Cands /\ Tail(found) \in Seq(Cands)
<1>1. tasks[k].track \in Tracks  BY DEF IInv, Underway
<1>2. Offers[tasks[k].track] \subseteq Cands  BY <1>1
<1> QED  BY <1>2, RankingTyped

-----------------------------------------------------------------------------
(* Every step keeps the table.                                             *)

LEMMA WaterfallRows ==
    ASSUME IInv, NEW k \in DOMAIN tasks, Waterfall(k)
    PROVE  Sound(rows')
<1>0. Wellformed(rows)  BY DEF IInv, DQTypeOK, Wellformed
<1>1. CASE Begin(k)
  <2>1. rows' = rows \/ rows' = WithStatus(k.row, "COMPLETED") \/ rows' = WithStatus(k.row, "SEARCHING")
    BY <1>1 DEF Begin, Write
  <2> QED  BY <1>0, <2>1, Unchanged, WithStatusSound DEF Statuses
<1>2. CASE SearchFinds(k)
  <2>1. PICK found \in Rankings(Offers[tasks[k].track] \ tasks[k].black) :
          rows' = IF k.row \notin DOMAIN rows THEN rows
                  ELSE [rows EXCEPT ![k.row] = [rows[k.row] EXCEPT !.active = Head(found),
                                                  !.stack = Tail(found), !.plugin = "provider"]]
    BY <1>2 DEF SearchFinds
  <2>2. Head(found) \in Cands /\ Tail(found) \in Seq(Cands)
    BY <1>2, FoundTyped DEF SearchFinds
  <2>3. CASE k.row \notin DOMAIN rows  BY <1>0, <2>1, <2>3, Unchanged
  <2>4. CASE k.row \in DOMAIN rows
    <3> DEFINE r == [rows[k.row] EXCEPT !.active = Head(found), !.stack = Tail(found),
                                        !.plugin = "provider"]
    <3>1. rows[k.row] \in Row  BY <1>0, <2>4 DEF Wellformed
    <3>2. r \in Row /\ r.black = rows[k.row].black  BY <2>2, <3>1 DEF Row
    <3>3. rows' = [rows EXCEPT ![k.row] = r]  BY <2>1, <2>4
    <3> HIDE DEF r
    <3> QED  BY <1>0, <2>4, <3>2, <3>3, RowReplaced
  <2> QED  BY <2>3, <2>4
<1>3. CASE SearchFails(k) \/ NoneStarted(k) \/ ReportFails(k)
  <2>1. rows' = WithStatus(k.row, "FAILED")  BY <1>3 DEF SearchFails, NoneStarted, ReportFails
  <2> QED  BY <1>0, <2>1, WithStatusSound DEF Statuses
<1>4. CASE Accepted(k) \/ Refused(k)
  BY <1>0, <1>4, Unchanged DEF Accepted, Refused
<1>5. CASE Report(k)
  <2>1. tasks[k].left \in Seq(Cands) /\ tasks[k].left # <<>>
    BY <1>5, TaskFields DEF Report, IInv, Underway
  <2>2. Head(tasks[k].left) \in Cands  BY <2>1, HeadTailProperties
  <2>3. rows' = Downloading(k.row, Head(tasks[k].left))  BY <1>5 DEF Report
  <2> QED  BY <1>0, <2>2, <2>3, DownloadingSound
<1> QED  BY <1>1, <1>2, <1>3, <1>4, <1>5 DEF Waterfall

LEMMA DriverRows ==
    ASSUME IInv, NEW d \in Drivers, StartCycle(d) \/ Drive(d)
    PROVE  Sound(rows')
<1>0. Wellformed(rows)  BY DEF IInv, DQTypeOK, Wellformed
<1>1. CASE StartCycle(d) \/ StartLoop(d) \/ Gather(d) \/ PollStart(d) \/ PollEnd(d)
  BY <1>0, <1>1, Unchanged DEF StartCycle, StartLoop, Gather, PollStart, PollEnd
<1>2. CASE Requeue(d)
  <2> DEFINE again(i) == [rows[i] EXCEPT !.status = "QUEUED", !.plugin = "none", !.retries = @ + 1]
  <2>1. \A i \in DOMAIN rows : /\ rows[i] \in Row /\ again(i) \in Row
                               /\ again(i).black = rows[i].black
    BY <1>0, AgainTyped DEF Wellformed
  <2>2. PICK S : rows' = [i \in DOMAIN rows |-> IF i \notin S THEN rows[i] ELSE again(i)]
    BY <1>2 DEF Requeue
  <2> HIDE DEF again
  <2>3. DOMAIN rows' = DOMAIN rows /\ \A i \in DOMAIN rows : rows'[i] \in {rows[i], again(i)}
    BY <2>2
  <2> QED  BY <1>0, <2>1, <2>3, RowsReplaced
<1>3. CASE Recover(d)
  <2> DEFINE again(i) == [rows[i] EXCEPT !.status = "QUEUED", !.plugin = "none"]
  <2>1. \A i \in DOMAIN rows : /\ rows[i] \in Row /\ again(i) \in Row
                               /\ again(i).black = rows[i].black
    BY <1>0 DEF Row, Statuses, Wellformed
  <2>2. rows' = [i \in DOMAIN rows |-> IF rows[i].status \notin {"SEARCHING", "DOWNLOADING"}
                                       THEN rows[i] ELSE again(i)]
    BY <1>3 DEF Recover
  <2> HIDE DEF again
  <2>3. DOMAIN rows' = DOMAIN rows /\ \A i \in DOMAIN rows : rows'[i] \in {rows[i], again(i)}
    BY <2>2
  <2> QED  BY <1>0, <2>1, <2>3, RowsReplaced
<1>4. CASE Dedupe(d) \/ Purge(d) \/ Lock(d)
  <2>1. rows' = rows \/ \E S : rows' = Without(rows, S)  BY <1>4 DEF Dedupe, Purge, Lock, Write
  <2> QED  BY <1>0, <2>1, Unchanged, WithoutSound
<1>5. CASE Claim(d)
  <2> DEFINE to(i, s) == [rows[i] EXCEPT !.status = s]
  <2>1. \A i \in DOMAIN rows, s \in {"SEARCHING", "COMPLETED"} :
          rows[i] \in Row /\ to(i, s) \in Row /\ to(i, s).black = rows[i].black
    BY <1>0 DEF Row, Statuses, Wellformed
  <2>2. PICK S : rows' = [i \in DOMAIN rows |->
                            IF i \in S THEN to(i, "SEARCHING")
                            ELSE IF i \in InStatus({"QUEUED"}) THEN to(i, "COMPLETED") ELSE rows[i]]
    BY <1>5 DEF Claim
  <2> HIDE DEF to
  <2>3. /\ DOMAIN rows' = DOMAIN rows
        /\ \A i \in DOMAIN rows : rows'[i] \in {rows[i], to(i, "SEARCHING"), to(i, "COMPLETED")}
    BY <2>2
  <2> QED  BY <1>0, <2>1, <2>3, RowsReplaced
<1>6. CASE Dispatch(d)
  <2>1. rows' = rows \/ \E S : rows' = SetAll(S, "QUEUED")  BY <1>6 DEF Dispatch
  <2> QED  BY <1>0, <2>1, Unchanged, SetAllSound DEF Statuses
<1>7. ASSUME NEW p \in polls[d], PollItem(d, p) PROVE Sound(rows')
  <2>1. p[2] \in Cands \cup {"provider"}  BY <1>7 DEF IInv, DQTypeOK
  <2>2. \/ rows' = WithStatus(p[1], "VERIFYING")
        \/ p[2] \in Cands /\ rows' = Downloading(p[1], p[2])
        \/ rows' = Rejecting(p[1], p[2])
    BY <1>7 DEF PollItem
  <2> QED  BY <1>0, <2>1, <2>2, WithStatusSound, DownloadingSound, RejectingSound DEF Statuses
<1> QED  BY <1>1, <1>2, <1>3, <1>4, <1>5, <1>6, <1>7 DEF Drive

LEMMA FailureRows ==
    ASSUME IInv, SessionFails
    PROVE  Sound(rows')
<1>0. Wellformed(rows)  BY DEF IInv, DQTypeOK, Wellformed
<1>1. ASSUME NEW d \in Drivers, NEW p \in polls[d], PollItemFails(d, p) PROVE Sound(rows')
  <2>1. p[2] \in Cands \cup {"provider"}  BY <1>1 DEF IInv, DQTypeOK
  <2>2. rows' = rows \/ rows' = Rejecting(p[1], p[2])  BY <1>1 DEF PollItemFails
  <2> QED  BY <1>0, <2>1, <2>2, Unchanged, RejectingSound
<1>2. CASE rows' = rows  BY <1>0, <1>2, Unchanged
<1> QED  BY <1>1, <1>2 DEF SessionFails, Breaks, DriveFails, LoopDies

\* The one step that loses a rejection keeps the types.
LEMMA LostUpdateRows ==
    ASSUME IInv, NEW i \in DOMAIN rows, NEW c \in Cands, LostUpdate(i, c)
    PROVE  Wellformed(rows')
<1> DEFINE r == [rows[i] EXCEPT !.black = rows[i].black \ {c}]
<1>1. rows[i] \in Row /\ Wellformed(rows)  BY DEF IInv, DQTypeOK, Wellformed
<1>2. r \in Row  BY <1>1 DEF Row
<1>3. rows' = [rows EXCEPT ![i] = r]  BY DEF LostUpdate
<1> HIDE DEF r
<1> QED  BY <1>1, <1>2, <1>3 DEF Wellformed

LEMMA EnvironmentRows ==
    ASSUME IInv, Environment
    PROVE  Sound(rows') \/ (~OneWriter /\ Wellformed(rows'))
<1>0. Wellformed(rows)  BY DEF IInv, DQTypeOK, Wellformed
<1>1. ASSUME NEW k \in Callers, NEW t \in Tracks, QueueFind(k, t) PROVE Sound(rows')
  BY <1>0, <1>1, Unchanged DEF QueueFind
<1>2. ASSUME NEW t \in Tracks, LibraryChanges(t) PROVE Sound(rows')
  BY <1>0, <1>2, Unchanged DEF LibraryChanges
<1>3. ASSUME NEW t \in Tracks, TrackImported(t) PROVE Sound(rows')
  <2>1. rows' = rows \/ \E S : rows' = Without(rows, S)  BY <1>3 DEF TrackImported
  <2> QED  BY <1>0, <2>1, Unchanged, WithoutSound
<1>4. ASSUME NEW c \in Cands, HookComplete(c) PROVE Sound(rows')
  <2>1. \E i : rows' = WithStatus(i, "VERIFYING")  BY <1>4 DEF HookComplete
  <2> QED  BY <1>0, <2>1, WithStatusSound DEF Statuses
<1>5. ASSUME NEW c \in Cands, HookFailed(c) PROVE Sound(rows')
  <2>1. PICK i \in Resolved(c) : rows' = [rows EXCEPT ![i] = Rotated(rows[i])]
    BY <1>5 DEF HookFailed
  <2>2. i \in DOMAIN rows  BY DEF Resolved, InStatus
  <2>3. rows[i] \in Row  BY <1>0, <2>2 DEF Wellformed
  <2> QED  BY <1>0, <2>1, <2>2, <2>3, RotatedSound, RowReplaced
<1>6. ASSUME NEW i \in DOMAIN rows, NEW s \in Statuses, SetStatus(i, s) PROVE Sound(rows')
  <2>1. rows' = WithStatus(i, s)  BY <1>6 DEF SetStatus
  <2> QED  BY <1>0, <2>1, WithStatusSound
<1>7. CASE RequeueAllFailed
  <2> DEFINE again(i) == [rows[i] EXCEPT !.status = "QUEUED", !.retries = @ + 1]
  <2>1. \A i \in DOMAIN rows : /\ rows[i] \in Row /\ again(i) \in Row
                               /\ again(i).black = rows[i].black
    BY <1>0, AgainTyped DEF Wellformed
  <2>2. rows' = [i \in DOMAIN rows |-> IF rows[i].status # "FAILED" THEN rows[i] ELSE again(i)]
    BY <1>7 DEF RequeueAllFailed
  <2> HIDE DEF again
  <2>3. DOMAIN rows' = DOMAIN rows /\ \A i \in DOMAIN rows : rows'[i] \in {rows[i], again(i)}
    BY <2>2
  <2> QED  BY <1>0, <2>1, <2>3, RowsReplaced
<1>8. ASSUME NEW S \in SUBSET DOMAIN rows, DeleteRows(S) PROVE Sound(rows')
  BY <1>0, <1>8, Unchanged, WithoutSound DEF DeleteRows
<1>9. ASSUME NEW i \in DOMAIN rows, StartNow(i) PROVE Sound(rows')
  <2> DEFINE r == [rows[i] EXCEPT !.status = "QUEUED", !.retries = @ + 1]
  <2>1. rows[i] \in Row  BY <1>0 DEF Wellformed
  <2>2. r \in Row /\ r.black = rows[i].black  BY <2>1, AgainTyped
  <2>3. rows' = [rows EXCEPT ![i] = r]  BY <1>9 DEF StartNow
  <2> HIDE DEF r
  <2> QED  BY <1>0, <2>2, <2>3, RowReplaced
<1>10. CASE Stop \/ Crash  BY <1>0, <1>10, Unchanged DEF Stop, Crash
<1>11. ASSUME NEW i \in DOMAIN rows, NEW c \in Cands, LostUpdate(i, c)
       PROVE  ~OneWriter /\ Wellformed(rows')
  BY <1>11, LostUpdateRows DEF LostUpdate
<1> QED
  BY <1>1, <1>2, <1>3, <1>4, <1>5, <1>6, <1>7, <1>8, <1>9, <1>10, <1>11 DEF Environment

LEMMA QueueWriteRows ==
    ASSUME IInv, NEW k \in Callers, QueueWrite(k)
    PROVE  Wellformed(rows')
<1>0. Wellformed(rows)  BY DEF IInv, DQTypeOK, Wellformed
<1> DEFINE t == call[k][1]
<1>1. t \in Tracks  BY DEF IInv, DQTypeOK, QueueWrite
<1>2. Fresh(t) \in Row  BY <1>1, FreshTyped
<1>3. \/ rows' = rows
      \/ \E i \in DOMAIN rows : rows' = [rows EXCEPT ![i] = Fresh(t)]
      \/ \E new \in Ids : rows' = [j \in DOMAIN rows \cup {new} |->
                                     IF j = new THEN Fresh(t) ELSE rows[j]]
  BY DEF QueueWrite, Write
<1> HIDE DEF t
<1> QED  BY <1>0, <1>2, <1>3 DEF Wellformed

LEMMA StepRows ==
    ASSUME IInv, [Next]_vars
    PROVE  /\ Wellformed(rows')
           /\ Rejects(rows') \/ ~OneWriter \/ \E k \in Callers : QueueWrite(k)
<1>0. CASE UNCHANGED vars
  <2>1. Wellformed(rows) /\ rows' = rows  BY <1>0 DEF IInv, DQTypeOK, Wellformed, vars
  <2> QED  BY <2>1, Unchanged DEF Sound
<1>1. ASSUME NEW k \in Callers, QueueWrite(k) PROVE Wellformed(rows')  BY <1>1, QueueWriteRows
<1>2. ASSUME NEW k \in DOMAIN tasks, Waterfall(k) PROVE Sound(rows')  BY <1>2, WaterfallRows
<1>3. ASSUME NEW d \in Drivers, StartCycle(d) \/ Drive(d) PROVE Sound(rows')  BY <1>3, DriverRows
<1>4. ASSUME NEW c \in Cands, Transfer(c) PROVE Sound(rows')
  <2>1. Wellformed(rows) /\ rows' = rows  BY <1>4 DEF IInv, DQTypeOK, Wellformed, Transfer
  <2> QED  BY <2>1, Unchanged
<1>5. CASE SessionFails
  <2>1. Sound(rows')  BY <1>5, FailureRows
  <2> QED  BY <2>1 DEF Sound
<1>6. CASE Environment
  <2>1. Sound(rows') \/ (~OneWriter /\ Wellformed(rows'))  BY <1>6, EnvironmentRows
  <2> QED  BY <2>1 DEF Sound
<1> QED  BY <1>0, <1>1, <1>2, <1>3, <1>4, <1>5, <1>6 DEF Next, Sound

-----------------------------------------------------------------------------
(* Every step keeps the tasks.                                             *)

\* Tasks of the right type, each at a step its contents allow.
TaskSound(k, w) == /\ k \in TaskKeys /\ w \in Task
                   /\ w.pc = "search" => w.track \in Tracks
                   /\ w.pc = "report" => w.left # <<>>
Manned(ts) == \A k \in DOMAIN ts : TaskSound(k, ts[k])

LEMMA IInvManned == IInv => Manned(tasks)
BY DEF IInv, DQTypeOK, Underway, Manned, TaskSound

LEMMA NewTaskTyped == NewTask \in Task /\ NewTask.pc = "begin"
<1>1. <<>> \in Seq(Cands)  BY EmptySeq
<1> QED  BY <1>1 DEF NewTask, Task

LEMMA WithTasksSound ==
    ASSUME Manned(tasks), NEW S \in SUBSET TaskKeys, WithTasks(S)
    PROVE  Manned(tasks')
<1>1. /\ DOMAIN tasks' = DOMAIN tasks \cup S
      /\ \A k \in DOMAIN tasks : tasks'[k] = tasks[k]
      /\ \A k \in S \ DOMAIN tasks : tasks'[k] = NewTask
  BY DEF WithTasks
<1> QED  BY <1>1, NewTaskTyped DEF Manned, TaskSound

LEMMA FewerSound ==
    ASSUME Manned(tasks), NEW S, tasks' = Without(tasks, S)
    PROVE  Manned(tasks')
BY DEF Manned, Without

LEMMA TaskReplaced ==
    ASSUME Manned(tasks), NEW k \in DOMAIN tasks, NEW w, TaskSound(k, w), tasks' = [tasks EXCEPT ![k] = w]
    PROVE  Manned(tasks')
BY DEF Manned

LEMMA WaterfallTasks ==
    ASSUME IInv, NEW k \in DOMAIN tasks, Waterfall(k)
    PROVE  Manned(tasks')
<1>0. Manned(tasks) /\ k \in TaskKeys /\ tasks[k] \in Task  BY IInvManned, TaskFields
<1>1. CASE End(k)  BY <1>0, <1>1, FewerSound DEF End
<1>2. CASE Begin(k) /\ ~End(k)
  <2> DEFINE r == rows[k.row]
             w == [tasks[k] EXCEPT !.pc = "search", !.track = r.track, !.black = r.black]
  <2>1. k.row \in DOMAIN rows /\ tasks' = [tasks EXCEPT ![k] = w]
    BY <1>2 DEF Begin, Blacklist
  <2>2. r \in Row  BY <2>1 DEF IInv, DQTypeOK
  <2>3. w \in Task /\ w.pc = "search" /\ w.track \in Tracks  BY <1>0, <2>2, RowFields DEF Task
  <2> HIDE DEF w
  <2> QED  BY <1>0, <2>1, <2>3, TaskReplaced DEF TaskSound
<1>3. CASE SearchFinds(k)
  <2>1. PICK found \in Rankings(Offers[tasks[k].track] \ tasks[k].black) :
          tasks' = [tasks EXCEPT ![k] = [NewTask EXCEPT !.pc = "attempt", !.left = found]]
    BY <1>3 DEF SearchFinds
  <2>2. found \in Seq(Cands)  BY <1>3, FoundTyped DEF SearchFinds
  <2> DEFINE w == [NewTask EXCEPT !.pc = "attempt", !.left = found]
  <2>3. w \in Task /\ w.pc = "attempt"  BY <2>2, NewTaskTyped DEF Task
  <2> HIDE DEF w
  <2> QED  BY <1>0, <2>1, <2>3, TaskReplaced DEF TaskSound, w
<1>4. CASE Accepted(k)
  <2> DEFINE w == [tasks[k] EXCEPT !.pc = "report", !.left = <<Head(tasks[k].left)>>]
  <2>1. tasks' = [tasks EXCEPT ![k] = w]  BY <1>4 DEF Accepted
  <2>2. tasks[k].left \in Seq(Cands) /\ tasks[k].left # <<>>  BY <1>4, TaskFields DEF Accepted
  <2>3. Head(tasks[k].left) \in Cands  BY <2>2, HeadTailProperties
  <2>4. <<Head(tasks[k].left)>> \in Seq(Cands) /\ <<Head(tasks[k].left)>> # <<>>  BY <2>3
  <2>5. w \in Task /\ w.pc = "report" /\ w.left # <<>>  BY <1>0, <2>4 DEF Task
  <2> HIDE DEF w
  <2> QED  BY <1>0, <2>1, <2>5, TaskReplaced DEF TaskSound
<1>5. CASE Refused(k)
  <2> DEFINE w == [tasks[k] EXCEPT !.left = Tail(tasks[k].left)]
  <2>1. tasks' = [tasks EXCEPT ![k] = w] /\ tasks[k].pc = "attempt"  BY <1>5 DEF Refused
  <2>2. tasks[k].left \in Seq(Cands) /\ tasks[k].left # <<>>  BY <1>5, TaskFields DEF Refused
  <2>3. Tail(tasks[k].left) \in Seq(Cands)  BY <2>2, HeadTailProperties
  <2>4. w \in Task /\ w.pc = "attempt"  BY <1>0, <2>1, <2>3 DEF Task
  <2> HIDE DEF w
  <2> QED  BY <1>0, <2>1, <2>4, TaskReplaced DEF TaskSound
<1> QED  BY <1>1, <1>2, <1>3, <1>4, <1>5 DEF Waterfall, SearchFails, NoneStarted, Report, ReportFails

LEMMA DriverTasks ==
    ASSUME IInv, NEW d \in Drivers, StartCycle(d) \/ Drive(d)
    PROVE  Manned(tasks')
<1>0. Manned(tasks)  BY IInvManned
<1>1. CASE UNCHANGED tasks  BY <1>0, <1>1
<1>2. CASE Dispatch(d) /\ ~UNCHANGED tasks
  <2>1. WithTasks([by : {d}, kind : {"batch"}, row : batch[d]])  BY <1>2 DEF Dispatch
  <2>2. [by : {d}, kind : {"batch"}, row : batch[d]] \subseteq TaskKeys
    BY DEF IInv, DQTypeOK, TaskKeys
  <2> QED  BY <1>0, <2>1, <2>2, WithTasksSound
<1>3. ASSUME NEW p \in polls[d], PollItem(d, p), ~UNCHANGED tasks PROVE Manned(tasks')
  <2> DEFINE key == [by |-> d, kind |-> "poll", row |-> p[1]]
  <2>1. WithTasks({key})  BY <1>3 DEF PollItem
  <2>2. p[1] \in Ids  BY DEF IInv, DQTypeOK
  <2>3. {key} \subseteq TaskKeys  BY <2>2 DEF TaskKeys
  <2> HIDE DEF key
  <2> QED  BY <1>0, <2>1, <2>3, WithTasksSound
<1>4. CASE PollEnd(d) /\ ~UNCHANGED tasks
  <2>1. \E S : tasks' = Without(tasks, S)  BY <1>4 DEF PollEnd, Rest
  <2> QED  BY <1>0, <2>1, FewerSound
<1> QED  BY <1>1, <1>2, <1>3, <1>4
         DEF Drive, StartCycle, StartLoop, Requeue, Recover, Dedupe, Purge, Lock, Claim, Gather, PollStart

LEMMA FailureTasks ==
    ASSUME IInv, SessionFails
    PROVE  Manned(tasks')
<1>1. tasks' = tasks \/ \E S : tasks' = Without(tasks, S)
  BY DEF SessionFails, Breaks, End, DriveFails, Rest, LoopDies, PollItemFails
<1> QED  BY <1>1, IInvManned, FewerSound

LEMMA EnvironmentTasks ==
    ASSUME IInv, Environment
    PROVE  Manned(tasks')
<1>0. Manned(tasks)  BY IInvManned
<1>1. CASE UNCHANGED tasks  BY <1>0, <1>1
<1>2. ASSUME NEW c \in Cands, HookFailed(c), ~UNCHANGED tasks PROVE Manned(tasks')
  <2>1. PICK i \in Resolved(c) : WithTasks({[by |-> "web", kind |-> "hook", row |-> i]})
    BY <1>2 DEF HookFailed
  <2>2. i \in Ids  BY DEF Resolved, InStatus, IInv, DQTypeOK
  <2>3. {[by |-> "web", kind |-> "hook", row |-> i]} \subseteq TaskKeys  BY <2>2 DEF TaskKeys
  <2> QED  BY <1>0, <2>1, <2>3, WithTasksSound
<1>3. ASSUME NEW i \in DOMAIN rows, StartNow(i), ~UNCHANGED tasks PROVE Manned(tasks')
  <2>1. WithTasks({[by |-> "job", kind |-> "single", row |-> i]})  BY <1>3 DEF StartNow
  <2>2. i \in Ids  BY DEF IInv, DQTypeOK
  <2>3. {[by |-> "job", kind |-> "single", row |-> i]} \subseteq TaskKeys  BY <2>2 DEF TaskKeys
  <2> QED  BY <1>0, <2>1, <2>3, WithTasksSound
<1>4. CASE Crash
  <2>1. DOMAIN tasks' = {}  BY <1>4 DEF Crash
  <2> QED  BY <2>1 DEF Manned
<1> QED  BY <1>1, <1>2, <1>3, <1>4
         DEF Environment, QueueFind, LibraryChanges, TrackImported, HookComplete, SetStatus,
             RequeueAllFailed, DeleteRows, LostUpdate, Stop

LEMMA StepTasks ==
    ASSUME IInv, [Next]_vars
    PROVE  Manned(tasks')
<1>0. CASE UNCHANGED tasks  BY <1>0, IInvManned
<1>1. ASSUME NEW k \in DOMAIN tasks, Waterfall(k) PROVE Manned(tasks')  BY <1>1, WaterfallTasks
<1>2. ASSUME NEW d \in Drivers, StartCycle(d) \/ Drive(d) PROVE Manned(tasks')  BY <1>2, DriverTasks
<1>3. CASE SessionFails  BY <1>3, FailureTasks
<1>4. CASE Environment  BY <1>4, EnvironmentTasks
<1> QED  BY <1>0, <1>1, <1>2, <1>3, <1>4 DEF Next, QueueWrite, Transfer, vars

-----------------------------------------------------------------------------
(* Every step keeps the rest.                                              *)

\* What the drivers and the callers hold, and the world outside.
Around == /\ library \subseteq Tracks
          /\ call \in [Callers -> {<<>>} \cup Tracks \X (Ids \cup {0})]
          /\ stage \in [Drivers -> {"boot", "idle", "requeue", "recover", "dedupe", "purge", "lock",
                                    "claim", "dispatch", "gather", "poll", "polling", "dead"}]
          /\ batch \in [Drivers -> SUBSET Ids]
          /\ polls \in [Drivers -> SUBSET (Ids \X (Cands \cup {"provider"}))]
          /\ remote \in Transferring
          /\ shutdown \in BOOLEAN /\ events \in 0..MaxEvents /\ orphaned \subseteq Ids

LEMMA EventCounted ==
    ASSUME Around
    PROVE  /\ Event => events' \in 0..MaxEvents
           /\ \A r : Write(r) => events' \in 0..MaxEvents
BY DEF Around, Event, Write

LEMMA WaterfallAround ==
    ASSUME IInv, Around, NEW k \in DOMAIN tasks, Waterfall(k)
    PROVE  Around'
<1>1. CASE Accepted(k)
  <2>1. tasks[k].left \in Seq(Cands) /\ tasks[k].left # <<>>  BY <1>1, TaskFields DEF Accepted
  <2>2. Head(tasks[k].left) \in Cands  BY <2>1, HeadTailProperties
  <2> QED  BY <1>1, <2>2 DEF Around, Accepted, Transferring, envVars, driverVars
<1>2. CASE Begin(k) \/ ReportFails(k)
  <2>1. events' \in 0..MaxEvents
    BY <1>2, EventCounted DEF Begin, ReportFails, Around
  <2> QED  BY <1>2, <2>1 DEF Around, Begin, ReportFails, driverVars
<1>3. CASE UNCHANGED <<envVars, call, driverVars, remote>>
  BY <1>3 DEF Around, envVars, driverVars
<1> QED
  BY <1>1, <1>2, <1>3 DEF Waterfall, SearchFinds, SearchFails, Refused, NoneStarted, Report

LEMMA DriverAround ==
    ASSUME IInv, Around, NEW d \in Drivers, StartCycle(d) \/ Drive(d)
    PROVE  Around'
<1> USE DEF Around, Goto, envVars, driverVars
<1>1. CASE StartCycle(d) \/ StartLoop(d) \/ Requeue(d) \/ Recover(d) \/ Gather(d)
  BY <1>1 DEF StartCycle, StartLoop, Requeue, Recover, Gather
<1>2. CASE Dedupe(d) \/ Purge(d) \/ Lock(d)
  <2>1. events' \in 0..MaxEvents  BY <1>2, EventCounted DEF Dedupe, Purge, Lock
  <2>2. \E s \in {"purge", "lock", "idle", "poll", "claim"} : stage' = [stage EXCEPT ![d] = s]
    BY <1>2 DEF Dedupe, Purge, Lock
  <2>3. UNCHANGED <<library, shutdown, orphaned, call, batch, polls, remote>>
    BY <1>2 DEF Dedupe, Purge, Lock
  <2> QED  BY <2>1, <2>2, <2>3
<1>3. CASE Claim(d)
  <2>1. {i \in InStatus({"QUEUED"}) : rows[i].track \notin library} \subseteq Ids
    BY DEF IInv, DQTypeOK, InStatus
  <2> QED  BY <1>3, <2>1 DEF Claim
<1>4. CASE Dispatch(d)  BY <1>4 DEF Dispatch
<1>5. CASE PollStart(d)
  <2> DEFINE asked == {<<i, rows[i].plugin>> :
                         i \in {j \in InStatus({"DOWNLOADING"}) : rows[j].plugin # "none"}}
  <2>1. asked \subseteq Ids \X (Cands \cup {"provider"})
    BY DEF IInv, DQTypeOK, InStatus, Row
  <2>2. polls' = polls \/ polls' = [polls EXCEPT ![d] = asked]  BY <1>5 DEF PollStart
  <2> HIDE DEF asked
  <2>3. polls' \in [Drivers -> SUBSET (Ids \X (Cands \cup {"provider"}))]  BY <2>1, <2>2
  <2> QED  BY <1>5, <2>3 DEF PollStart
<1>6. ASSUME NEW p \in polls[d], PollItem(d, p) PROVE Around'
  <2>1. remote' \in Transferring  BY <1>6 DEF PollItem, Transferring
  <2>2. polls' = [polls EXCEPT ![d] = polls[d] \ {p}]  BY <1>6 DEF PollItem
  <2> QED  BY <1>6, <2>1, <2>2 DEF PollItem
<1>7. CASE PollEnd(d)  BY <1>7 DEF PollEnd, Rest
<1> QED  BY <1>1, <1>2, <1>3, <1>4, <1>5, <1>6, <1>7 DEF Drive

LEMMA FailureAround ==
    ASSUME IInv, Around, SessionFails
    PROVE  Around'
<1>0. events' \in 0..MaxEvents
  BY EventCounted DEF SessionFails, Breaks, DriveFails, LoopDies, PollItemFails
<1> USE DEF Around, Goto
<1>1. ASSUME NEW k \in DOMAIN tasks, Breaks(k) PROVE Around'
  <2>1. InStatus({"SEARCHING"}) \subseteq Ids  BY DEF InStatus, IInv, DQTypeOK
  <2> QED  BY <1>0, <1>1, <2>1 DEF Breaks, driverVars
<1>2. ASSUME NEW d \in Drivers, DriveFails(d) PROVE Around'
  <2>1. stage' = [stage EXCEPT ![d] = "lock"] \/ stage' = [stage EXCEPT ![d] = "idle"]
    BY <1>2 DEF DriveFails, Rest
  <2>2. batch' = [batch EXCEPT ![d] = {}] /\ orphaned' \subseteq Ids
    BY <1>2 DEF DriveFails
  <2> QED  BY <1>0, <1>2, <2>1, <2>2 DEF DriveFails
<1>3. ASSUME NEW d \in Drivers, LoopDies(d) PROVE Around'
  BY <1>0, <1>3 DEF LoopDies
<1>4. ASSUME NEW d \in Drivers, NEW p \in polls[d], PollItemFails(d, p) PROVE Around'
  <2>1. remote' \in Transferring  BY <1>4 DEF PollItemFails, Transferring
  <2>2. polls' = [polls EXCEPT ![d] = polls[d] \ {p}]  BY <1>4 DEF PollItemFails
  <2>3. orphaned' \subseteq Ids
    <3>1. p[1] \in Ids  OBVIOUS
    <3> QED  BY <1>4, <3>1 DEF PollItemFails
  <2> QED  BY <1>0, <1>4, <2>1, <2>2, <2>3 DEF PollItemFails
<1> QED  BY <1>1, <1>2, <1>3, <1>4 DEF SessionFails

LEMMA EnvironmentAround ==
    ASSUME IInv, Around, Environment
    PROVE  Around'
<1>0. events' \in 0..MaxEvents
  BY EventCounted
  DEF Environment, QueueFind, LibraryChanges, TrackImported, HookComplete, HookFailed, SetStatus,
      RequeueAllFailed, DeleteRows, StartNow, LostUpdate, Stop, Crash
<1> USE DEF Around, driverVars
<1>1. ASSUME NEW k \in Callers, NEW t \in Tracks, QueueFind(k, t) PROVE Around'
  <2>1. RowsOf(t) \subseteq Ids  BY DEF RowsOf, IInv, DQTypeOK
  <2>2. PICK found \in Ids \cup {0} : call' = [call EXCEPT ![k] = <<t, found>>]
    BY <1>1, <2>1 DEF QueueFind
  <2> QED  BY <1>0, <1>1, <2>2 DEF QueueFind
<1>2. ASSUME NEW t \in Tracks, LibraryChanges(t) PROVE Around'
  BY <1>0, <1>2 DEF LibraryChanges
<1>3. \A S : CancelTransfers(S) => remote' \in Transferring
  BY DEF CancelTransfers, Transferring
<1>4. ASSUME NEW t \in Tracks, TrackImported(t) PROVE Around'
  <2>1. remote' \in Transferring  BY <1>3, <1>4 DEF TrackImported
  <2> QED  BY <1>0, <1>4, <2>1 DEF TrackImported
<1>5. ASSUME NEW S, DeleteRows(S) PROVE Around'
  <2>1. remote' \in Transferring  BY <1>3, <1>5 DEF DeleteRows
  <2> QED  BY <1>0, <1>5, <2>1 DEF DeleteRows
<1>6. CASE Crash  BY <1>0, <1>6 DEF Crash
<1>7. CASE Stop  BY <1>0, <1>7 DEF Stop
<1>8. CASE UNCHANGED <<library, call, driverVars, remote, shutdown, orphaned>>
  BY <1>0, <1>8
<1> QED  BY <1>1, <1>2, <1>4, <1>5, <1>6, <1>7, <1>8
         DEF Environment, HookComplete, HookFailed, SetStatus, RequeueAllFailed, StartNow, LostUpdate

LEMMA StepAround ==
    ASSUME IInv, Around, [Next]_vars
    PROVE  Around'
<1>0. CASE UNCHANGED vars  BY <1>0 DEF Around, vars
<1>1. ASSUME NEW k \in Callers, QueueWrite(k) PROVE Around'
  <2>1. events' \in 0..MaxEvents  BY <1>1, EventCounted DEF QueueWrite
  <2> QED  BY <1>1, <2>1 DEF Around, QueueWrite, driverVars
<1>2. ASSUME NEW k \in DOMAIN tasks, Waterfall(k) PROVE Around'  BY <1>2, WaterfallAround
<1>3. ASSUME NEW d \in Drivers, StartCycle(d) \/ Drive(d) PROVE Around'  BY <1>3, DriverAround
<1>4. ASSUME NEW c \in Cands, Transfer(c) PROVE Around'
  BY <1>4 DEF Around, Transfer, Transferring, envVars, driverVars
<1>5. CASE SessionFails  BY <1>5, FailureAround
<1>6. CASE Environment  BY <1>6, EnvironmentAround
<1> QED  BY <1>0, <1>1, <1>2, <1>3, <1>4, <1>5, <1>6 DEF Next

-----------------------------------------------------------------------------
LEMMA Parts == IInv <=> Wellformed(rows) /\ Manned(tasks) /\ Around
BY DEF IInv, DQTypeOK, Underway, Wellformed, Manned, TaskSound, Around

LEMMA InitIInv == Init => IInv
<1> SUFFICES ASSUME Init PROVE IInv  OBVIOUS
<1>1. Wellformed(rows)  BY DEF Init, Wellformed
<1>2. Manned(tasks)  BY DEF Init, Manned
<1>3. Around
  <2>1. call \in [Callers -> {<<>>} \cup Tracks \X (Ids \cup {0})]  BY DEF Init
  <2>2. stage \in [Drivers -> {"boot", "idle"}]  BY DEF Init
  <2>3. batch \in [Drivers -> SUBSET Ids]  BY DEF Init
  <2>4. polls \in [Drivers -> SUBSET (Ids \X (Cands \cup {"provider"}))]  BY DEF Init
  <2>5. library \subseteq Tracks /\ remote \in Transferring  BY DEF Init
  <2>6. shutdown \in BOOLEAN  BY DEF Init
  <2>7. events \in 0..MaxEvents /\ orphaned \subseteq Ids  BY DEF Init
  <2> QED  BY <2>1, <2>2, <2>3, <2>4, <2>5, <2>6, <2>7 DEF Around
<1> QED  BY <1>1, <1>2, <1>3, Parts

LEMMA StepIInv == IInv /\ [Next]_vars => IInv'
<1> SUFFICES ASSUME IInv, [Next]_vars PROVE IInv'  OBVIOUS
<1>1. Wellformed(rows')  BY StepRows
<1>2. Manned(tasks')  BY StepTasks
<1>3. Around'  BY StepAround, Parts
<1> QED  BY <1>1, <1>2, <1>3 DEF IInv, DQTypeOK, Underway, Wellformed, Manned, TaskSound, Around

\* The inductive invariant holds in every reachable state.
LEMMA Inductive == Spec => []IInv
BY InitIInv, StepIInv, PTL DEF Spec

\* Whoever writes a row, the table stays well formed: every writer of
\* download_manager.py, the routes and the webhooks leaves a status of the column's.
THEOREM TypeCorrect == Spec => []DQTypeOK
BY Inductive, PTL DEF IInv

\* As long as one loop writes the table, beside queue_download and the routes that
\* only set statuses, a candidate that a row has rejected stays rejected until
\* queue_download resets the row: no failing session, crash or recovery forgets it.
\* (With a second writer LostUpdate does.)
THEOREM RejectedForGood == OneWriter => (Spec => RejectedKept)
<1> SUFFICES ASSUME OneWriter PROVE Spec => RejectedKept  OBVIOUS
<1>1. IInv /\ [Next]_vars => \A i \in DOMAIN rows \cap DOMAIN rows' :
         rows[i].black \subseteq rows'[i].black \/ \E k \in Callers : QueueWrite(k)
  BY StepRows DEF Rejects
<1> QED  BY <1>1, Inductive, PTL DEF RejectedKept, Spec

-----------------------------------------------------------------------------
(* Under the background loop alone.                                        *)

TheLoop(d) == Drivers = {d} /\ Daemon = {d}

\* A row that a search has claimed is held by the loop's batch or a waterfall unless a
\* failing session has orphaned it, and the loop has a batch only between its claim
\* and its dispatch.
SearchingIn(r) == {i \in DOMAIN r : r[i].status = "SEARCHING"}
Held(i, d) == i \in batch[d] \cup orphaned \/ \E k \in DOMAIN tasks : k.row = i
Starting == {"boot", "recover", "dead"}
Owned(d) == stage[d] \notin Starting => \A i \in SearchingIn(rows) : Held(i, d)
BatchSpent(d) == stage[d] # "dispatch" => batch[d] = {}
LInv(d) == IInv /\ Owned(d) /\ BatchSpent(d)

LEMMA StatusWritten ==
    ASSUME Wellformed(rows), NEW i, NEW s, s # "SEARCHING"
    PROVE  SearchingIn(WithStatus(i, s)) \subseteq SearchingIn(rows) \ {i}
<1>1. \A j \in DOMAIN rows : rows[j] \in Row  BY DEF Wellformed
<1>2. CASE i \notin DOMAIN rows  BY <1>2 DEF SearchingIn, WithStatus
<1>3. CASE i \in DOMAIN rows
  <2>1. WithStatus(i, s) = [rows EXCEPT ![i] = [rows[i] EXCEPT !.status = s]]  BY <1>3 DEF WithStatus
  <2>2. [rows[i] EXCEPT !.status = s].status = s  BY <1>1, <1>3 DEF Row
  <2> QED  BY <1>3, <2>1, <2>2 DEF SearchingIn
<1> QED  BY <1>2, <1>3

LEMMA RowWritten ==
    ASSUME NEW i \in DOMAIN rows, NEW r
    PROVE  /\ SearchingIn([rows EXCEPT ![i] = r]) \subseteq SearchingIn(rows) \cup {i}
           /\ r.status # "SEARCHING" => SearchingIn([rows EXCEPT ![i] = r]) \subseteq SearchingIn(rows) \ {i}
BY DEF SearchingIn

LEMMA NowDownloading ==
    ASSUME Wellformed(rows), NEW i, NEW c
    PROVE  SearchingIn(Downloading(i, c)) \subseteq SearchingIn(rows) \ {i}
<1>1. CASE i \notin DOMAIN rows  BY <1>1 DEF Downloading, SearchingIn
<1>2. CASE i \in DOMAIN rows
  <2> DEFINE r == [rows[i] EXCEPT !.status = "DOWNLOADING", !.plugin = c,
                                  !.active = IF @ = "none" THEN c ELSE @]
  <2>1. rows[i] \in Row  BY <1>2 DEF Wellformed
  <2>2. r.status = "DOWNLOADING"  BY <2>1 DEF Row
  <2>3. Downloading(i, c) = [rows EXCEPT ![i] = r]  BY <1>2 DEF Downloading
  <2> HIDE DEF r
  <2> QED  BY <1>2, <2>2, <2>3, RowWritten
<1> QED  BY <1>1, <1>2

LEMMA NowRejecting ==
    ASSUME NEW i, NEW c
    PROVE  SearchingIn(Rejecting(i, c)) \subseteq SearchingIn(rows) \cup ({i} \cap DOMAIN rows)
<1>1. CASE i \notin DOMAIN rows  BY <1>1 DEF Rejecting
<1>2. CASE i \in DOMAIN rows
  <2>1. \E r : Rejecting(i, c) = [rows EXCEPT ![i] = r]  BY <1>2 DEF Rejecting
  <2> QED  BY <1>2, <2>1, RowWritten
<1> QED  BY <1>1, <1>2

LEMMA Deleted == \A S : SearchingIn(Without(rows, S)) \subseteq SearchingIn(rows)
BY DEF SearchingIn, Without

LEMMA WithTasksKeeps ==
    ASSUME NEW S, WithTasks(S)
    PROVE  DOMAIN tasks' = DOMAIN tasks \cup S
BY DEF WithTasks

LEMMA WaterfallOwned ==
    ASSUME NEW d \in Drivers, LInv(d), NEW k \in DOMAIN tasks, Waterfall(k)
    PROVE  Owned(d)'
<1>0. Wellformed(rows)  BY DEF LInv, IInv, DQTypeOK, Wellformed
<1>1. /\ SearchingIn(rows') \subseteq SearchingIn(rows) \cup {k.row}
      /\ DOMAIN tasks \ {k} \subseteq DOMAIN tasks'
      /\ k \in DOMAIN tasks' \/ k.row \notin SearchingIn(rows')
  <2>1. CASE Begin(k)
    <3>1. CASE k.row \notin DOMAIN rows  BY <2>1, <3>1 DEF Begin, End, Without, SearchingIn
    <3>2. CASE k.row \in DOMAIN rows /\ rows[k.row].track \in library
      <4>1. rows' = WithStatus(k.row, "COMPLETED") /\ End(k)  BY <2>1, <3>2 DEF Begin
      <4> QED  BY <1>0, <4>1, StatusWritten DEF End, Without
    <3>3. CASE k.row \in DOMAIN rows /\ rows[k.row].track \notin library
      <4>1. DOMAIN tasks' = DOMAIN tasks  BY <2>1, <3>3 DEF Begin
      <4>2. rows' = rows \/ \E r : rows' = [rows EXCEPT ![k.row] = r]
        BY <2>1, <3>3 DEF Begin, Write, WithStatus
      <4> QED  BY <3>3, <4>1, <4>2, RowWritten
    <3> QED  BY <3>1, <3>2, <3>3
  <2>2. CASE SearchFinds(k)
    <3>1. DOMAIN tasks' = DOMAIN tasks  BY <2>2 DEF SearchFinds
    <3>2. CASE k.row \notin DOMAIN rows  BY <2>2, <3>1, <3>2 DEF SearchFinds
    <3>3. CASE k.row \in DOMAIN rows
      <4>1. \E r : rows' = [rows EXCEPT ![k.row] = r]  BY <2>2, <3>3 DEF SearchFinds
      <4> QED  BY <3>1, <3>3, <4>1, RowWritten
    <3> QED  BY <3>2, <3>3
  <2>3. CASE SearchFails(k) \/ NoneStarted(k) \/ ReportFails(k)
    <3>1. rows' = WithStatus(k.row, "FAILED") /\ End(k)
      BY <2>3 DEF SearchFails, NoneStarted, ReportFails
    <3> QED  BY <1>0, <3>1, StatusWritten DEF End, Without
  <2>4. CASE Accepted(k) \/ Refused(k)  BY <2>4 DEF Accepted, Refused
  <2>5. CASE Report(k)
    <3>1. End(k)  BY <2>5 DEF Report
    <3>2. SearchingIn(rows') \subseteq SearchingIn(rows) \ {k.row}
      BY <1>0, <2>5, NowDownloading DEF Report
    <3> QED  BY <3>1, <3>2 DEF End, Without
  <2> QED  BY <2>1, <2>2, <2>3, <2>4, <2>5 DEF Waterfall
<1>2. UNCHANGED <<stage, batch, orphaned>>
  BY DEF Waterfall, Begin, SearchFinds, SearchFails, Accepted, Refused, NoneStarted, Report, ReportFails,
         envVars, driverVars
<1>3. ASSUME stage[d] \notin Starting, NEW i \in SearchingIn(rows') PROVE Held(i, d)'
  <2>1. CASE i = k.row  BY <1>1, <1>3, <2>1 DEF Held
  <2>2. CASE i # k.row
    <3>1. i \in batch[d] \cup orphaned \/ \E m \in DOMAIN tasks \ {k} : m.row = i
      BY <1>1, <1>3, <2>2 DEF LInv, Owned, Held
    <3> QED  BY <1>1, <1>2, <3>1 DEF Held
  <2> QED  BY <2>1, <2>2
<1> QED  BY <1>2, <1>3 DEF Owned

LEMMA FewerSearching ==
    ASSUME NEW d \in Drivers, LInv(d), SearchingIn(rows') \subseteq SearchingIn(rows),
           DOMAIN tasks \subseteq DOMAIN tasks', batch'[d] = batch[d], orphaned \subseteq orphaned',
           stage'[d] \notin Starting => stage[d] \notin Starting
    PROVE  Owned(d)'
BY DEF LInv, Owned, Held

LEMMA DriverOwned ==
    ASSUME NEW d, TheLoop(d), LInv(d), StartCycle(d) \/ Drive(d)
    PROVE  Owned(d)' /\ BatchSpent(d)'
<1> d \in Drivers /\ d \in Daemon  BY DEF TheLoop
<1>0. /\ Wellformed(rows) /\ DOMAIN stage = Drivers /\ DOMAIN batch = Drivers
      /\ batch \in [Drivers -> SUBSET Ids]
  BY DEF LInv, IInv, DQTypeOK, Wellformed
<1>1. CASE StartCycle(d) \/ StartLoop(d) \/ Requeue(d)
  BY <1>0, <1>1 DEF StartCycle, StartLoop, Requeue, Goto, Owned, Starting, LInv, BatchSpent
<1>2. CASE Recover(d)
  <2>1. SearchingIn(rows') = {}
    <3>1. \A i \in DOMAIN rows : [rows[i] EXCEPT !.status = "QUEUED", !.plugin = "none"].status = "QUEUED"
      BY <1>0 DEF Wellformed, Row
    <3> QED  BY <1>2, <3>1 DEF Recover, SearchingIn
  <2> QED  BY <1>0, <1>2, <2>1 DEF Recover, Goto, Owned, LInv, BatchSpent
<1>3. CASE Dedupe(d) \/ Purge(d) \/ Lock(d)
  <2>1. SearchingIn(rows') \subseteq SearchingIn(rows)
    BY <1>3, Deleted DEF Dedupe, Purge, Lock, Write
  <2>2. /\ stage[d] \in {"dedupe", "purge", "lock"} /\ UNCHANGED <<tasks, batch, orphaned>>
        /\ stage'[d] \notin Starting \cup {"dispatch"}
    BY <1>0, <1>3 DEF Dedupe, Purge, Lock, Goto, Starting
  <2> QED  BY <2>1, <2>2, FewerSearching DEF LInv, BatchSpent, Starting
<1>4. CASE Claim(d)
  <2> DEFINE ids == {i \in InStatus({"QUEUED"}) : rows[i].track \notin library}
  <2>0. orphaned' = orphaned \ ids  BY <1>4 DEF Claim
  <2>1. batch'[d] = ids /\ UNCHANGED tasks /\ stage[d] = "claim"  BY <1>0, <1>4 DEF Claim
  <2>2. stage'[d] = "dispatch" \/ (ids = {} /\ stage'[d] = "poll")  BY <1>0, <1>4 DEF Claim, Goto
  <2>3. SearchingIn(rows') \subseteq SearchingIn(rows) \cup ids
    <3>1. \A i \in DOMAIN rows : \A s : [rows[i] EXCEPT !.status = s].status = s
      BY <1>0 DEF Wellformed, Row
    <3>2. rows' = [i \in DOMAIN rows |->
                     IF i \in ids THEN [rows[i] EXCEPT !.status = "SEARCHING"]
                     ELSE IF i \in InStatus({"QUEUED"}) THEN [rows[i] EXCEPT !.status = "COMPLETED"]
                     ELSE rows[i]]
      BY <1>4 DEF Claim
    <3> HIDE DEF ids
    <3> QED  BY <3>1, <3>2 DEF SearchingIn
  <2> HIDE DEF ids
  <2>4. \A i \in SearchingIn(rows) : i \in orphaned \/ \E k \in DOMAIN tasks : k.row = i
    BY <2>1 DEF LInv, Owned, Held, BatchSpent, Starting
  <2> QED  BY <2>0, <2>1, <2>2, <2>3, <2>4 DEF Owned, Held, BatchSpent
<1>5. CASE Dispatch(d)
  <2>1. /\ batch'[d] = {} /\ stage[d] = "dispatch" /\ stage'[d] \in {"gather", "poll"}
        /\ UNCHANGED orphaned
    BY <1>0, <1>5 DEF Dispatch, Goto, envVars
  <2>2. ASSUME WithTasks([by : {d}, kind : {"batch"}, row : batch[d]]), rows' = rows PROVE Owned(d)'
    <3>1. \A i \in batch[d] : \E k \in DOMAIN tasks' : k.row = i
      <4> SUFFICES ASSUME NEW i \in batch[d]
                   PROVE  [by |-> d, kind |-> "batch", row |-> i] \in DOMAIN tasks'
        OBVIOUS
      <4>1. DOMAIN tasks' = DOMAIN tasks \cup [by : {d}, kind : {"batch"}, row : batch[d]]
        BY <2>2, WithTasksKeeps
      <4> QED  BY <4>1
    <3>2. DOMAIN tasks \subseteq DOMAIN tasks'  BY <2>2, WithTasksKeeps
    <3> QED  BY <2>1, <2>2, <3>1, <3>2 DEF LInv, Owned, Held, Starting
  <2>3. ASSUME rows' = SetAll(batch[d] \cap InStatus({"SEARCHING"}), "QUEUED"), UNCHANGED tasks
        PROVE  Owned(d)'
    <3>1. SearchingIn(rows') \subseteq SearchingIn(rows) \ batch[d]
      <4>1. \A i \in DOMAIN rows : [rows[i] EXCEPT !.status = "QUEUED"].status = "QUEUED"
        BY <1>0 DEF Wellformed, Row
      <4> QED  BY <2>3, <4>1 DEF SearchingIn, SetAll, InStatus
    <3> QED  BY <2>1, <2>3, <3>1 DEF LInv, Owned, Held, Starting
  <2> QED  BY <1>5, <2>1, <2>2, <2>3 DEF Dispatch, BatchSpent
<1>6. CASE Gather(d) \/ PollStart(d)
  <2>1. /\ stage[d] \in {"gather", "poll"} /\ UNCHANGED <<rows, tasks, batch, orphaned>>
        /\ stage'[d] \in {"poll", "polling"}
    BY <1>0, <1>6 DEF Gather, PollStart, Goto, envVars
  <2> QED  BY <2>1, FewerSearching DEF LInv, BatchSpent, Starting
<1>7. ASSUME NEW p \in polls[d], PollItem(d, p) PROVE Owned(d)' /\ BatchSpent(d)'
  <2>1. UNCHANGED <<stage, batch, orphaned>> /\ stage[d] = "polling"  BY <1>7 DEF PollItem, envVars
  <2>2. CASE rows' = WithStatus(p[1], "VERIFYING") /\ UNCHANGED tasks
    <3>1. SearchingIn(rows') \subseteq SearchingIn(rows)  BY <1>0, <2>2, StatusWritten
    <3> QED  BY <2>1, <2>2, <3>1, FewerSearching DEF LInv, BatchSpent
  <2>3. CASE rows' = Downloading(p[1], p[2]) /\ UNCHANGED tasks
    <3>1. SearchingIn(rows') \subseteq SearchingIn(rows)  BY <1>0, <2>3, NowDownloading
    <3> QED  BY <2>1, <2>3, <3>1, FewerSearching DEF LInv, BatchSpent
  <2>4. CASE rows' = Rejecting(p[1], p[2]) /\ WithTasks({[by |-> d, kind |-> "poll", row |-> p[1]]})
    <3>1. SearchingIn(rows') \subseteq SearchingIn(rows) \cup {p[1]}  BY <2>4, NowRejecting
    <3>2. DOMAIN tasks \subseteq DOMAIN tasks' /\ \E k \in DOMAIN tasks' : k.row = p[1]
      <4> DEFINE key == [by |-> d, kind |-> "poll", row |-> p[1]]
      <4>1. DOMAIN tasks' = DOMAIN tasks \cup {key}  BY <2>4, WithTasksKeeps
      <4>2. key.row = p[1]  OBVIOUS
      <4> HIDE DEF key
      <4> QED  BY <4>1, <4>2
    <3> QED  BY <2>1, <3>1, <3>2 DEF LInv, Owned, Held, BatchSpent, Starting
  <2> QED  BY <1>7, <2>2, <2>3, <2>4 DEF PollItem
<1>8. CASE PollEnd(d)
  <2>1. stage[d] = "polling" /\ stage'[d] = "lock" /\ UNCHANGED <<rows, tasks, batch, orphaned>>
    BY <1>0, <1>8 DEF PollEnd, Rest, Goto, envVars
  <2> QED  BY <2>1, FewerSearching DEF LInv, BatchSpent, Starting
<1> QED  BY <1>1, <1>2, <1>3, <1>4, <1>5, <1>6, <1>7, <1>8 DEF Drive

\* A failing session that leaves a row in SEARCHING without an owner is the way in
\* which a row is orphaned.
LEMMA FailureOwned ==
    ASSUME NEW d, TheLoop(d), LInv(d), SessionFails
    PROVE  Owned(d)' /\ BatchSpent(d)'
<1> d \in Drivers /\ d \in Daemon  BY DEF TheLoop
<1>0. DOMAIN stage = Drivers /\ DOMAIN batch = Drivers  BY DEF LInv, IInv, DQTypeOK
<1>1. ASSUME NEW k \in DOMAIN tasks, Breaks(k) PROVE Owned(d)' /\ BatchSpent(d)'
  <2>1. /\ UNCHANGED <<rows, stage, batch>> /\ DOMAIN tasks' = DOMAIN tasks \ {k}
        /\ orphaned' = orphaned \cup ({k.row} \cap SearchingIn(rows))
    BY <1>1 DEF Breaks, End, Without, driverVars, InStatus, SearchingIn
  <2>2. ASSUME NEW i \in SearchingIn(rows), Held(i, d) PROVE Held(i, d)'
    BY <2>1, <2>2 DEF Held
  <2> QED  BY <2>1, <2>2 DEF LInv, Owned, BatchSpent
<1>2. CASE DriveFails(d)
  <2>1. /\ UNCHANGED <<rows, tasks>> /\ batch'[d] = {} /\ stage[d] \notin Starting
        /\ orphaned' = orphaned \cup (batch[d] \cap SearchingIn(rows))
    BY <1>0, <1>2 DEF DriveFails, Rest, InStatus, SearchingIn, Starting
  <2> QED  BY <2>1 DEF LInv, Owned, Held, BatchSpent
<1>3. CASE LoopDies(d)
  <2>1. stage'[d] = "dead" /\ UNCHANGED batch /\ stage[d] = "recover"  BY <1>0, <1>3 DEF LoopDies, Goto
  <2> QED  BY <2>1 DEF LInv, Owned, BatchSpent, Starting
<1>4. ASSUME NEW p \in polls[d], PollItemFails(d, p) PROVE Owned(d)' /\ BatchSpent(d)'
  <2>1. UNCHANGED <<tasks, stage, batch>>  BY <1>4 DEF PollItemFails
  <2>2. CASE UNCHANGED <<rows, orphaned>>  BY <2>1, <2>2, FewerSearching DEF LInv, BatchSpent
  <2>3. CASE rows' = Rejecting(p[1], p[2]) /\ orphaned' = orphaned \cup ({p[1]} \cap DOMAIN rows)
    <3>1. SearchingIn(rows') \subseteq SearchingIn(rows) \cup ({p[1]} \cap DOMAIN rows)
      BY <2>3, NowRejecting
    <3> QED  BY <2>1, <2>3, <3>1 DEF LInv, Owned, Held, BatchSpent
  <2> QED  BY <1>4, <2>2, <2>3 DEF PollItemFails
<1> QED  BY <1>1, <1>2, <1>3, <1>4 DEF SessionFails, TheLoop

LEMMA EnvironmentOwned ==
    ASSUME NEW d, TheLoop(d), LInv(d), Environment
    PROVE  Owned(d)' /\ BatchSpent(d)'
<1> d \in Drivers /\ d \in Daemon  BY DEF TheLoop
<1>0. Wellformed(rows)  BY DEF LInv, IInv, DQTypeOK, Wellformed
<1>1. CASE Crash  BY <1>1 DEF Crash, Owned, BatchSpent, Starting
<1>2. ASSUME ~Crash PROVE UNCHANGED <<stage, batch, orphaned>>
  BY <1>2 DEF Environment, QueueFind, LibraryChanges, TrackImported, HookComplete, HookFailed, SetStatus,
             RequeueAllFailed, DeleteRows, StartNow, LostUpdate, Stop, driverVars
<1>3. ASSUME ~Crash PROVE DOMAIN tasks \subseteq DOMAIN tasks'
  <2>1. UNCHANGED tasks \/ \E S : WithTasks(S)
    BY <1>3 DEF Environment, QueueFind, LibraryChanges, TrackImported, HookComplete, HookFailed, SetStatus,
             RequeueAllFailed, DeleteRows, StartNow, LostUpdate, Stop
  <2> QED  BY <2>1, WithTasksKeeps
<1>4. ASSUME ~Crash PROVE SearchingIn(rows') \subseteq SearchingIn(rows)
  <2>1. CASE UNCHANGED rows  BY <2>1
  <2>2. CASE \E S : rows' = Without(rows, S)  BY <2>2, Deleted
  <2>3. CASE \E i, s : rows' = WithStatus(i, s) /\ s # "SEARCHING"
    BY <1>0, <2>3, StatusWritten
  <2>4. ASSUME NEW c \in Cands, HookFailed(c) PROVE SearchingIn(rows') \subseteq SearchingIn(rows)
    <3>1. PICK i \in DOMAIN rows : rows' = [rows EXCEPT ![i] = Rotated(rows[i])]
      BY <2>4 DEF HookFailed, Resolved, InStatus
    <3>2. rows[i] \in Row  BY <1>0 DEF Wellformed
    <3>3. Rotated(rows[i]).status \in {"RETRYING", "FAILED"}  BY <3>2 DEF Rotated, Row
    <3> QED  BY <3>1, <3>3, RowWritten
  <2>5. CASE RequeueAllFailed
    <3>1. \A i \in DOMAIN rows : [rows[i] EXCEPT !.status = "QUEUED", !.retries = @ + 1].status = "QUEUED"
      BY <1>0 DEF Wellformed, Row
    <3> QED  BY <2>5, <3>1 DEF RequeueAllFailed, SearchingIn
  <2>6. ASSUME NEW i \in DOMAIN rows, StartNow(i) PROVE SearchingIn(rows') \subseteq SearchingIn(rows)
    <3> DEFINE r == [rows[i] EXCEPT !.status = "QUEUED", !.retries = @ + 1]
    <3>1. r.status = "QUEUED"  BY <1>0 DEF Wellformed, Row
    <3>2. rows' = [rows EXCEPT ![i] = r]  BY <2>6 DEF StartNow
    <3> HIDE DEF r
    <3> QED  BY <3>1, <3>2, RowWritten
  <2>7. ASSUME NEW i \in DOMAIN rows, NEW c \in Cands, LostUpdate(i, c)
        PROVE  SearchingIn(rows') \subseteq SearchingIn(rows)
    <3> DEFINE r == [rows[i] EXCEPT !.black = rows[i].black \ {c}]
    <3>1. r.status = rows[i].status  BY <1>0 DEF Wellformed, Row
    <3>2. rows' = [rows EXCEPT ![i] = r]  BY <2>7 DEF LostUpdate
    <3> HIDE DEF r
    <3> QED  BY <3>1, <3>2 DEF SearchingIn
  <2> QED
    BY <1>4, <2>1, <2>2, <2>3, <2>4, <2>5, <2>6, <2>7
    DEF Environment, QueueFind, LibraryChanges, TrackImported, HookComplete, SetStatus, DeleteRows, Stop
<1> QED  BY <1>1, <1>2, <1>3, <1>4, FewerSearching DEF LInv, BatchSpent

LEMMA QueueWriteOwned ==
    ASSUME NEW d \in Drivers, LInv(d), NEW k \in Callers, QueueWrite(k)
    PROVE  Owned(d)' /\ BatchSpent(d)'
<1> DEFINE t == call[k][1]
<1>1. \/ rows' = rows
      \/ \E i \in DOMAIN rows : rows' = [rows EXCEPT ![i] = Fresh(t)]
      \/ \E new \in Ids : rows' = [j \in DOMAIN rows \cup {new} |->
                                     IF j = new THEN Fresh(t) ELSE rows[j]]
  BY DEF QueueWrite, Write
<1>2. Fresh(t).status = "QUEUED"  BY DEF Fresh
<1> HIDE DEF t
<1>3. SearchingIn(rows') \subseteq SearchingIn(rows)  BY <1>1, <1>2 DEF SearchingIn
<1>4. UNCHANGED <<tasks, stage, batch, orphaned>>  BY DEF QueueWrite, driverVars
<1> QED  BY <1>3, <1>4, FewerSearching DEF LInv, BatchSpent

LEMMA StepOwned ==
    ASSUME NEW d, TheLoop(d), LInv(d), [Next]_vars
    PROVE  Owned(d)' /\ BatchSpent(d)'
<1> d \in Drivers  BY DEF TheLoop
<1>1. CASE UNCHANGED <<rows, tasks, stage, batch, orphaned>>
  BY <1>1, FewerSearching DEF LInv, BatchSpent
<1>2. ASSUME NEW k \in Callers, QueueWrite(k) PROVE Owned(d)' /\ BatchSpent(d)'
  BY <1>2, QueueWriteOwned
<1>3. ASSUME NEW k \in DOMAIN tasks, Waterfall(k) PROVE Owned(d)' /\ BatchSpent(d)'
  <2>1. UNCHANGED <<stage, batch>>
    BY <1>3 DEF Waterfall, Begin, SearchFinds, SearchFails, Accepted, Refused, NoneStarted, Report,
                ReportFails, driverVars
  <2> QED  BY <1>3, <2>1, WaterfallOwned DEF LInv, BatchSpent
<1>4. CASE StartCycle(d) \/ Drive(d)  BY <1>4, DriverOwned
<1>5. CASE SessionFails  BY <1>5, FailureOwned
<1>6. CASE Environment  BY <1>6, EnvironmentOwned
<1> QED
  BY <1>1, <1>2, <1>3, <1>4, <1>5, <1>6 DEF Next, TheLoop, Transfer, vars, envVars, driverVars

\* The background loop loses a row only to a failing session: from its recovery on, a
\* row in SEARCHING that no such session has orphaned is in the batch that the loop
\* is about to dispatch or has a waterfall, whatever users, webhooks and
\* queue_download do to the rows, across crashes and stops.
THEOREM LoopOwnsSearches == (\E d : TheLoop(d)) => (Spec => []SearchOwned)
<1> SUFFICES ASSUME NEW d, TheLoop(d) PROVE Spec => []SearchOwned  OBVIOUS
<1>1. Init => Owned(d) /\ BatchSpent(d)
  BY DEF Init, Owned, BatchSpent, TheLoop, Starting
<1>2. Owned(d) /\ BatchSpent(d) /\ IInv /\ [Next]_vars => Owned(d)' /\ BatchSpent(d)'
  BY StepOwned DEF LInv
<1>3. Owned(d) => SearchOwned
  BY DEF Owned, SearchOwned, TheLoop, SearchingIn, InStatus, Held, Starting
<1> QED  BY <1>1, <1>2, <1>3, Inductive, PTL DEF Spec

-----------------------------------------------------------------------------
(* The background loop alone: no user, webhook or import touches the rows,   *)
(* and the calls of queue_download do not overlap.  With two overlapping     *)
(* calls for a finished track the second takes the row back from its search, *)
(* and nothing below holds.                                                  *)

OneCaller == \A k, m \in Callers : k = m
EarlierTraced == \A i \in DOMAIN Earlier :
    Earlier[i].status = "DOWNLOADING" => Earlier[i].plugin \in Offers[Earlier[i].track]
EarlierDistinct == \A i, j \in DOMAIN Earlier : Earlier[i].track = Earlier[j].track => i = j
Alone(d) == TheLoop(d) /\ UserOps = {} /\ OneCaller /\ EarlierTraced /\ EarlierDistinct

\* Where the loop is decides what it holds; it never requeues failed rows.
Resting(d) ==
    /\ stage[d] # "requeue"
    /\ stage[d] \in {"boot", "recover", "dead", "dedupe", "purge"} => DOMAIN tasks = {}
    /\ BatchSpent(d)
    /\ stage[d] # "polling" => polls[d] = {}

\* A track has one row, so that a deduplication that fails leaves nothing behind.
OneRowEach == \A i, j \in DOMAIN rows : rows[i].track = rows[j].track => i = j

\* What a queue_download has found is still there when it writes.
Finished == {"FAILED", "COMPLETED", "CANCELLED"}
Reusable(t, i) == i \in DOMAIN rows /\ Newest(i, RowsOf(t)) /\ rows[i].status \in Finished
Absent(t, i) == RowsOf(t) = {} /\ i \notin DOMAIN rows
Writable(t, i) == Absent(t, i) \/ Reusable(t, i)
CallsFit == \A k \in Callers : call[k] # <<>> => Writable(call[k][1], call[k][2])

\* A waterfall searches for the track of its row, and what it has left to try is
\* offered for that track and not rejected by the row.
Fits(w, r) ==
    /\ w.pc = "search" => w.track = r.track /\ r.black \subseteq w.black
    /\ w.pc \in {"attempt", "report"} =>
          \A n \in DOMAIN w.left : w.left[n] \in Offers[r.track] \ r.black

\* A row has one owner: a waterfall, the batch or the poll.
RowsSearched == \A k \in DOMAIN tasks :
    k.row \in DOMAIN rows /\ rows[k.row].status = "SEARCHING" /\ Fits(tasks[k], rows[k.row])
RowsClaimed(d) == \A i \in batch[d] :
    /\ i \in DOMAIN rows /\ rows[i].status = "SEARCHING"
    /\ \A k \in DOMAIN tasks : k.row # i
RowsPolled(d) == \A p \in polls[d] :
    p[1] \in DOMAIN rows /\ rows[p[1]].status = "DOWNLOADING" /\ rows[p[1]].plugin = p[2]
Owners(d) == RowsSearched /\ OneWaterfall /\ RowsClaimed(d) /\ RowsPolled(d)

Order(d) == Resting(d) /\ OneRowEach /\ CallsFit /\ Owners(d) /\ DownloadingTraced

-----------------------------------------------------------------------------
(* Steps that leave the tracks of the rows.                                *)

SameTracks == DOMAIN rows' = DOMAIN rows /\ \A i \in DOMAIN rows : rows'[i].track = rows[i].track
FinishedStay == \A i \in DOMAIN rows : rows[i].status \in Finished => rows'[i].status \in Finished
SameRows == DOMAIN rows' = DOMAIN rows /\ \A i \in DOMAIN rows : rows'[i] = rows[i]

LEMMA TracksKept ==
    ASSUME SameTracks, FinishedStay, CallsFit, call' = call
    PROVE  CallsFit' /\ (OneRowEach => OneRowEach')
<1>1. \A t : RowsOf(t)' = RowsOf(t)  BY DEF RowsOf, SameTracks
<1>2. OneRowEach => OneRowEach'  BY DEF OneRowEach, SameTracks
<1>3. CallsFit'
  BY <1>1 DEF CallsFit, Writable, Absent, Reusable, Newest, SameTracks, FinishedStay
<1> QED  BY <1>2, <1>3

\* A step that moves nothing but the loop, between stages that hold nothing.
LEMMA OnlyStage ==
    ASSUME NEW d, Order(d), SameRows, UNCHANGED <<tasks, batch, polls, call>>,
           Resting(d)'
    PROVE  Order(d)'
<1>1. SameTracks /\ FinishedStay  BY DEF SameRows, SameTracks, FinishedStay
<1>2. CallsFit' /\ OneRowEach'  BY <1>1, TracksKept DEF Order
<1>3. Owners(d)'
  BY DEF Order, Owners, RowsSearched, OneWaterfall, RowsClaimed, RowsPolled, SameRows
<1>4. DownloadingTraced'  BY DEF Order, DownloadingTraced, InStatus, SameRows
<1> QED  BY <1>2, <1>3, <1>4 DEF Order

-----------------------------------------------------------------------------
(* What a waterfall does to its row.                                       *)

LEMMA Finding ==
    ASSUME NEW S \in SUBSET Cands, NEW found \in Rankings(S)
    PROVE  \A n \in DOMAIN found : found[n] \in S
BY DEF Rankings

LEMMA HeadTail ==
    ASSUME NEW s \in Seq(Cands), s # <<>>
    PROVE  /\ Head(s) = s[1] /\ 1 \in DOMAIN s
           /\ \A n \in DOMAIN Tail(s) : \E m \in DOMAIN s : Tail(s)[n] = s[m]
<1>1. Len(s) \in Nat /\ Len(s) > 0 /\ DOMAIN s = 1..Len(s)  BY EmptySeq, LenProperties
<1>2. Head(s) = s[1] /\ 1 \in DOMAIN s  BY <1>1
<1>3. /\ Tail(s) \in Seq(Cands) /\ Len(Tail(s)) = Len(s) - 1
      /\ \A n \in 1..Len(Tail(s)) : Tail(s)[n] = s[n + 1]
  BY <1>1, HeadTailProperties
<1>4. DOMAIN Tail(s) = 1..Len(Tail(s))  BY <1>3, LenProperties
<1>5. ASSUME NEW n \in DOMAIN Tail(s) PROVE n + 1 \in DOMAIN s  BY <1>1, <1>3, <1>4
<1> QED  BY <1>2, <1>3, <1>4, <1>5

\* The row stays SEARCHING with a waterfall that fits it, or the waterfall ends.
Continues(k, r) == r.status = "SEARCHING" /\ \E w : tasks' = [tasks EXCEPT ![k] = w] /\ Fits(w, r)
Ends(k, r) ==
    /\ End(k) /\ r.status \in {"DOWNLOADING", "FAILED", "COMPLETED"}
    /\ r.status = "DOWNLOADING" => r.plugin \in Offers[r.track]
Searched(k, r) ==
    /\ DOMAIN rows' = DOMAIN rows /\ rows'[k.row] = r
    /\ \A i \in DOMAIN rows \ {k.row} : rows'[i] = rows[i]
    /\ r.track = rows[k.row].track /\ r.black = rows[k.row].black
    /\ Continues(k, r) \/ Ends(k, r)

LEMMA WaterfallSearches ==
    ASSUME IInv, RowsSearched, NEW k \in DOMAIN tasks, Waterfall(k)
    PROVE  \E r : Searched(k, r)
<1> DEFINE i == k.row
           old == rows[i]
           w == tasks[k]
           Goal == \E r : Searched(k, r)
<1>0. /\ Wellformed(rows) /\ i \in DOMAIN rows /\ old \in Row /\ old.status = "SEARCHING"
      /\ w \in Task /\ Fits(w, old)
  BY Parts, TaskFields DEF RowsSearched, Wellformed
<1>1. ASSUME NEW s \in {"FAILED", "COMPLETED"}, rows' = WithStatus(i, s), End(k) PROVE Goal
  <2> DEFINE r == [old EXCEPT !.status = s]
  <2>1. r.track = old.track /\ r.black = old.black /\ r.status = s  BY <1>0 DEF Row
  <2>2. rows' = [rows EXCEPT ![i] = r]  BY <1>0, <1>1 DEF WithStatus
  <2> HIDE DEF r
  <2>3. Searched(k, r)  BY <1>0, <1>1, <2>1, <2>2 DEF Searched, Ends
  <2> QED  BY <2>3
<1>2. ASSUME rows' = rows, NEW v, tasks' = [tasks EXCEPT ![k] = v], Fits(v, old) PROVE Goal
  <2>1. Searched(k, old)  BY <1>0, <1>2 DEF Searched, Continues
  <2> QED  BY <2>1
<1>3. CASE Begin(k)
  <2>1. CASE old.track \in library
    <3>1. rows' = WithStatus(i, "COMPLETED") /\ End(k)  BY <1>0, <1>3, <2>1 DEF Begin
    <3> QED  BY <1>1, <3>1
  <2>2. CASE old.track \notin library
    <3> DEFINE v == [w EXCEPT !.pc = "search", !.track = old.track, !.black = old.black]
    <3>1. rows' = rows /\ tasks' = [tasks EXCEPT ![k] = v]
      BY <1>0, <1>3, <2>2 DEF Begin, Write, Blacklist
    <3>2. Fits(v, old)
      <4>1. v.pc = "search" /\ v.track = old.track /\ v.black = old.black  BY <1>0 DEF Task
      <4> HIDE DEF v
      <4> QED  BY <4>1 DEF Fits
    <3> HIDE DEF v
    <3> QED  BY <1>2, <3>1, <3>2
  <2> QED  BY <2>1, <2>2
<1>4. CASE SearchFinds(k)
  <2>1. PICK found \in Rankings(Offers[w.track] \ w.black) :
          /\ tasks' = [tasks EXCEPT ![k] = [NewTask EXCEPT !.pc = "attempt", !.left = found]]
          /\ rows' = [rows EXCEPT ![i] = [old EXCEPT !.active = Head(found), !.stack = Tail(found),
                                                     !.plugin = "provider"]]
    BY <1>0, <1>4 DEF SearchFinds
  <2>2. w.track = old.track /\ old.black \subseteq w.black  BY <1>0, <1>4 DEF SearchFinds, Fits
  <2>3. old.track \in Tracks /\ Offers[old.track] \subseteq Cands  BY <1>0, RowFields
  <2>4. \A n \in DOMAIN found : found[n] \in Offers[old.track] \ old.black
    BY <2>2, <2>3, Finding
  <2> DEFINE v == [NewTask EXCEPT !.pc = "attempt", !.left = found]
             r == [old EXCEPT !.active = Head(found), !.stack = Tail(found), !.plugin = "provider"]
  <2>5. v.pc = "attempt" /\ v.left = found  BY DEF NewTask
  <2>6. r.track = old.track /\ r.black = old.black /\ r.status = "SEARCHING"  BY <1>0 DEF Row
  <2> HIDE DEF v, r
  <2>7. Fits(v, r)  BY <2>4, <2>5, <2>6 DEF Fits
  <2>8. rows' = [rows EXCEPT ![i] = r] /\ tasks' = [tasks EXCEPT ![k] = v]  BY <2>1 DEF v, r
  <2>9. Searched(k, r)  BY <1>0, <2>6, <2>7, <2>8 DEF Searched, Continues
  <2> QED  BY <2>9
<1>5. CASE SearchFails(k) \/ NoneStarted(k) \/ ReportFails(k)
  <2>1. rows' = WithStatus(i, "FAILED") /\ End(k)  BY <1>5 DEF SearchFails, NoneStarted, ReportFails
  <2> QED  BY <1>1, <2>1
<1>6. CASE Accepted(k)
  <2> DEFINE v == [w EXCEPT !.pc = "report", !.left = <<Head(w.left)>>]
  <2>1. rows' = rows /\ tasks' = [tasks EXCEPT ![k] = v] /\ w.pc = "attempt" /\ w.left # <<>>
    BY <1>6 DEF Accepted
  <2>2. Head(w.left) = w.left[1] /\ 1 \in DOMAIN w.left  BY <2>1, TaskFields, HeadTail
  <2>3. w.left[1] \in Offers[old.track] \ old.black  BY <1>0, <2>1, <2>2 DEF Fits
  <2>4. v.pc = "report" /\ v.left = <<w.left[1]>>  BY <1>0, <2>2 DEF Task
  <2> HIDE DEF v
  <2>5. Fits(v, old)  BY <2>3, <2>4 DEF Fits
  <2> QED  BY <1>2, <2>1, <2>5
<1>7. CASE Refused(k)
  <2> DEFINE v == [w EXCEPT !.left = Tail(w.left)]
  <2>1. rows' = rows /\ tasks' = [tasks EXCEPT ![k] = v] /\ w.pc = "attempt" /\ w.left # <<>>
    BY <1>7 DEF Refused
  <2>2. \A n \in DOMAIN Tail(w.left) : \E m \in DOMAIN w.left : Tail(w.left)[n] = w.left[m]
    BY <2>1, TaskFields, HeadTail
  <2>3. v.pc = "attempt" /\ v.left = Tail(w.left)  BY <1>0, <2>1 DEF Task
  <2> HIDE DEF v
  <2>4. Fits(v, old)  BY <1>0, <2>1, <2>2, <2>3 DEF Fits
  <2> QED  BY <1>2, <2>1, <2>4
<1>8. CASE Report(k)
  <2>1. w.pc = "report" /\ w.left # <<>>  BY <1>8 DEF Report, IInv, Underway
  <2>2. Head(w.left) = w.left[1] /\ 1 \in DOMAIN w.left  BY <2>1, TaskFields, HeadTail
  <2> DEFINE c == Head(w.left)
             a == IF old.active = "none" THEN c ELSE old.active
             r == [old EXCEPT !.status = "DOWNLOADING", !.plugin = c, !.active = a]
  <2>3. c \in Offers[old.track]  BY <1>0, <2>1, <2>2 DEF Fits
  <2>4. rows' = [rows EXCEPT ![i] = r] /\ End(k)  BY <1>0, <1>8 DEF Report, Downloading
  <2>5. r.track = old.track /\ r.black = old.black /\ r.plugin = c /\ r.status = "DOWNLOADING"
    BY <1>0 DEF Row
  <2> HIDE DEF r, c
  <2>6. Searched(k, r)  BY <1>0, <2>3, <2>4, <2>5 DEF Searched, Ends
  <2> QED  BY <2>6
<1> QED  BY <1>3, <1>4, <1>5, <1>6, <1>7, <1>8 DEF Waterfall

LEMMA WaterfallOrder ==
    ASSUME IInv, NEW d, Order(d), NEW k \in DOMAIN tasks, Waterfall(k)
    PROVE  Order(d)'
<1> USE DEF Order, Owners
<1>0. k.row \in DOMAIN rows /\ rows[k.row].status = "SEARCHING"  BY DEF RowsSearched
<1>1. UNCHANGED <<stage, batch, polls, call>>
  BY DEF Waterfall, Begin, SearchFinds, SearchFails, Accepted, Refused, NoneStarted, Report, ReportFails,
         driverVars
<1>2. PICK r : Searched(k, r)  BY WaterfallSearches
<1>3. SameTracks /\ FinishedStay
  BY <1>0, <1>2 DEF Searched, SameTracks, FinishedStay, Finished
<1>4. /\ DOMAIN tasks' \subseteq DOMAIN tasks /\ \A m \in DOMAIN tasks' \ {k} : tasks'[m] = tasks[m]
      /\ k \in DOMAIN tasks' => r.status = "SEARCHING" /\ Fits(tasks'[k], r)
  <2>1. CASE Continues(k, r)  BY <2>1 DEF Continues
  <2>2. CASE Ends(k, r)  BY <2>2 DEF Ends, End, Without
  <2> QED  BY <1>2, <2>1, <2>2 DEF Searched
<1>5. Resting(d)' /\ OneRowEach' /\ CallsFit'
  BY <1>1, <1>3, <1>4, TracksKept DEF Resting, BatchSpent
<1>6. RowsSearched'
  <2> SUFFICES ASSUME NEW m \in DOMAIN tasks'
               PROVE  /\ m.row \in DOMAIN rows' /\ rows'[m.row].status = "SEARCHING"
                      /\ Fits(tasks'[m], rows'[m.row])
    BY DEF RowsSearched
  <2>1. CASE m = k  BY <1>0, <1>2, <1>4, <2>1 DEF Searched
  <2>2. CASE m # k
    <3>1. m \in DOMAIN tasks /\ m.row # k.row /\ tasks'[m] = tasks[m]
      BY <1>4, <2>2 DEF OneWaterfall
    <3> QED  BY <1>2, <3>1 DEF RowsSearched, Searched
  <2> QED  BY <2>1, <2>2
<1>7. OneWaterfall'  BY <1>4 DEF OneWaterfall
<1>8. RowsClaimed(d)'  BY <1>1, <1>2, <1>4 DEF RowsClaimed, Searched
<1>9. RowsPolled(d)'
  <2>1. \A p \in polls[d] : p[1] # k.row  BY <1>0 DEF RowsPolled
  <2> QED  BY <1>1, <1>2, <2>1 DEF RowsPolled, Searched
<1>10. DownloadingTraced'
  BY <1>2 DEF DownloadingTraced, InStatus, Searched, Continues, Ends
<1> QED  BY <1>5, <1>6, <1>7, <1>8, <1>9, <1>10

-----------------------------------------------------------------------------
(* What the loop does to the rows.                                         *)

\* Some rows disappear, while nothing holds a row.
LEMMA DeletedOrder ==
    ASSUME NEW d, Order(d), NEW S, rows' = Without(rows, S),
           DOMAIN tasks = {}, batch[d] = {}, polls[d] = {},
           UNCHANGED <<tasks, batch, polls, call>>, Resting(d)'
    PROVE  Order(d)'
<1> USE DEF Order
<1>1. /\ DOMAIN rows' = DOMAIN rows \ S /\ \A i \in DOMAIN rows' : rows'[i] = rows[i]
      /\ \A t : RowsOf(t)' = RowsOf(t) \ S
  BY DEF Without, RowsOf
<1>2. CallsFit'
  <2> SUFFICES ASSUME NEW t, NEW i, Writable(t, i) PROVE Writable(t, i)'
    BY DEF CallsFit
  <2>1. CASE Absent(t, i)  BY <1>1, <2>1 DEF Writable, Absent
  <2>2. CASE Reusable(t, i) /\ i \in S
    <3>1. RowsOf(t) = {i}  BY <2>2 DEF Reusable, Newest, RowsOf, OneRowEach
    <3> QED  BY <1>1, <2>2, <3>1 DEF Writable, Absent
  <2>3. CASE Reusable(t, i) /\ i \notin S  BY <1>1, <2>3 DEF Writable, Reusable, Newest
  <2> QED  BY <2>1, <2>2, <2>3 DEF Writable
<1>3. Owners(d)'  BY DEF Owners, RowsSearched, OneWaterfall, RowsClaimed, RowsPolled
<1>4. DownloadingTraced'  BY <1>1 DEF DownloadingTraced, InStatus
<1>5. OneRowEach'  BY <1>1 DEF OneRowEach
<1> QED  BY <1>2, <1>3, <1>4, <1>5

LEMMA NoDuplicates == ASSUME Wellformed(rows), OneRowEach PROVE Duplicates = {}
<1> SUFFICES ASSUME NEW i \in DOMAIN rows, NEW j \in RowsOf(rows[i].track), j > i PROVE FALSE
  BY DEF Duplicates
<1>1. i = j /\ i \in Nat  BY DEF OneRowEach, RowsOf, Wellformed
<1> QED  BY <1>1

\* Where each track has one row, deduplication deletes none, whether it works or not.
LEMMA NothingToDelete ==
    ASSUME Wellformed(rows), OneRowEach, Write(Without(rows, Duplicates))
    PROVE  SameRows
BY NoDuplicates DEF Write, Without, SameRows

LEMMA BootOrder ==
    ASSUME IInv, NEW d, TheLoop(d), Order(d), StartLoop(d) \/ Recover(d) \/ Dedupe(d) \/ Purge(d)
    PROVE  Order(d)'
<1> d \in Drivers /\ d \in Daemon  BY DEF TheLoop
<1>0. /\ Wellformed(rows) /\ DOMAIN stage = Drivers /\ DOMAIN tasks = {}
      /\ batch[d] = {} /\ polls[d] = {} /\ UNCHANGED <<tasks, batch, polls, call>>
  <2>1. Wellformed(rows) /\ DOMAIN stage = Drivers  BY Parts DEF Around
  <2> QED  BY <2>1 DEF Order, Resting, BatchSpent, StartLoop, Recover, Dedupe, Purge
<1> USE DEF Goto
<1>1. CASE StartLoop(d)
  <2>1. Resting(d)' /\ SameRows  BY <1>0, <1>1 DEF StartLoop, Resting, BatchSpent, SameRows
  <2> QED  BY <1>0, <2>1, OnlyStage
<1>2. CASE Recover(d)
  <2> DEFINE again(i) == [rows[i] EXCEPT !.status = "QUEUED", !.plugin = "none"]
  <2>1. \A i \in DOMAIN rows : again(i).track = rows[i].track /\ again(i).status = "QUEUED"
    BY <1>0 DEF Row, Wellformed
  <2>2. rows' = [i \in DOMAIN rows |-> IF rows[i].status \notin {"SEARCHING", "DOWNLOADING"}
                                       THEN rows[i] ELSE again(i)]
    BY <1>2 DEF Recover
  <2> HIDE DEF again
  <2>3. SameTracks /\ FinishedStay  BY <2>1, <2>2 DEF SameTracks, FinishedStay, Finished
  <2>4. CallsFit' /\ OneRowEach'  BY <1>0, <2>3, TracksKept DEF Order
  <2>5. DownloadingTraced'  BY <2>1, <2>2 DEF DownloadingTraced, InStatus
  <2>6. Owners(d)'  BY <1>0 DEF Owners, RowsSearched, OneWaterfall, RowsClaimed, RowsPolled
  <2>7. Resting(d)'  BY <1>0, <1>2 DEF Recover, Resting, BatchSpent
  <2> QED  BY <2>4, <2>5, <2>6, <2>7 DEF Order
<1>3. CASE Dedupe(d)
  <2>1. SameRows  BY <1>0, <1>3, NothingToDelete DEF Dedupe, Order
  <2>2. Resting(d)'  BY <1>0, <1>3 DEF Dedupe, Resting, BatchSpent
  <2> QED  BY <1>0, <2>1, <2>2, OnlyStage
<1>4. CASE Purge(d)
  <2>1. rows' = rows \/ \E S : rows' = Without(rows, S)  BY <1>4 DEF Purge, Write
  <2>2. stage[d] = "purge" /\ stage' = [stage EXCEPT ![d] = "lock"]  BY <1>4 DEF Purge
  <2>3. Resting(d)'  BY <1>0, <2>2 DEF Resting, BatchSpent
  <2> QED  BY <1>0, <2>1, <2>3, DeletedOrder, OnlyStage DEF SameRows
<1> QED  BY <1>1, <1>2, <1>3, <1>4

LEMMA BatchOrder ==
    ASSUME IInv, NEW d, TheLoop(d), Order(d), Lock(d) \/ Claim(d) \/ Dispatch(d) \/ Gather(d)
    PROVE  Order(d)'
<1> d \in Drivers /\ d \in Daemon  BY DEF TheLoop
<1>0. /\ Wellformed(rows) /\ DOMAIN stage = Drivers /\ polls[d] = {}
      /\ DOMAIN batch = Drivers /\ OneRowEach /\ UNCHANGED <<polls, call>>
  <2>1. Wellformed(rows) /\ DOMAIN stage = Drivers /\ DOMAIN batch = Drivers  BY Parts DEF Around
  <2> QED  BY <2>1 DEF Order, Resting, Lock, Claim, Dispatch, Gather
<1> USE DEF Goto
<1>1. CASE Lock(d)
  <2>1. SameRows  BY <1>0, <1>1, NothingToDelete DEF Lock, SameRows
  <2>2. Resting(d)' /\ UNCHANGED <<tasks, batch>>
    BY <1>0, <1>1 DEF Lock, Order, Resting, BatchSpent
  <2> QED  BY <1>0, <2>1, <2>2, OnlyStage
<1>2. CASE Gather(d)
  <2>1. SameRows /\ UNCHANGED <<tasks, batch>>  BY <1>2 DEF Gather, SameRows
  <2>2. Resting(d)'  BY <1>0, <1>2, <2>1 DEF Gather, Order, Resting, BatchSpent
  <2> QED  BY <1>0, <2>1, <2>2, OnlyStage
<1>3. CASE Claim(d)
  <2> DEFINE ids == {i \in InStatus({"QUEUED"}) : rows[i].track \notin library}
             to(i, s) == [rows[i] EXCEPT !.status = s]
  <2>1. \A i \in DOMAIN rows : \A s : to(i, s).track = rows[i].track /\ to(i, s).status = s
    BY <1>0 DEF Row, Wellformed
  <2>2. rows' = [i \in DOMAIN rows |->
                   IF i \in ids THEN to(i, "SEARCHING")
                   ELSE IF i \in InStatus({"QUEUED"}) THEN to(i, "COMPLETED") ELSE rows[i]]
    BY <1>3 DEF Claim
  <2>3. /\ batch'[d] = ids /\ tasks' = tasks /\ batch[d] = {}
        /\ stage'[d] = "dispatch" \/ (stage'[d] = "poll" /\ ids = {})
    BY <1>0, <1>3 DEF Claim, Order, Resting, BatchSpent
  <2>4. ids \subseteq DOMAIN rows /\ \A i \in ids : rows[i].status = "QUEUED"  BY DEF InStatus
  <2> HIDE DEF ids, to
  <2>5. SameTracks /\ FinishedStay
    BY <2>1, <2>2, <2>4 DEF SameTracks, FinishedStay, Finished, InStatus
  <2>6. CallsFit' /\ OneRowEach'  BY <1>0, <2>5, TracksKept DEF Order
  <2>7. \A i \in DOMAIN rows : rows[i].status # "QUEUED" => rows'[i] = rows[i]
    BY <2>2, <2>4 DEF InStatus
  <2>8. Owners(d)'
    <3>1. RowsSearched'  BY <2>3, <2>5, <2>7 DEF Order, Owners, RowsSearched, SameTracks
    <3>2. RowsPolled(d)'  BY <1>0 DEF RowsPolled
    <3>3. RowsClaimed(d)'
      BY <2>1, <2>2, <2>3, <2>4 DEF RowsClaimed, Order, Owners, RowsSearched
    <3> QED  BY <2>3, <3>1, <3>2, <3>3 DEF Owners, Order, OneWaterfall
  <2>9. DownloadingTraced'
    BY <2>1, <2>2, <2>4 DEF Order, DownloadingTraced, InStatus
  <2>10. Resting(d)'  BY <1>0, <2>3 DEF Resting, BatchSpent
  <2> QED  BY <2>6, <2>8, <2>9, <2>10 DEF Order
<1>4. CASE Dispatch(d)
  <2>1. batch'[d] = {} /\ stage'[d] \in {"gather", "poll"}  BY <1>0, <1>4 DEF Dispatch
  <2>2. Resting(d)' /\ RowsPolled(d)' /\ RowsClaimed(d)'
    BY <1>0, <2>1 DEF Resting, BatchSpent, RowsPolled, RowsClaimed
  <2>3. CASE WithTasks([by : {d}, kind : {"batch"}, row : batch[d]]) /\ rows' = rows
    <3> DEFINE S == [by : {d}, kind : {"batch"}, row : batch[d]]
    <3>1. /\ DOMAIN tasks' = DOMAIN tasks \cup S
          /\ \A k \in DOMAIN tasks : tasks'[k] = tasks[k]
          /\ \A k \in S \ DOMAIN tasks : tasks'[k] = NewTask
      BY <2>3 DEF WithTasks
    <3>2. \A k \in S : k.row \in batch[d] /\ \A m \in S : k.row = m.row => k = m
      OBVIOUS
    <3>3. \A w : w = NewTask => \A r : Fits(w, r)  BY DEF NewTask, Fits
    <3> HIDE DEF S
    <3>4. \A k \in S : k.row \in DOMAIN rows /\ rows[k.row].status = "SEARCHING" /\ k \notin DOMAIN tasks
      BY <3>2 DEF Order, Owners, RowsClaimed
    <3>5. RowsSearched'  BY <2>3, <3>1, <3>3, <3>4 DEF Order, Owners, RowsSearched
    <3>6. OneWaterfall'  BY <3>1, <3>2 DEF Order, Owners, RowsClaimed, OneWaterfall
    <3>7. SameTracks /\ FinishedStay /\ DownloadingTraced'
      BY <2>3 DEF SameTracks, FinishedStay, Order, DownloadingTraced, InStatus
    <3>8. CallsFit' /\ OneRowEach'  BY <1>0, <3>7, TracksKept DEF Order
    <3> QED  BY <2>2, <3>5, <3>6, <3>7, <3>8 DEF Order, Owners
  <2>4. CASE rows' = SetAll(batch[d] \cap InStatus({"SEARCHING"}), "QUEUED") /\ tasks' = tasks
    <3>1. \A i \in DOMAIN rows : [rows[i] EXCEPT !.status = "QUEUED"].track = rows[i].track
                                 /\ [rows[i] EXCEPT !.status = "QUEUED"].status = "QUEUED"
      BY <1>0 DEF Row, Wellformed
    <3>2. /\ DOMAIN rows' = DOMAIN rows
          /\ \A i \in DOMAIN rows \ batch[d] : rows'[i] = rows[i]
          /\ \A i \in batch[d] \cap DOMAIN rows : /\ rows'[i].track = rows[i].track
                                                  /\ rows'[i] = rows[i] \/ rows'[i].status = "QUEUED"
      BY <2>4, <3>1 DEF SetAll
    <3>3. \A i \in batch[d] : rows[i].status = "SEARCHING" /\ \A k \in DOMAIN tasks : k.row # i
      BY DEF Order, Owners, RowsClaimed
    <3>4. SameTracks /\ FinishedStay  BY <3>2, <3>3 DEF SameTracks, FinishedStay, Finished
    <3>5. CallsFit' /\ OneRowEach'  BY <1>0, <3>4, TracksKept DEF Order
    <3>6. RowsSearched' /\ OneWaterfall'
      <4>1. \A k \in DOMAIN tasks : k.row \in DOMAIN rows \ batch[d]
        BY <3>3 DEF Order, Owners, RowsSearched
      <4>2. RowsSearched'  BY <2>4, <3>2, <4>1 DEF Order, Owners, RowsSearched
      <4> QED  BY <2>4, <4>2 DEF Order, Owners, OneWaterfall
    <3>7. DownloadingTraced'
      BY <3>2, <3>3 DEF Order, DownloadingTraced, InStatus
    <3> QED  BY <2>2, <3>5, <3>6, <3>7 DEF Order, Owners
  <2> QED  BY <1>4, <2>3, <2>4 DEF Dispatch
<1> QED  BY <1>1, <1>2, <1>3, <1>4

\* What the poll writes to the row it asks about.
Answered(i, r) ==
    /\ DOMAIN rows' = DOMAIN rows /\ rows'[i] = r /\ r.track = rows[i].track
    /\ \A j \in DOMAIN rows \ {i} : rows'[j] = rows[j]

LEMMA PollWrites ==
    ASSUME IInv, NEW d \in Drivers, NEW p \in polls[d], PollItem(d, p), p[1] \in DOMAIN rows
    PROVE  \E r : /\ Answered(p[1], r)
                  /\ \/ r.status = "VERIFYING" /\ tasks' = tasks
                     \/ r.status = "DOWNLOADING" /\ r.plugin = p[2] /\ tasks' = tasks
                     \/ /\ r.status = "SEARCHING"
                        /\ WithTasks({[by |-> d, kind |-> "poll", row |-> p[1]]})
                        /\ [by |-> d, kind |-> "poll", row |-> p[1]] \notin DOMAIN tasks
<1> DEFINE i == p[1]
           c == p[2]
           old == rows[i]
           key == [by |-> d, kind |-> "poll", row |-> i]
           Restarts == WithTasks({key}) /\ key \notin DOMAIN tasks
           Goal == \E r : /\ Answered(i, r)
                          /\ \/ r.status = "VERIFYING" /\ tasks' = tasks
                             \/ r.status = "DOWNLOADING" /\ r.plugin = c /\ tasks' = tasks
                             \/ r.status = "SEARCHING" /\ Restarts
<1>0. old \in Row  BY Parts DEF Wellformed
<1>1. CASE rows' = WithStatus(i, "VERIFYING") /\ tasks' = tasks
  <2> DEFINE r == [old EXCEPT !.status = "VERIFYING"]
  <2>1. r.track = old.track /\ r.status = "VERIFYING"  BY <1>0 DEF Row
  <2>2. rows' = [rows EXCEPT ![i] = r]  BY <1>1 DEF WithStatus
  <2> HIDE DEF r, Restarts
  <2>3. Answered(i, r)  BY <2>1, <2>2 DEF Answered
  <2> QED  BY <1>1, <2>1, <2>3
<1>2. CASE rows' = Downloading(i, c) /\ tasks' = tasks
  <2> DEFINE a == IF old.active = "none" THEN c ELSE old.active
             r == [old EXCEPT !.status = "DOWNLOADING", !.plugin = c, !.active = a]
  <2>1. r.track = old.track /\ r.status = "DOWNLOADING" /\ r.plugin = c  BY <1>0 DEF Row
  <2>2. rows' = [rows EXCEPT ![i] = r]  BY <1>2 DEF Downloading
  <2> HIDE DEF r, Restarts
  <2>3. Answered(i, r)  BY <2>1, <2>2 DEF Answered
  <2> QED  BY <1>2, <2>1, <2>3
<1>3. CASE rows' = Rejecting(i, c) /\ Restarts
  <2> DEFINE r == [old EXCEPT !.status = "SEARCHING", !.plugin = "none", !.black = old.black \cup {c}]
  <2>1. r.track = old.track /\ r.status = "SEARCHING"  BY <1>0 DEF Row
  <2>2. rows' = [rows EXCEPT ![i] = r]  BY <1>3 DEF Rejecting
  <2> HIDE DEF r
  <2>3. Answered(i, r)  BY <2>1, <2>2 DEF Answered
  <2>4. r.status = "SEARCHING" /\ Restarts  BY <1>3, <2>1
  <2>5. Goal
    <3> HIDE DEF Restarts
    <3> QED  BY <2>3, <2>4
  <2> QED  BY <2>5
<1> QED  BY <1>1, <1>2, <1>3 DEF PollItem

LEMMA PollItemOrder ==
    ASSUME IInv, NEW d, TheLoop(d), Order(d), NEW p \in polls[d], PollItem(d, p)
    PROVE  Order(d)'
<1> d \in Drivers /\ d \in Daemon  BY DEF TheLoop
<1> DEFINE i == p[1]
           key == [by |-> d, kind |-> "poll", row |-> i]
<1>0. /\ polls'[d] = polls[d] \ {p} /\ stage[d] = "polling" /\ UNCHANGED <<stage, batch, call>>
      /\ p \in Ids \X (Cands \cup {"provider"})
      /\ \A q \in polls[d] : q \in Ids \X (Cands \cup {"provider"})
  <2>1. polls \in [Drivers -> SUBSET (Ids \X (Cands \cup {"provider"}))]  BY Parts DEF Around
  <2> QED  BY <2>1 DEF PollItem
<1>1. i \in DOMAIN rows /\ rows[i].status = "DOWNLOADING" /\ rows[i].plugin = p[2]
  BY DEF Order, Owners, RowsPolled
<1>2. PICK r : /\ Answered(i, r)
               /\ \/ r.status = "VERIFYING" /\ tasks' = tasks
                  \/ r.status = "DOWNLOADING" /\ r.plugin = p[2] /\ tasks' = tasks
                  \/ r.status = "SEARCHING" /\ WithTasks({key}) /\ key \notin DOMAIN tasks
  BY <1>1, PollWrites
<1>3. /\ \A k \in DOMAIN tasks : k.row # i
      /\ i \notin batch[d]
      /\ \A q \in polls'[d] : q[1] # i
  <2>1. \A k \in DOMAIN tasks : k.row # i  BY <1>1 DEF Order, Owners, RowsSearched
  <2>2. i \notin batch[d]  BY <1>1 DEF Order, Owners, RowsClaimed
  <2>3. \A q \in polls'[d] : q[1] # i  BY <1>0, <1>1 DEF Order, Owners, RowsPolled
  <2> QED  BY <2>1, <2>2, <2>3
<1>4. /\ DOMAIN tasks \subseteq DOMAIN tasks' /\ \A k \in DOMAIN tasks : tasks'[k] = tasks[k]
      /\ \A k \in DOMAIN tasks' \ DOMAIN tasks :
            k = key /\ tasks'[k] = NewTask /\ r.status = "SEARCHING"
  BY <1>2 DEF WithTasks
<1>5. key.row = i  OBVIOUS
<1> HIDE DEF i, key
<1>6. SameTracks /\ FinishedStay
  BY <1>1, <1>2 DEF Answered, SameTracks, FinishedStay, Finished
<1>7. Resting(d)' /\ OneRowEach' /\ CallsFit'
  BY <1>0, <1>6, TracksKept DEF Order, Resting, BatchSpent
<1>8. \A w : w = NewTask => Fits(w, r)  BY DEF NewTask, Fits
<1>9. RowsSearched'
  BY <1>1, <1>2, <1>3, <1>4, <1>5, <1>8 DEF Order, Owners, RowsSearched, Answered
<1>10. OneWaterfall'  BY <1>3, <1>4, <1>5 DEF Order, Owners, OneWaterfall
<1>11. RowsClaimed(d)'
  BY <1>0, <1>2, <1>3, <1>4, <1>5 DEF Order, Owners, RowsClaimed, Answered
<1>12. RowsPolled(d)'  BY <1>0, <1>2, <1>3 DEF Order, Owners, RowsPolled, Answered
<1>13. DownloadingTraced'
  BY <1>1, <1>2 DEF Order, DownloadingTraced, InStatus, Answered
<1> QED  BY <1>7, <1>9, <1>10, <1>11, <1>12, <1>13 DEF Order, Owners

LEMMA PollOrder ==
    ASSUME IInv, NEW d, TheLoop(d), Order(d), PollStart(d) \/ PollEnd(d)
    PROVE  Order(d)'
<1> d \in Drivers /\ d \in Daemon  BY DEF TheLoop
<1>0. DOMAIN stage = Drivers /\ DOMAIN polls = Drivers  BY Parts DEF Around
<1>1. CASE PollEnd(d)
  <2>1. SameRows /\ UNCHANGED <<tasks, batch, polls, call>>
        /\ stage[d] = "polling" /\ stage'[d] = "lock" /\ polls[d] = {}
    BY <1>0, <1>1 DEF PollEnd, Rest, Goto, SameRows
  <2>2. Resting(d)'  BY <2>1 DEF Order, Resting, BatchSpent
  <2> QED  BY <2>1, <2>2, OnlyStage
<1>2. CASE PollStart(d)
  <2> DEFINE asked == {<<i, rows[i].plugin>> :
                         i \in {j \in InStatus({"DOWNLOADING"}) : rows[j].plugin # "none"}}
  <2>1. /\ UNCHANGED <<rows, tasks, batch, call>> /\ stage[d] = "poll" /\ stage'[d] = "polling"
        /\ polls'[d] = asked \/ polls'[d] = polls[d]
    BY <1>0, <1>2 DEF PollStart, Goto
  <2>2. RowsPolled(d)'  BY <2>1 DEF RowsPolled, Order, Owners, InStatus
  <2>3. SameTracks /\ FinishedStay  BY <2>1 DEF SameTracks, FinishedStay
  <2>4. CallsFit' /\ Resting(d)' /\ OneRowEach'
    BY <2>1, <2>3, TracksKept DEF Order, Resting, BatchSpent
  <2>5. RowsSearched' /\ OneWaterfall' /\ RowsClaimed(d)' /\ DownloadingTraced'
    BY <2>1 DEF Order, Owners, RowsSearched, OneWaterfall, RowsClaimed, DownloadingTraced, InStatus
  <2> QED  BY <2>2, <2>4, <2>5 DEF Order, Owners
<1> QED  BY <1>1, <1>2

-----------------------------------------------------------------------------
(* What a failing session does.                                            *)

\* A failing session takes an owner from a row and gives it none: at most the row of
\* a failing poll leaves its transfer, with no waterfall to search for it.
LEMMA FailureRow ==
    ASSUME IInv, NEW d, TheLoop(d), Order(d), NEW p \in polls[d], PollItemFails(d, p), ~UNCHANGED rows
    PROVE  \E r : Answered(p[1], r) /\ r.status = "SEARCHING"
<1> DEFINE i == p[1]
           c == p[2]
           old == rows[i]
           r == [old EXCEPT !.status = "SEARCHING", !.plugin = "none", !.black = old.black \cup {c}]
<1>1. i \in DOMAIN rows  BY DEF Order, Owners, RowsPolled
<1>2. r.track = old.track /\ r.status = "SEARCHING"  BY <1>1, Parts DEF Wellformed, Row
<1>3. rows' = [rows EXCEPT ![i] = r]  BY <1>1 DEF PollItemFails, Rejecting
<1> HIDE DEF r
<1>4. Answered(i, r)  BY <1>1, <1>2, <1>3 DEF Answered
<1> QED  BY <1>2, <1>4

LEMMA FailureOrder ==
    ASSUME IInv, NEW d, TheLoop(d), Order(d), SessionFails
    PROVE  Order(d)'
<1> d \in Drivers /\ d \in Daemon  BY DEF TheLoop
<1>0. /\ DOMAIN stage = Drivers /\ DOMAIN batch = Drivers /\ DOMAIN polls = Drivers
      /\ polls[d] \subseteq Ids \X (Cands \cup {"provider"})
  BY Parts DEF Around
<1>1. ASSUME NEW k \in DOMAIN tasks, Breaks(k) PROVE Order(d)'
  <2>1. /\ UNCHANGED <<rows, stage, batch, polls, call>> /\ DOMAIN tasks' = DOMAIN tasks \ {k}
        /\ \A m \in DOMAIN tasks' : tasks'[m] = tasks[m]
    BY <1>1 DEF Breaks, End, Without, driverVars
  <2>2. Resting(d)' /\ OneRowEach' /\ CallsFit' /\ DownloadingTraced'
    BY <2>1, TracksKept
    DEF Order, Resting, BatchSpent, OneRowEach, SameTracks, FinishedStay, DownloadingTraced, InStatus
  <2>3. Owners(d)'
    BY <2>1 DEF Order, Owners, RowsSearched, OneWaterfall, RowsClaimed, RowsPolled
  <2> QED  BY <2>2, <2>3 DEF Order
<1>2. CASE DriveFails(d)
  <2>1. /\ UNCHANGED <<rows, tasks, polls, call>> /\ batch'[d] = {} /\ stage'[d] = "lock"
        /\ stage[d] \in {"claim", "dispatch", "poll"}
    BY <1>0, <1>2 DEF DriveFails, Rest, Goto, Order, Resting
  <2>2. Resting(d)' /\ OneRowEach' /\ CallsFit' /\ DownloadingTraced'
    BY <2>1, TracksKept
    DEF Order, Resting, BatchSpent, OneRowEach, SameTracks, FinishedStay, DownloadingTraced, InStatus
  <2>3. Owners(d)'
    BY <2>1 DEF Order, Owners, RowsSearched, OneWaterfall, RowsClaimed, RowsPolled
  <2> QED  BY <2>2, <2>3 DEF Order
<1>3. CASE LoopDies(d)
  <2>1. SameRows /\ UNCHANGED <<tasks, batch, polls, call>> /\ stage[d] = "recover" /\ stage'[d] = "dead"
    BY <1>0, <1>3 DEF LoopDies, Goto, SameRows
  <2>2. Resting(d)'  BY <2>1 DEF Order, Resting, BatchSpent
  <2> QED  BY <2>1, <2>2, OnlyStage
<1>4. ASSUME NEW p \in polls[d], PollItemFails(d, p) PROVE Order(d)'
  <2>1. /\ UNCHANGED <<tasks, stage, batch, call>> /\ stage[d] = "polling"
        /\ polls'[d] = polls[d] \ {p}
    BY <1>0, <1>4 DEF PollItemFails
  <2>2. Resting(d)'  BY <2>1 DEF Order, Resting, BatchSpent
  <2>3. CASE UNCHANGED rows
    <3>1. OneRowEach' /\ CallsFit' /\ DownloadingTraced'
      BY <2>1, <2>3, TracksKept
      DEF Order, OneRowEach, SameTracks, FinishedStay, DownloadingTraced, InStatus
    <3>2. Owners(d)'
      BY <2>1, <2>3 DEF Order, Owners, RowsSearched, OneWaterfall, RowsClaimed, RowsPolled
    <3> QED  BY <2>2, <3>1, <3>2 DEF Order
  <2>4. CASE ~UNCHANGED rows
    <3>1. PICK r : Answered(p[1], r) /\ r.status = "SEARCHING"  BY <1>4, <2>4, FailureRow
    <3>2. /\ p[1] \in DOMAIN rows /\ rows[p[1]].status = "DOWNLOADING" /\ rows[p[1]].plugin = p[2]
          /\ \A q \in polls'[d] : q[1] # p[1]
      <4>1. \A q \in polls[d] : /\ q[1] \in DOMAIN rows /\ rows[q[1]].status = "DOWNLOADING"
                                /\ rows[q[1]].plugin = q[2]
        BY DEF Order, Owners, RowsPolled
      <4>2. \A q \in polls[d] : q[1] = p[1] => q = p  BY <1>0, <4>1
      <4> QED  BY <2>1, <4>1, <4>2
    <3>3. SameTracks /\ FinishedStay
      BY <3>1, <3>2 DEF Answered, SameTracks, FinishedStay, Finished
    <3>4. OneRowEach' /\ CallsFit'  BY <2>1, <3>3, TracksKept DEF Order
    <3>5. RowsSearched' /\ OneWaterfall' /\ RowsClaimed(d)' /\ RowsPolled(d)'
      <4>1. RowsSearched'  BY <2>1, <3>1, <3>2 DEF Order, Owners, RowsSearched, Answered
      <4>2. OneWaterfall'  BY <2>1 DEF Order, Owners, OneWaterfall
      <4>3. RowsClaimed(d)'  BY <2>1, <3>1, <3>2 DEF Order, Owners, RowsClaimed, Answered
      <4>4. RowsPolled(d)'  BY <2>1, <3>1, <3>2 DEF Order, Owners, RowsPolled, Answered
      <4> QED  BY <4>1, <4>2, <4>3, <4>4
    <3>6. DownloadingTraced'
      BY <3>1, <3>2 DEF Order, DownloadingTraced, InStatus, Answered
    <3> QED  BY <2>2, <3>4, <3>5, <3>6 DEF Order, Owners
  <2> QED  BY <2>3, <2>4
<1> QED  BY <1>1, <1>2, <1>3, <1>4 DEF SessionFails, TheLoop

-----------------------------------------------------------------------------
(* What happens around the loop.                                           *)

\* queue_download writes one row: a finished one, or a new one for a new track.
Written(t, j) ==
    /\ DOMAIN rows' = DOMAIN rows \cup {j} /\ rows'[j] = Fresh(t)
    /\ \A m \in DOMAIN rows \ {j} : rows'[m] = rows[m]
    /\ \/ j \in DOMAIN rows /\ Reusable(t, j)
       \/ j \notin DOMAIN rows /\ RowsOf(t) = {}

LEMMA CallWrites ==
    ASSUME IInv, CallsFit, NEW k \in Callers, QueueWrite(k)
    PROVE  rows' = rows \/ \E j \in Ids : Written(call[k][1], j)
<1> DEFINE t == call[k][1]
           i == call[k][2]
<1>0. Wellformed(rows) /\ call[k] # <<>>  BY Parts DEF QueueWrite
<1>1. Writable(t, i)  BY <1>0 DEF CallsFit
<1>2. CASE Reusable(t, i)
  <2>1. i \in DOMAIN rows /\ i \in Ids  BY <1>0, <1>2 DEF Reusable, Wellformed
  <2>2. rows' = rows \/ rows' = [rows EXCEPT ![i] = Fresh(t)]  BY <2>1 DEF QueueWrite, Write
  <2> HIDE DEF t, i
  <2>3. rows' # rows => Written(t, i)  BY <1>2, <2>1, <2>2 DEF Written
  <2> QED  BY <2>1, <2>3 DEF t
<1>3. CASE Absent(t, i)
  <2>1. PICK new \in Ids : /\ IsNextId(new)
                           /\ \/ rows' = rows
                              \/ rows' = [m \in DOMAIN rows \cup {new} |->
                                            IF m = new THEN Fresh(t) ELSE rows[m]]
    BY <1>3 DEF QueueWrite, Write, Absent
  <2>2. new \notin DOMAIN rows
    <3>1. \A m \in DOMAIN rows : m \in Nat  BY <1>0 DEF Wellformed
    <3>2. new \in DOMAIN rows => new <= new - 1  BY <2>1 DEF IsNextId, Newest
    <3> QED  BY <3>1, <3>2
  <2>3. RowsOf(t) = {}  BY <1>3 DEF Absent
  <2> HIDE DEF t, i
  <2>4. rows' # rows => Written(t, new)  BY <2>1, <2>2, <2>3 DEF Written
  <2> QED  BY <2>4 DEF t
<1> QED  BY <1>1, <1>2, <1>3 DEF Writable

LEMMA CallerOrder ==
    ASSUME IInv, NEW d, TheLoop(d), OneCaller, Order(d),
           NEW k \in Callers, QueueWrite(k) \/ \E t \in Tracks : QueueFind(k, t)
    PROVE  Order(d)'
<1>0. /\ Callers = {k} /\ DOMAIN call = Callers /\ Wellformed(rows)
      /\ \A t \in Tracks : \A i : call[k] = <<t, i>> => call[k][1] = t /\ call[k][2] = i
  BY Parts DEF OneCaller, Around
<1>1. UNCHANGED <<tasks, stage, batch, polls>>  BY DEF QueueWrite, QueueFind, driverVars
<1>2. ASSUME NEW t \in Tracks, QueueFind(k, t) PROVE Order(d)'
  <2>1. rows' = rows  BY <1>2 DEF QueueFind
  <2>2. PICK i : call' = [call EXCEPT ![k] = <<t, i>>] /\ Writable(t, i)
    <3>1. 0 \notin DOMAIN rows  BY <1>0 DEF Wellformed
    <3> QED  BY <1>2, <3>1 DEF QueueFind, Writable, Absent, Reusable, Finished, RowsOf
  <2>3. CallsFit'
    <3>1. call'[k] = <<t, i>> /\ Writable(t, i)'
      BY <1>0, <2>1, <2>2 DEF Writable, Absent, Reusable, Newest, RowsOf
    <3> QED  BY <1>0, <3>1 DEF CallsFit
  <2>4. Resting(d)' /\ OneRowEach' /\ Owners(d)' /\ DownloadingTraced'
    BY <1>1, <2>1 DEF Order, Resting, OneRowEach, BatchSpent, Owners, RowsSearched,
                      OneWaterfall, RowsClaimed, RowsPolled, DownloadingTraced, InStatus
  <2> QED  BY <2>3, <2>4 DEF Order
<1>3. ASSUME QueueWrite(k), rows' = rows PROVE Order(d)'
  <2>1. call' = [call EXCEPT ![k] = <<>>]  BY <1>3 DEF QueueWrite
  <2>2. CallsFit'  BY <1>0, <2>1 DEF CallsFit
  <2>3. Resting(d)' /\ OneRowEach' /\ Owners(d)' /\ DownloadingTraced'
    BY <1>1, <1>3 DEF Order, Resting, OneRowEach, BatchSpent, Owners, RowsSearched,
                      OneWaterfall, RowsClaimed, RowsPolled, DownloadingTraced, InStatus
  <2> QED  BY <2>2, <2>3 DEF Order
<1>4. ASSUME QueueWrite(k), rows' # rows PROVE Order(d)'
  <2> DEFINE t == call[k][1]
             i == call[k][2]
  <2>1. call[k] # <<>> /\ call' = [call EXCEPT ![k] = <<>>]  BY <1>4 DEF QueueWrite
  <2>2. CallsFit'  BY <1>0, <2>1 DEF CallsFit
  <2>3. Writable(t, i)  BY <2>1 DEF Order, CallsFit
  <2>4. PICK j \in Ids : Written(t, j)  BY <1>4, CallWrites DEF Order
  <2>5. /\ Fresh(t).track = t /\ Fresh(t).status = "QUEUED"
        /\ \A m \in DOMAIN rows : rows[m].track = t => m \in RowsOf(t)
        /\ j \in DOMAIN rows => rows[j].track = t /\ rows[j].status \in Finished
    BY <2>4 DEF Written, Fresh, RowsOf, Reusable, Newest
  <2> HIDE DEF t, i
  <2> USE DEF Written
  <2>6. OneRowEach'
    <3>1. CASE j \in DOMAIN rows  BY <2>4, <2>5, <3>1 DEF OneRowEach, Order
    <3>2. CASE j \notin DOMAIN rows  BY <2>4, <2>5, <3>2 DEF OneRowEach, Order
    <3> QED  BY <3>1, <3>2
  <2>7. Resting(d)'  BY <1>1 DEF Order, Resting, BatchSpent
  <2>8. /\ \A m \in DOMAIN tasks : m.row # j
        /\ j \notin batch[d] /\ \A q \in polls[d] : q[1] # j
    BY <2>5 DEF Order, Owners, RowsSearched, RowsClaimed, RowsPolled, Finished
  <2>9. RowsSearched' /\ OneWaterfall'
    BY <1>1, <2>4, <2>8 DEF Order, Owners, RowsSearched, OneWaterfall
  <2>10. RowsClaimed(d)'  BY <1>1, <2>4, <2>8 DEF Order, Owners, RowsClaimed
  <2>11. RowsPolled(d)'  BY <1>1, <2>4, <2>8 DEF Order, Owners, RowsPolled
  <2>12. DownloadingTraced'  BY <2>4, <2>5 DEF Order, DownloadingTraced, InStatus
  <2> QED  BY <2>2, <2>6, <2>7, <2>9, <2>10, <2>11, <2>12 DEF Order, Owners
<1> QED  BY <1>2, <1>3, <1>4

LEMMA EnvironmentOrder ==
    ASSUME IInv, NEW d, TheLoop(d), OneCaller, UserOps = {}, Order(d), Environment
    PROVE  Order(d)'
<1> d \in Drivers /\ d \in Daemon /\ OneWriter  BY DEF TheLoop, OneWriter
<1>1. ASSUME NEW k \in Callers, NEW t \in Tracks, QueueFind(k, t) PROVE Order(d)'
  BY <1>1, CallerOrder
<1>2. CASE Stop \/ \E t \in Tracks : LibraryChanges(t)
  <2>1. UNCHANGED <<rows, call, tasks, stage, batch, polls>>
    BY <1>2 DEF Stop, LibraryChanges, driverVars
  <2>2. SameRows /\ Resting(d)'  BY <2>1 DEF SameRows, Order, Resting, BatchSpent
  <2> QED  BY <2>1, <2>2, OnlyStage
<1>3. CASE Crash
  <2>1. /\ rows' = rows /\ DOMAIN tasks' = {} /\ batch'[d] = {} /\ polls'[d] = {}
        /\ stage'[d] = "boot" /\ \A k \in Callers : call'[k] = <<>>
    BY <1>3 DEF Crash
  <2>2. Resting(d)' /\ OneRowEach' /\ CallsFit'
    BY <2>1 DEF Resting, Order, OneRowEach, CallsFit, BatchSpent
  <2>3. Owners(d)'  BY <2>1 DEF Owners, RowsSearched, OneWaterfall, RowsClaimed, RowsPolled
  <2>4. DownloadingTraced'  BY <2>1 DEF Order, DownloadingTraced, InStatus
  <2> QED  BY <2>2, <2>3, <2>4 DEF Order
<1> QED
  BY <1>1, <1>2, <1>3
  DEF Environment, HookComplete, HookFailed, LostUpdate, SetStatus, RequeueAllFailed, DeleteRows, StartNow

LEMMA StepOrder ==
    ASSUME IInv, NEW d, TheLoop(d), OneCaller, UserOps = {}, Order(d), [Next]_vars
    PROVE  Order(d)'
<1> d \in Drivers /\ d \in Daemon  BY DEF TheLoop
<1>1. CASE UNCHANGED <<rows, call, tasks, stage, batch, polls>>
  <2>1. SameRows /\ Resting(d)'  BY <1>1 DEF SameRows, Order, Resting, BatchSpent
  <2> QED  BY <1>1, <2>1, OnlyStage
<1>2. ASSUME NEW k \in Callers, QueueWrite(k) PROVE Order(d)'  BY <1>2, CallerOrder
<1>3. ASSUME NEW k \in DOMAIN tasks, Waterfall(k) PROVE Order(d)'  BY <1>3, WaterfallOrder
<1>4. CASE StartCycle(d) \/ Drive(d)
  <2>1. ~StartCycle(d) /\ ~Requeue(d)  BY DEF StartCycle, Requeue, Order, Resting
  <2> QED  BY <1>4, <2>1, BootOrder, BatchOrder, PollOrder, PollItemOrder DEF Drive
<1>5. CASE SessionFails  BY <1>5, FailureOrder
<1>6. CASE Environment  BY <1>6, EnvironmentOrder
<1> QED
  BY <1>1, <1>2, <1>3, <1>4, <1>5, <1>6 DEF Next, TheLoop, Transfer, vars, envVars, driverVars

LEMMA InitOrder == ASSUME NEW d, Alone(d), Init PROVE Order(d)
<1>1. /\ stage[d] = "boot" /\ DOMAIN tasks = {} /\ batch[d] = {} /\ polls[d] = {}
      /\ \A k \in Callers : call[k] = <<>>
  BY DEF Init, Alone, TheLoop
<1>2. Resting(d) /\ CallsFit  BY <1>1 DEF Resting, CallsFit, BatchSpent
<1>3. Owners(d)  BY <1>1 DEF Owners, RowsSearched, OneWaterfall, RowsClaimed, RowsPolled
<1>4. DownloadingTraced  BY DEF Init, Alone, EarlierTraced, DownloadingTraced, InStatus
<1>5. OneRowEach  BY DEF Init, Alone, EarlierDistinct, OneRowEach
<1> QED  BY <1>2, <1>3, <1>4, <1>5 DEF Order

LEMMA LoopOrdered == \A d : Alone(d) => (Spec => [](IInv /\ Order(d)))
<1> SUFFICES ASSUME NEW d, Alone(d) PROVE Spec => [](IInv /\ Order(d))  OBVIOUS
<1>1. Init => Order(d)  BY InitOrder
<1>2. IInv /\ Order(d) /\ [Next]_vars => Order(d)'  BY StepOrder DEF Alone
<1> QED  BY <1>1, <1>2, InitIInv, StepIInv, PTL DEF Spec

\* A DOWNLOADING row names a transfer that was offered for its track, after any
\* number of searches, fallbacks, crashes and recoveries.
THEOREM LoopTraces == (\E d : Alone(d)) => (Spec => []DownloadingTraced)
<1> SUFFICES ASSUME NEW d, Alone(d) PROVE Spec => []DownloadingTraced  OBVIOUS
<1>1. Spec => [](IInv /\ Order(d))  BY LoopOrdered
<1> QED  BY <1>1, PTL DEF Order

\* The background loop never has two waterfalls for one row.
THEOREM LoopSearchesOnce == (\E d : Alone(d)) => (Spec => []OneWaterfall)
<1> SUFFICES ASSUME NEW d, Alone(d) PROVE Spec => []OneWaterfall  OBVIOUS
<1>1. Spec => [](IInv /\ Order(d))  BY LoopOrdered
<1> QED  BY <1>1, PTL DEF Order, Owners

\* The background loop never starts a transfer that the row has rejected.
THEOREM LoopAvoidsRejected == (\E d : Alone(d)) => (Spec => []RejectedNotStarted)
<1> SUFFICES ASSUME NEW d, Alone(d) PROVE Spec => []RejectedNotStarted  OBVIOUS
<1>1. Spec => [](IInv /\ Order(d))  BY LoopOrdered
<1>2. IInv /\ Order(d) => RejectedNotStarted
  <2> SUFFICES ASSUME IInv, Order(d), NEW k \in DOMAIN tasks, tasks[k].pc = "report"
               PROVE  Head(tasks[k].left) \notin rows[k.row].black
    BY DEF RejectedNotStarted
  <2>1. Fits(tasks[k], rows[k.row])  BY DEF Order, Owners, RowsSearched
  <2>2. tasks[k].left \in Seq(Cands) /\ tasks[k].left # <<>>  BY TaskFields DEF IInv, Underway
  <2> QED  BY <2>1, <2>2, HeadTail DEF Fits
<1> QED  BY <1>1, <1>2, PTL

-----------------------------------------------------------------------------
(* The loop keeps the life-cycle of the rows.                              *)

\* The statuses of rows, and of ids that have no row.
StatusOf(i) == IF i \in DOMAIN rows THEN rows[i].status ELSE "ABSENT"
Along(old, new) == old = new \/ Lifecycle!Enqueued(old, new) \/ <<old, new>> \in Lifecycle!Edges
Moves == \A i \in Ids : Along(StatusOf(i), StatusOf(i)')
Stays == \A i \in Ids : StatusOf(i)' = StatusOf(i)

\* No row was paused or cancelled by a user, and none is underway when the loop's
\* recovery has just ended.
Plain(d) ==
    /\ \A i \in DOMAIN rows : rows[i].status \notin {"PAUSED", "CANCELLED"}
    /\ stage[d] \in {"dedupe", "purge"} => InStatus({"SEARCHING", "DOWNLOADING"}) = {}
EarlierPlain == \A i \in DOMAIN Earlier : Earlier[i].status \notin {"PAUSED", "CANCELLED"}

LEMMA LifecycleStatuses ==
    Lifecycle!Statuses = {"ABSENT"} \cup (Statuses \ {"PAUSED", "CANCELLED"})
BY DEF Lifecycle!Statuses, Lifecycle!Edges, Statuses

LEMMA AlongTyped ==
    ASSUME NEW old \in Lifecycle!Statuses, NEW new, Along(old, new)
    PROVE  new \in Lifecycle!Statuses
BY LifecycleStatuses DEF Along, Lifecycle!Enqueued, Lifecycle!Edges, Statuses

LEMMA SameRowsStay == ASSUME SameRows PROVE Stays
BY DEF SameRows, Stays, StatusOf

LEMMA StaysMoves == ASSUME Stays PROVE Moves
BY DEF Stays, Moves, Along

LEMMA WaterfallMoves ==
    ASSUME IInv, RowsSearched, NEW k \in DOMAIN tasks, Waterfall(k)
    PROVE  Moves
<1>1. PICK r : Searched(k, r)  BY WaterfallSearches
<1>2. k.row \in DOMAIN rows /\ rows[k.row].status = "SEARCHING"  BY DEF RowsSearched
<1>3. r.status \in {"SEARCHING", "DOWNLOADING", "FAILED", "COMPLETED"}
  BY <1>1 DEF Searched, Continues, Ends
<1>4. Along("SEARCHING", r.status)  BY <1>3 DEF Along, Lifecycle!Edges
<1> QED  BY <1>1, <1>2, <1>4 DEF Searched, Moves, StatusOf, Along

LEMMA DeletedMoves ==
    ASSUME NEW S, rows' = Without(rows, S),
           \A i \in S \cap DOMAIN rows : rows[i].status \in {"QUEUED", "RETRYING", "FAILED"}
    PROVE  Moves
<1>1. \A s \in {"QUEUED", "RETRYING", "FAILED"} : Along(s, "ABSENT")
  BY DEF Along, Lifecycle!Edges
<1> QED  BY <1>1 DEF Moves, StatusOf, Without, Along

LEMMA DriverMoves ==
    ASSUME IInv, NEW d, TheLoop(d), Order(d), Plain(d), Drive(d), stage[d] \notin Starting
    PROVE  Moves
<1> d \in Drivers /\ d \in Daemon  BY DEF TheLoop
<1>0. Wellformed(rows) /\ \A i \in DOMAIN rows : rows[i] \in Row  BY Parts DEF Wellformed
<1>1. CASE Dedupe(d) \/ Lock(d)
  <2>1. SameRows  BY <1>0, <1>1, NothingToDelete DEF Dedupe, Lock, Order, SameRows
  <2> QED  BY <2>1, SameRowsStay, StaysMoves
<1>2. CASE Purge(d) /\ rows' # rows
  <2>1. PICK hit : rows' = Without(rows, PagedDelete(InStatus({"QUEUED", "SEARCHING", "RETRYING", "FAILED"}), hit))
    BY <1>2 DEF Purge, Write
  <2>2. PagedDelete(InStatus({"QUEUED", "SEARCHING", "RETRYING", "FAILED"}), hit)
           \subseteq InStatus({"QUEUED", "SEARCHING", "RETRYING", "FAILED"})
    BY DEF PagedDelete
  <2>3. InStatus({"SEARCHING", "DOWNLOADING"}) = {}  BY <1>2 DEF Purge, Plain
  <2>4. \A i \in PagedDelete(InStatus({"QUEUED", "SEARCHING", "RETRYING", "FAILED"}), hit) :
           rows[i].status \in {"QUEUED", "RETRYING", "FAILED"}
    BY <2>2, <2>3 DEF InStatus
  <2> QED  BY <2>1, <2>4, DeletedMoves
<1>3. CASE rows' = rows  BY <1>3, SameRowsStay, StaysMoves DEF SameRows
<1>4. CASE Claim(d)
  <2> DEFINE ids == {i \in InStatus({"QUEUED"}) : rows[i].track \notin library}
             to(i, s) == [rows[i] EXCEPT !.status = s]
  <2>1. \A i \in DOMAIN rows : \A s : to(i, s).status = s  BY <1>0 DEF Row
  <2>2. rows' = [i \in DOMAIN rows |->
                   IF i \in ids THEN to(i, "SEARCHING")
                   ELSE IF i \in InStatus({"QUEUED"}) THEN to(i, "COMPLETED") ELSE rows[i]]
    BY <1>4 DEF Claim
  <2>3. \A i \in ids : i \in InStatus({"QUEUED"})  OBVIOUS
  <2> HIDE DEF ids, to
  <2>4. ASSUME NEW i \in DOMAIN rows PROVE Along(rows[i].status, rows'[i].status)
    <3>1. Along("QUEUED", "SEARCHING") /\ Along("QUEUED", "COMPLETED") /\ \A s : Along(s, s)
      BY DEF Along, Lifecycle!Edges
    <3>2. i \in InStatus({"QUEUED"}) => rows[i].status = "QUEUED"  BY DEF InStatus
    <3>3. \/ i \in InStatus({"QUEUED"}) /\ (rows'[i] = to(i, "SEARCHING") \/ rows'[i] = to(i, "COMPLETED"))
          \/ rows'[i] = rows[i]
      BY <2>2, <2>3
    <3> QED  BY <2>1, <3>1, <3>2, <3>3
  <2>5. DOMAIN rows' = DOMAIN rows  BY <2>2
  <2> QED  BY <2>4, <2>5 DEF Moves, StatusOf, Along
<1>5. CASE Dispatch(d)
  <2>1. CASE rows' = rows  BY <2>1, SameRowsStay, StaysMoves DEF SameRows
  <2>2. CASE rows' = SetAll(batch[d] \cap InStatus({"SEARCHING"}), "QUEUED")
    <3> DEFINE again(i) == [rows[i] EXCEPT !.status = "QUEUED"]
               S == batch[d] \cap InStatus({"SEARCHING"})
    <3>1. \A i \in DOMAIN rows : again(i).status = "QUEUED"  BY <1>0 DEF Row
    <3>2. rows' = [i \in DOMAIN rows |-> IF i \in S THEN again(i) ELSE rows[i]]
      BY <2>2 DEF SetAll
    <3>3. \A i \in S : rows[i].status = "SEARCHING"  BY DEF InStatus
    <3> HIDE DEF again, S
    <3>4. ASSUME NEW i \in DOMAIN rows PROVE Along(rows[i].status, rows'[i].status)
      <4>1. Along("SEARCHING", "QUEUED") /\ \A s : Along(s, s)  BY DEF Along, Lifecycle!Edges
      <4>2. CASE i \in S  BY <3>1, <3>2, <3>3, <4>1, <4>2
      <4>3. CASE i \notin S  BY <3>2, <4>1, <4>3
      <4> QED  BY <4>2, <4>3
    <3>5. DOMAIN rows' = DOMAIN rows  BY <3>2
    <3> QED  BY <3>4, <3>5 DEF Moves, StatusOf, Along
  <2> QED  BY <1>5, <2>1, <2>2 DEF Dispatch
<1>6. ASSUME NEW p \in polls[d], PollItem(d, p) PROVE Moves
  <2>1. p[1] \in DOMAIN rows /\ rows[p[1]].status = "DOWNLOADING"  BY DEF Order, Owners, RowsPolled
  <2>2. PICK r : Answered(p[1], r) /\ r.status \in {"VERIFYING", "DOWNLOADING", "SEARCHING"}
    BY <1>6, <2>1, PollWrites
  <2>3. Along("DOWNLOADING", r.status)  BY <2>2 DEF Along, Lifecycle!Edges
  <2> QED  BY <2>1, <2>2, <2>3 DEF Answered, Moves, StatusOf, Along
<1>7. CASE Gather(d) \/ PollStart(d) \/ PollEnd(d)
  <2>1. rows' = rows  BY <1>7 DEF Gather, PollStart, PollEnd
  <2> QED  BY <2>1, SameRowsStay, StaysMoves DEF SameRows
<1>8. ~StartLoop(d) /\ ~Recover(d) /\ ~Requeue(d)
  BY DEF StartLoop, Recover, Requeue, Order, Resting, Starting
<1> QED  BY <1>1, <1>2, <1>3, <1>4, <1>5, <1>6, <1>7, <1>8 DEF Drive

LEMMA FailureMoves ==
    ASSUME IInv, NEW d, TheLoop(d), Order(d), SessionFails
    PROVE  Moves /\ (rows' = rows \/ stage[d] = "polling")
<1>1. CASE rows' = rows  BY <1>1, SameRowsStay, StaysMoves DEF SameRows
<1>2. ASSUME NEW p \in polls[d], PollItemFails(d, p), ~UNCHANGED rows PROVE Moves /\ stage[d] = "polling"
  <2>1. PICK r : Answered(p[1], r) /\ r.status = "SEARCHING"  BY <1>2, FailureRow
  <2>2. p[1] \in DOMAIN rows /\ rows[p[1]].status = "DOWNLOADING"  BY DEF Order, Owners, RowsPolled
  <2>3. Along("DOWNLOADING", "SEARCHING")  BY DEF Along, Lifecycle!Edges
  <2>4. stage[d] = "polling"  BY <1>2 DEF PollItemFails
  <2> QED  BY <2>1, <2>2, <2>3, <2>4 DEF Answered, Moves, StatusOf, Along
<1> QED  BY <1>1, <1>2 DEF SessionFails, Breaks, DriveFails, LoopDies, TheLoop

\* A call of queue_download adds a row or takes a past one up again.
LEMMA CallerMoves ==
    ASSUME IInv, NEW d, Order(d), Plain(d), NEW k \in Callers, QueueWrite(k), rows' # rows
    PROVE  \E j \in Ids : /\ Lifecycle!Enqueued(StatusOf(j), "QUEUED")
                          /\ StatusOf(j)' = "QUEUED"
                          /\ \A i \in Ids \ {j} : StatusOf(i)' = StatusOf(i)
<1>1. PICK j \in Ids : Written(call[k][1], j)  BY CallWrites DEF Order
<1>2. StatusOf(j)' = "QUEUED"  BY <1>1 DEF Written, StatusOf, Fresh
<1>3. StatusOf(j) \in {"ABSENT", "FAILED", "COMPLETED"}
  BY <1>1 DEF Written, StatusOf, Reusable, Finished, Plain
<1>4. \A i \in Ids \ {j} : StatusOf(i)' = StatusOf(i)  BY <1>1 DEF Written, StatusOf
<1> QED  BY <1>2, <1>3, <1>4 DEF Lifecycle!Enqueued

LEMMA EnvironmentStays ==
    ASSUME NEW d, TheLoop(d), UserOps = {}, Environment
    PROVE  SameRows /\ (stage' = stage \/ stage'[d] = "boot")
<1> d \in Drivers /\ d \in Daemon /\ OneWriter  BY DEF TheLoop, OneWriter
<1>1. rows' = rows
  BY DEF Environment, QueueFind, LibraryChanges, HookComplete, HookFailed, LostUpdate, SetStatus,
         RequeueAllFailed, DeleteRows, StartNow, Stop, Crash
<1>2. stage' = stage \/ stage'[d] = "boot"
  BY DEF Environment, QueueFind, LibraryChanges, HookComplete, HookFailed, LostUpdate, SetStatus,
         RequeueAllFailed, DeleteRows, StartNow, Stop, Crash, driverVars
<1> QED  BY <1>1, <1>2 DEF SameRows

\* The steps of the loop alone, by what they do to the statuses.
BootSteps == {<<"boot", "recover">>, <<"recover", "dead">>, <<"dedupe", "purge">>}
Early == Starting \cup {"dedupe", "purge"}

LEMMA LoopSteps ==
    ASSUME IInv, NEW d, Alone(d), Order(d), Plain(d), [Next]_vars
    PROVE  \/ SameRows /\ (stage'[d] \in {stage[d], "boot"} \/ <<stage[d], stage'[d]>> \in BootSteps)
           \/ Recover(d)
           \/ \E k \in Callers : QueueWrite(k) /\ rows' # rows
           \/ Moves /\ stage[d] \notin Starting /\ stage'[d] \notin Early
<1> d \in Drivers /\ d \in Daemon /\ TheLoop(d)  BY DEF Alone, TheLoop
<1>0. DOMAIN stage = Drivers /\ Wellformed(rows)  BY Parts DEF Around
<1>1. CASE UNCHANGED <<rows, stage>>  BY <1>1 DEF SameRows
<1>2. ASSUME NEW k \in DOMAIN tasks, Waterfall(k) PROVE Moves /\ stage'[d] = stage[d] /\ stage[d] \notin Early
  <2>1. UNCHANGED stage
    BY <1>2 DEF Waterfall, Begin, SearchFinds, SearchFails, Accepted, Refused, NoneStarted, Report,
                ReportFails, driverVars
  <2>2. stage[d] \notin Early  BY DEF Order, Resting, Early, Starting
  <2>3. Moves  BY <1>2, WaterfallMoves DEF Order, Owners
  <2> QED  BY <2>1, <2>2, <2>3
<1>3. CASE StartLoop(d)  BY <1>0, <1>3 DEF StartLoop, Goto, SameRows, BootSteps
<1>4. CASE Dedupe(d)
  <2>1. SameRows  BY <1>0, <1>4, NothingToDelete DEF Dedupe, Order
  <2> QED  BY <1>0, <1>4, <2>1 DEF Dedupe, Goto, BootSteps
<1>5. ASSUME Drive(d), ~StartLoop(d), ~Recover(d), ~Dedupe(d)
      PROVE  Moves /\ stage[d] \notin Starting /\ stage'[d] \notin Early
  <2>1. ~Requeue(d)  BY DEF Requeue, Order, Resting
  <2>2. stage[d] \notin Starting /\ stage'[d] \notin Early
    <3>1. CASE \E p \in polls[d] : PollItem(d, p)  BY <3>1 DEF PollItem, Early, Starting
    <3>2. CASE Claim(d)  BY <1>0, <3>2 DEF Claim, Goto, Early, Starting
    <3>3. CASE PollEnd(d)  BY <1>0, <3>3 DEF PollEnd, Rest, Goto, Early, Starting
    <3> QED
      BY <1>0, <1>5, <2>1, <3>1, <3>2, <3>3
      DEF Drive, Goto, Purge, Lock, Dispatch, Gather, PollStart, Early, Starting
  <2>3. Moves  BY <1>5, <2>2, DriverMoves
  <2> QED  BY <2>2, <2>3
<1>6. CASE SessionFails
  <2>1. Moves /\ (rows' = rows \/ stage[d] = "polling")  BY <1>6, FailureMoves
  <2>2. \/ stage' = stage
        \/ stage[d] \in {"claim", "dispatch", "poll"} /\ stage'[d] = "lock"
        \/ <<stage[d], stage'[d]>> = <<"recover", "dead">>
    BY <1>0, <1>6
    DEF SessionFails, Breaks, DriveFails, Rest, LoopDies, PollItemFails, Goto, TheLoop, driverVars,
        Order, Resting
  <2> QED  BY <1>6, <2>1, <2>2 DEF SessionFails, Breaks, DriveFails, LoopDies, SameRows, BootSteps,
                                   Early, Starting
<1>7. CASE Environment  BY <1>7, EnvironmentStays DEF Alone
<1>8. ~StartCycle(d)  BY DEF StartCycle
<1>9. ASSUME NEW k \in Callers, QueueWrite(k), rows' = rows PROVE UNCHANGED <<rows, stage>>
  BY <1>9 DEF QueueWrite, driverVars
<1>10. ASSUME NEW k \in DOMAIN tasks, Waterfall(k) PROVE Moves /\ stage[d] \notin Starting /\ stage'[d] \notin Early
  BY <1>2, <1>10 DEF Early
<1> QED
  BY <1>1, <1>3, <1>4, <1>5, <1>6, <1>7, <1>8, <1>9, <1>10 DEF Next, TheLoop, Transfer, vars, envVars, driverVars

LEMMA StatusesTyped ==
    ASSUME NEW r, Wellformed(r), \A i \in DOMAIN r : r[i].status \notin {"PAUSED", "CANCELLED"}
    PROVE  \A i \in Ids : (IF i \in DOMAIN r THEN r[i].status ELSE "ABSENT") \in Lifecycle!Statuses
<1>1. \A i \in DOMAIN r : r[i].status \in Statuses  BY RowFields DEF Wellformed
<1> QED  BY <1>1, LifecycleStatuses

LEMMA MovesPlain ==
    ASSUME IInv, IInv', NEW d, Plain(d), Moves
    PROVE  \A i \in DOMAIN rows' : rows'[i].status \notin {"PAUSED", "CANCELLED"}
<1> SUFFICES ASSUME NEW i \in DOMAIN rows' PROVE rows'[i].status \notin {"PAUSED", "CANCELLED"}
  OBVIOUS
<1>1. i \in Ids /\ StatusOf(i)' = rows'[i].status  BY Parts DEF IInv, DQTypeOK, StatusOf
<1>2. StatusOf(i) \in Lifecycle!Statuses  BY <1>1, Parts, StatusesTyped DEF Plain, StatusOf
<1>3. StatusOf(i)' \in Lifecycle!Statuses  BY <1>1, <1>2, AlongTyped DEF Moves
<1> QED  BY <1>1, <1>3, LifecycleStatuses

LEMMA StepPlain ==
    ASSUME IInv, IInv', NEW d, Alone(d), Order(d), Order(d)', Plain(d), [Next]_vars
    PROVE  Plain(d)'
<1> d \in Drivers /\ d \in Daemon /\ TheLoop(d)  BY DEF Alone, TheLoop
<1>0. DOMAIN stage = Drivers /\ Wellformed(rows) /\ Wellformed(rows)'
  BY Parts DEF Around, Wellformed, IInv, DQTypeOK
<1>1. ASSUME SameRows, stage'[d] \in {stage[d], "boot"} \/ <<stage[d], stage'[d]>> \in BootSteps
      PROVE  Plain(d)'
  BY <1>1 DEF Plain, SameRows, InStatus, BootSteps
<1>2. CASE Recover(d)
  <2> DEFINE again(i) == [rows[i] EXCEPT !.status = "QUEUED", !.plugin = "none"]
  <2>1. \A i \in DOMAIN rows : again(i).track = rows[i].track /\ again(i).status = "QUEUED"
    BY <1>0 DEF Row, Wellformed
  <2>2. rows' = [i \in DOMAIN rows |-> IF rows[i].status \notin {"SEARCHING", "DOWNLOADING"}
                                       THEN rows[i] ELSE again(i)]
    BY <1>2 DEF Recover
  <2> HIDE DEF again
  <2>6. ASSUME NEW i \in DOMAIN rows'
        PROVE  /\ i \in DOMAIN rows /\ rows'[i].status \notin {"SEARCHING", "DOWNLOADING"}
               /\ rows'[i].status = rows[i].status \/ rows'[i].status = "QUEUED"
    BY <2>1, <2>2
  <2>7. InStatus({"SEARCHING", "DOWNLOADING"})' = {}  BY <2>6 DEF InStatus
  <2>8. \A i \in DOMAIN rows' : rows'[i].status \notin {"PAUSED", "CANCELLED"}  BY <2>6 DEF Plain
  <2> QED  BY <2>7, <2>8 DEF Plain
<1>3. ASSUME NEW k \in Callers, QueueWrite(k), rows' # rows PROVE Plain(d)'
  <2> DEFINE t == call[k][1]
  <2>1. PICK j \in Ids : Written(t, j)  BY <1>3, CallWrites DEF Order
  <2>2. stage' = stage  BY <1>3 DEF QueueWrite, driverVars
  <2>3. Fresh(t).status = "QUEUED" /\ Fresh(t).track = t  BY DEF Fresh
  <2> HIDE DEF t
  <2>4. \A i \in DOMAIN rows' : rows'[i].status = "QUEUED" \/ (i \in DOMAIN rows \ {j} /\ rows'[i] = rows[i])
    BY <2>1, <2>3 DEF Written
  <2> QED  BY <2>2, <2>4 DEF Plain, InStatus
<1>4. ASSUME Moves, stage'[d] \notin Early PROVE Plain(d)'
  BY <1>4, MovesPlain DEF Plain, Early
<1> QED  BY <1>1, <1>2, <1>3, <1>4, LoopSteps

LEMMA StepLifecycle ==
    ASSUME IInv, IInv', NEW d, Alone(d), Order(d), Plain(d), Plain(d)', [Next]_vars
    PROVE  [Lifecycle!Next]_Lifecycle!vars
<1> d \in Drivers /\ Daemon = {d} /\ TheLoop(d)  BY DEF Alone, TheLoop
<1> DEFINE bar == [i \in Ids |-> StatusOf(i)]
           working == stage[d] \notin Starting
<1>0. DOMAIN stage = Drivers /\ Wellformed(rows) /\ Wellformed(rows')
  BY Parts DEF Around, Wellformed, IInv, DQTypeOK
<1>1. /\ bar \in [Ids -> Lifecycle!Statuses] /\ bar' \in [Ids -> Lifecycle!Statuses]
      /\ \A i \in Ids : bar[i] = StatusOf(i) /\ bar'[i] = StatusOf(i)'
  <2>1. \A i \in Ids : StatusOf(i) \in Lifecycle!Statuses  BY <1>0, StatusesTyped DEF Plain, StatusOf
  <2>2. \A i \in Ids : StatusOf(i)' \in Lifecycle!Statuses  BY <1>0, StatusesTyped DEF Plain, StatusOf
  <2> QED  BY <2>1, <2>2
<1>2. /\ (\A e \in Daemon : stage[e] \notin {"boot", "recover", "dead"}) <=> working
      /\ (\A e \in Daemon : stage'[e] \notin {"boot", "recover", "dead"}) <=> working'
  BY DEF Starting
<1>3. bar' = bar /\ (working' = working) => UNCHANGED Lifecycle!vars
  BY <1>2 DEF Lifecycle!vars, StatusOf
<1>4. ~working' /\ bar' = bar => Lifecycle!Restart
  BY <1>2 DEF Lifecycle!Restart, StatusOf
<1>5. ~working /\ working' /\ bar' = [i \in Ids |-> IF bar[i] \in {"SEARCHING", "DOWNLOADING"}
                                                   THEN "QUEUED" ELSE bar[i]]
      => Lifecycle!Recover
  BY <1>2 DEF Lifecycle!Recover, Lifecycle!Interrupted, StatusOf
<1>6. ~working /\ ~working' /\ (\E j \in Ids : /\ Lifecycle!Enqueued(bar[j], "QUEUED")
                                              /\ bar' = [bar EXCEPT ![j] = "QUEUED"])
      => Lifecycle!Add
  BY <1>2 DEF Lifecycle!Add, StatusOf
<1>7. working /\ working' /\ Moves => Lifecycle!Work
  BY <1>1, <1>2 DEF Lifecycle!Work, StatusOf, Moves, Along
<1>8. SameRows => bar' = bar  BY SameRowsStay DEF Stays
<1> HIDE DEF bar
<1>9. CASE SameRows /\ stage'[d] \in {stage[d], "boot"}
  BY <1>3, <1>4, <1>8, <1>9 DEF Lifecycle!Next, Starting
<1>10. CASE SameRows /\ <<stage[d], stage'[d]>> \in BootSteps
  BY <1>3, <1>8, <1>10 DEF BootSteps, Starting
<1>11. CASE Recover(d)
  <2>1. stage[d] = "recover" /\ stage'[d] = "dedupe"  BY <1>0, <1>11 DEF Recover, Goto
  <2>2. bar' = [i \in Ids |-> IF bar[i] \in {"SEARCHING", "DOWNLOADING"} THEN "QUEUED" ELSE bar[i]]
    <3> DEFINE again(i) == [rows[i] EXCEPT !.status = "QUEUED", !.plugin = "none"]
    <3>1. \A i \in DOMAIN rows : again(i).status = "QUEUED"  BY <1>0 DEF Row, Wellformed
    <3>2. rows' = [i \in DOMAIN rows |-> IF rows[i].status \notin {"SEARCHING", "DOWNLOADING"}
                                         THEN rows[i] ELSE again(i)]
      BY <1>11 DEF Recover
    <3> HIDE DEF again
    <3>3. ASSUME NEW i \in Ids
          PROVE  StatusOf(i)' = IF StatusOf(i) \in {"SEARCHING", "DOWNLOADING"} THEN "QUEUED" ELSE StatusOf(i)
      BY <3>1, <3>2 DEF StatusOf
    <3> QED  BY <3>3 DEF bar
  <2> QED  BY <1>5, <2>1, <2>2 DEF Lifecycle!Next, Starting
<1>12. ASSUME NEW k \in Callers, QueueWrite(k), rows' # rows PROVE Lifecycle!Next
  <2>1. stage' = stage  BY <1>12 DEF QueueWrite, driverVars
  <2>2. PICK j \in Ids : /\ Lifecycle!Enqueued(StatusOf(j), "QUEUED") /\ StatusOf(j)' = "QUEUED"
                         /\ \A i \in Ids \ {j} : StatusOf(i)' = StatusOf(i)
    BY <1>12, CallerMoves
  <2>3. CASE working
    <3>1. Along(StatusOf(j), StatusOf(j)')  BY <2>2 DEF Along
    <3>2. Moves  BY <2>2, <3>1 DEF Moves, Along
    <3> QED  BY <1>7, <2>1, <2>3, <3>2 DEF Lifecycle!Next
  <2>4. CASE ~working
    <3>1. bar' = [bar EXCEPT ![j] = "QUEUED"] /\ Lifecycle!Enqueued(bar[j], "QUEUED")
      BY <1>1, <2>2 DEF bar
    <3> QED  BY <1>6, <2>1, <2>4, <3>1 DEF Lifecycle!Next
  <2> QED  BY <2>3, <2>4
<1>13. CASE Moves /\ stage[d] \notin Starting /\ stage'[d] \notin Early
  BY <1>7, <1>13 DEF Lifecycle!Next, Early
<1> QED  BY <1>9, <1>10, <1>11, <1>12, <1>13, LoopSteps

\* For every number of tracks, candidates and rows: the background loop, alone with
\* the calls of queue_download, implements the life-cycle of the rows. Every write
\* of a status follows an edge of it although no write looks at the old status, and
\* after a crash no status moves, except for new calls, before the recovery.
THEOREM LoopImplements == EarlierPlain /\ (\E d : Alone(d)) => (Spec => LifecycleSpec)
<1> SUFFICES ASSUME EarlierPlain, NEW d, Alone(d) PROVE Spec => LifecycleSpec  OBVIOUS
<1>1. ASSUME Init PROVE Plain(d)
  <2>1. rows = Earlier /\ stage[d] = "boot"  BY <1>1 DEF Init, Alone, TheLoop
  <2> QED  BY <2>1 DEF Plain, EarlierPlain
<1>2. ASSUME Init PROVE Lifecycle!Init
  <2>1. rows = Earlier /\ Wellformed(rows) /\ stage[d] = "boot" /\ d \in Daemon
    BY <1>1, <1>2, InitIInv, Parts DEF Init, Alone, TheLoop
  <2> QED  BY <1>1, <1>2, <2>1, StatusesTyped DEF Lifecycle!Init, Plain
<1>3. Spec => [](IInv /\ Order(d))  BY LoopOrdered
<1>4. IInv /\ IInv' /\ Order(d) /\ Order(d)' /\ Plain(d) /\ [Next]_vars => Plain(d)'  BY StepPlain
<1>5. IInv /\ IInv' /\ Order(d) /\ Plain(d) /\ Plain(d)' /\ [Next]_vars => [Lifecycle!Next]_Lifecycle!vars
  BY StepLifecycle
<1> QED  BY <1>1, <1>2, <1>3, <1>4, <1>5, PTL DEF Spec, LifecycleSpec, Lifecycle!Spec
=============================================================================
