--------------------------- MODULE DownloadQueue ---------------------------
(***************************************************************************)
(* The download queue: the rows of working.db's download_queue table and   *)
(* everything that writes to them.  DownloadManager (services/             *)
(* download_manager.py) searches for queued tracks, starts transfers at a  *)
(* provider and polls them; web routes, slskd webhooks, the event bus and  *)
(* the sync service change the same rows from their own threads.           *)
(*                                                                         *)
(* A database session is one step that works or fails and writes nothing   *)
(* (the write lease times out, the commit raises), and the code of one     *)
(* asyncio loop between two awaits is one step.  Sessions of several       *)
(* threads overlap in one respect: LostUpdate.  A `waterfall' (search, then*)
(* start a transfer) is a task of the loop that created it.  The manager is*)
(* driven by the background loop (Daemon) or by cycles that each run in a  *)
(* loop of their own (asyncio.run in a job's or a request's thread).       *)
(***************************************************************************)
EXTENDS Integers, Sequences, FiniteSets

CONSTANTS
    Tracks,         \* tracks, told apart by their normalized signature
    Cands,          \* candidates; a transfer has the name of its candidate
    Offers,         \* Offers[t]: the candidates the providers have for track t
    Drivers,        \* threads or loops that run processing
    Daemon,         \* the drivers that are the background loop (auto_start)
    Callers,        \* threads that call queue_download
    Earlier,        \* the table, and the transfers at the provider, as an earlier
    Transfers,      \*   life of the process has left them
    ProviderStates, \* {TRUE} if a download provider is always active
    UserOps,        \* names of the web operations that are used
    PageSize,       \* batch_size of the paged scans: 25 in the code
    MaxId,          \* bound on row ids
    MaxEvents,      \* bound on what the environment does and on failing sessions
    MaxRetries      \* cap of automatic requeueing: 5 in the code

Ids == 1..MaxId

ASSUME DownloadAssumption ==
    /\ Offers \in [Tracks -> SUBSET Cands] /\ Daemon \subseteq Drivers
    /\ ProviderStates \subseteq BOOLEAN
    /\ PageSize \in Nat \ {0} /\ MaxId \in Nat \ {0} /\ MaxEvents \in Nat /\ MaxRetries \in Nat
    /\ \A c \in Cands : c # "none" /\ c # "provider"

VARIABLES
    library,  \* tracks in the music library
    rows,     \* the table: a function from the ids in use
    call,     \* what each queue_download call has found in the table
    tasks,    \* running waterfalls
    stage,    \* where each driver is in its cycle
    batch,    \* ids a driver has claimed and not yet dispatched
    polls,    \* <<id, transfer>> pairs of the poll in progress
    remote,   \* state of the transfer of each candidate at the provider
    shutdown, \* DownloadManager._shutdown
    events,   \* what the environment has done so far
    orphaned  \* history: SEARCHING rows whose owner ended with a failing session

envVars == <<library, shutdown, events, orphaned>>
driverVars == <<stage, batch, polls>>
vars == <<library, rows, call, tasks, stage, batch, polls, remote, shutdown, events, orphaned>>

Statuses == {"QUEUED", "SEARCHING", "DOWNLOADING", "VERIFYING", "RETRYING",
             "COMPLETED", "FAILED", "PAUSED", "CANCELLED"}

Row == [track : Tracks, status : Statuses, retries : Nat, plugin : Cands \cup {"none", "provider"},
        active : Cands \cup {"none"}, stack : Seq(Cands), black : SUBSET (Cands \cup {"provider"})]

Transferring == [Cands -> {"none", "active", "failed", "complete"}]

Fresh(t) == [track |-> t, status |-> "QUEUED", retries |-> 0, plugin |-> "none",
             active |-> "none", stack |-> <<>>, black |-> {}]

ASSUME EarlierAssumption ==
    /\ DOMAIN Earlier \subseteq Ids /\ \A i \in DOMAIN Earlier : Earlier[i] \in Row
    /\ Transfers \in Transferring

\* A waterfall is named by the loop it runs in, what created it, and its row.
TaskKeys == [by : Drivers, kind : {"batch", "poll"}, row : Ids]
            \cup [by : {"web"}, kind : {"hook"}, row : Ids]
            \cup [by : {"job"}, kind : {"single"}, row : Ids]

Task == [pc : {"begin", "search", "attempt", "report"}, track : Tracks \cup {"none"},
         black : SUBSET (Cands \cup {"provider"}), left : Seq(Cands)]

NewTask == [pc |-> "begin", track |-> "none", black |-> {}, left |-> <<>>]

\* A second task for the same row in the same loop is merged with the first.
WithTasks(S) == tasks' = [k \in DOMAIN tasks \cup S |->
                             IF k \in DOMAIN tasks THEN tasks[k] ELSE NewTask]

BatchTasks(d) == {k \in DOMAIN tasks : k.by = d /\ k.kind = "batch"}

-----------------------------------------------------------------------------
(* Writes to the table.  SQLite gives a new row the largest id in use plus  *)
(* one, so the id of a deleted last row is used again.                      *)

RowsOf(t) == {i \in DOMAIN rows : rows[i].track = t}
WithStatus(i, s) == IF i \in DOMAIN rows THEN [rows EXCEPT ![i].status = s] ELSE rows
SetAll(S, s) == [i \in DOMAIN rows |-> IF i \in S THEN [rows[i] EXCEPT !.status = s] ELSE rows[i]]
Without(f, S) == [x \in DOMAIN f \ S |-> f[x]]
Newest(i, S) == i \in S /\ \A j \in S : j <= i
IsNextId(i) == IF DOMAIN rows = {} THEN i = 1 ELSE Newest(i - 1, DOMAIN rows)
InStatus(S) == {i \in DOMAIN rows : rows[i].status \in S}

DownloadingLegacy(i, c) == WithStatus(i, "IN_PROGRESS")
DownloadingUntraced(i, c) == WithStatus(i, "DOWNLOADING")

\* _update_status(id, DOWNLOADING, c)
Downloading(i, c) ==
    IF i \notin DOMAIN rows THEN rows
    ELSE [rows EXCEPT ![i] = [rows[i] EXCEPT !.status = "DOWNLOADING", !.plugin = c,
                                             !.active = IF @ = "none" THEN c ELSE @]]

RejectingToQueue(i, c) == WithStatus(i, "QUEUED")
RejectingForgetful(i, c) == WithStatus(i, "SEARCHING")

\* A transfer failed or disappeared: reject it and search again.
Rejecting(i, c) ==
    IF i \notin DOMAIN rows THEN rows
    ELSE [rows EXCEPT ![i] = [rows[i] EXCEPT !.status = "SEARCHING", !.plugin = "none",
                                             !.black = @ \cup {c}]]

\* The rows a paged scan of S deletes: page after page, each at an offset in
\* what the earlier pages have left.
Rank(i, S) == Cardinality({j \in S : j <= i})
PagedDelete(S, hit) ==
    LET page(R, n) == {i \in R : n * PageSize < Rank(i, R) /\ Rank(i, R) <= (n + 1) * PageSize}
        rest[n \in 0..Cardinality(S)] ==
            IF n = 0 THEN S ELSE rest[n - 1] \ (page(rest[n - 1], n - 1) \cap hit)
    IN  S \ rest[Cardinality(S)]

Duplicates == {i \in DOMAIN rows : \E j \in RowsOf(rows[i].track) : j > i}

-----------------------------------------------------------------------------
Init ==
    /\ library = {} /\ rows = Earlier
    /\ call = [k \in Callers |-> <<>>]
    /\ tasks = <<>>
    /\ stage = [d \in Drivers |-> IF d \in Daemon THEN "boot" ELSE "idle"]
    /\ batch = [d \in Drivers |-> {}] /\ polls = [d \in Drivers |-> {}]
    /\ remote = Transfers
    /\ shutdown = FALSE /\ events = 0 /\ orphaned = {}

Event == events < MaxEvents /\ events' = events + 1

\* A session that is to leave the table as r.
Write(r) == \/ rows' = r /\ UNCHANGED events
            \/ rows' = rows /\ r # rows /\ Event

-----------------------------------------------------------------------------
(* queue_download: the lookup and the write are two sessions.              *)

QueueFind(k, t) ==
    /\ Event
    /\ call[k] = <<>> /\ t \notin library
    /\ \/ RowsOf(t) = {} /\ call' = [call EXCEPT ![k] = <<t, 0>>]
       \/ \E found \in RowsOf(t) :
            /\ Newest(found, RowsOf(t)) /\ rows[found].status \in {"FAILED", "COMPLETED", "CANCELLED"}
            /\ call' = [call EXCEPT ![k] = <<t, found>>]
    /\ UNCHANGED <<library, rows, tasks, driverVars, remote, shutdown, orphaned>>

\* A finished row is reset and used again, otherwise a row is inserted.
QueueWrite(k) ==
    /\ call[k] # <<>>
    /\ LET t == call[k][1]
           i == call[k][2]
       IN  IF i \in DOMAIN rows THEN Write([rows EXCEPT ![i] = Fresh(t)])
           ELSE \E new \in Ids : /\ IsNextId(new)
                                 /\ Write([j \in DOMAIN rows \cup {new} |->
                                              IF j = new THEN Fresh(t) ELSE rows[j]])
    /\ call' = [call EXCEPT ![k] = <<>>]
    /\ UNCHANGED <<library, tasks, driverVars, remote, shutdown, orphaned>>

-----------------------------------------------------------------------------
(* _execute_waterfall_search_and_download, one task                        *)

End(k) == tasks' = Without(tasks, {k})

NoBlacklist(i) == {}
Blacklist(i) == rows[i].black

\* Loads the row, claims it if it is still queued (a failure to do so is passed
\* over), and looks in the library.
Begin(k) ==
    /\ tasks[k].pc = "begin"
    /\ \/ /\ k.row \notin DOMAIN rows
          /\ End(k) /\ UNCHANGED <<rows, events>>
       \/ /\ k.row \in DOMAIN rows /\ rows[k.row].track \in library
          /\ End(k) /\ rows' = WithStatus(k.row, "COMPLETED") /\ UNCHANGED events
       \/ /\ k.row \in DOMAIN rows /\ rows[k.row].track \notin library
          /\ Write(IF rows[k.row].status \in {"QUEUED", "RETRYING"}
                   THEN WithStatus(k.row, "SEARCHING") ELSE rows)
          /\ tasks' = [tasks EXCEPT ![k] = [tasks[k] EXCEPT !.pc = "search",
                          !.track = rows[k.row].track, !.black = Blacklist(k.row)]]
    /\ UNCHANGED <<library, shutdown, orphaned, call, driverVars, remote>>

\* At most three ranked candidates, none of them in the blacklist loaded above.
Rankings(S) == {s \in UNION {[1..n -> S] : n \in 1..3} : \A m, n \in DOMAIN s : s[m] = s[n] => m = n}

SearchFinds(k) ==
    /\ tasks[k].pc = "search"
    /\ \E found \in Rankings(Offers[tasks[k].track] \ tasks[k].black) :
         /\ tasks' = [tasks EXCEPT ![k] = [NewTask EXCEPT !.pc = "attempt", !.left = found]]
         /\ rows' = IF k.row \notin DOMAIN rows THEN rows
                    ELSE [rows EXCEPT ![k.row] = [rows[k.row] EXCEPT !.active = Head(found),
                                          !.stack = Tail(found), !.plugin = "provider"]]
    /\ UNCHANGED <<envVars, call, driverVars, remote>>

SearchFailsSilently(k) ==
    /\ tasks[k].pc = "search"
    /\ End(k) /\ UNCHANGED <<envVars, rows, call, driverVars, remote>>

\* No match, an exception, or a shutdown seen between two searches.
SearchFails(k) ==
    /\ tasks[k].pc = "search"
    /\ rows' = WithStatus(k.row, "FAILED") /\ End(k)
    /\ UNCHANGED <<envVars, call, driverVars, remote>>

\* (What the task no longer looks at is dropped.)
\* The provider accepts the transfer; the task has not resumed yet.
Accepted(k) ==
    /\ tasks[k].pc = "attempt" /\ tasks[k].left # <<>>
    /\ remote' = [remote EXCEPT ![Head(tasks[k].left)] = "active"]
    /\ tasks' = [tasks EXCEPT ![k] = [tasks[k] EXCEPT !.pc = "report", !.left = <<Head(@)>>]]
    /\ UNCHANGED <<envVars, rows, call, driverVars>>

\* Refused by the peer, by a hook or by an exception: the next candidate.
Refused(k) ==
    /\ tasks[k].pc = "attempt" /\ tasks[k].left # <<>>
    /\ tasks' = [tasks EXCEPT ![k] = [tasks[k] EXCEPT !.left = Tail(@)]]
    /\ UNCHANGED <<envVars, rows, call, driverVars, remote>>

NoneStarted(k) ==
    /\ tasks[k].pc = "attempt" /\ tasks[k].left = <<>>
    /\ rows' = WithStatus(k.row, "FAILED") /\ End(k)
    /\ UNCHANGED <<envVars, call, driverVars, remote>>

Report(k) ==
    /\ tasks[k].pc = "report"
    /\ rows' = Downloading(k.row, Head(tasks[k].left)) /\ End(k)
    /\ UNCHANGED <<envVars, call, driverVars, remote>>

\* The report fails: FAILED is written, and the transfer goes on.
ReportFails(k) ==
    /\ tasks[k].pc = "report" /\ Event
    /\ rows' = WithStatus(k.row, "FAILED") /\ End(k)
    /\ UNCHANGED <<library, call, driverVars, remote, shutdown, orphaned>>

\* A session outside the `try' fails, or one in it and then the one that writes
\* FAILED: gather drops the exception and the row stays as it is.
Breaks(k) ==
    /\ tasks[k].pc = "attempt" => tasks[k].left = <<>>
    /\ Event /\ End(k)
    /\ orphaned' = orphaned \cup ({k.row} \cap InStatus({"SEARCHING"}))
    /\ UNCHANGED <<library, rows, call, driverVars, remote, shutdown>>

Waterfall(k) == Begin(k) \/ SearchFinds(k) \/ SearchFails(k) \/ Accepted(k)
                \/ Refused(k) \/ NoneStarted(k) \/ Report(k) \/ ReportFails(k)

-----------------------------------------------------------------------------
(* A driver: _process_loop, or the _cycle of process_downloads_now.        *)

Goto(d, s) == stage' = [stage EXCEPT ![d] = s]

\* process_downloads_now returns at once while the background loop runs.
StartCycle(d) ==
    /\ stage[d] = "idle" /\ d \notin Daemon
    /\ \A e \in Daemon : stage[e] \in {"idle", "dead"}
    /\ Goto(d, "requeue")
    /\ UNCHANGED <<envVars, rows, call, tasks, batch, polls, remote>>

StartLoopUnrecovered(d) ==
    /\ stage[d] = "boot" /\ Goto(d, "dedupe")
    /\ UNCHANGED <<envVars, rows, call, tasks, batch, polls, remote>>

\* start_background_task
StartLoop(d) ==
    /\ stage[d] = "boot"
    /\ Goto(d, "recover")
    /\ UNCHANGED <<envVars, rows, call, tasks, batch, polls, remote>>

\* _requeue_retryable_failed_items: those whose backoff has elapsed.
Requeue(d) ==
    /\ stage[d] = "requeue" /\ Goto(d, "recover")
    /\ \E S \in SUBSET {i \in InStatus({"FAILED"}) : rows[i].retries < MaxRetries} :
         rows' = [i \in DOMAIN rows |-> IF i \notin S THEN rows[i] ELSE
                     [rows[i] EXCEPT !.status = "QUEUED", !.plugin = "none", !.retries = @ + 1]]
    /\ UNCHANGED <<envVars, call, tasks, batch, polls, remote>>

RecoverAfresh(d) ==
    /\ stage[d] = "recover" /\ Goto(d, "dedupe") /\ orphaned' = {}
    /\ rows' = [i \in DOMAIN rows |-> IF rows[i].status \notin {"SEARCHING", "DOWNLOADING"}
                   THEN rows[i] ELSE Fresh(rows[i].track)]
    /\ UNCHANGED <<library, shutdown, events, call, tasks, batch, polls, remote>>

RecoverDownloading(d) ==
    /\ stage[d] = "recover" /\ Goto(d, "dedupe") /\ orphaned' = {}
    /\ rows' = SetAll(InStatus({"DOWNLOADING"}), "QUEUED")
    /\ UNCHANGED <<library, shutdown, events, call, tasks, batch, polls, remote>>

\* _recover_stuck_items
Recover(d) ==
    /\ stage[d] = "recover" /\ Goto(d, "dedupe") /\ orphaned' = {}
    /\ rows' = [i \in DOMAIN rows |-> IF rows[i].status \notin {"SEARCHING", "DOWNLOADING"}
                   THEN rows[i] ELSE [rows[i] EXCEPT !.status = "QUEUED", !.plugin = "none"]]
    /\ UNCHANGED <<library, shutdown, events, call, tasks, batch, polls, remote>>

\* _deduplicate_queue keeps the newest row of a track, whatever the others do.
Dedupe(d) ==
    /\ stage[d] = "dedupe" /\ Goto(d, "purge")
    /\ Write(Without(rows, Duplicates))
    /\ UNCHANGED <<library, shutdown, orphaned, call, tasks, batch, polls, remote>>

\* _purge_existing_tracks_from_queue
Purge(d) ==
    /\ stage[d] = "purge" /\ Goto(d, "lock")
    /\ Write(Without(rows, PagedDelete(InStatus({"QUEUED", "SEARCHING", "RETRYING", "FAILED"}),
                                       {i \in DOMAIN rows : rows[i].track \in library})))
    /\ UNCHANGED <<library, shutdown, orphaned, call, tasks, batch, polls, remote>>

Locked == \E d \in Drivers : stage[d] \in {"claim", "dispatch", "gather"}

\* _process_queued_items takes _processing_queue_lock or is skipped.
Lock(d) ==
    /\ stage[d] = "lock"
    /\ \/ d \in Daemon /\ shutdown /\ Goto(d, "idle") /\ UNCHANGED <<rows, events>>
       \/ ~(d \in Daemon /\ shutdown) /\ Locked /\ Goto(d, "poll") /\ UNCHANGED <<rows, events>>
       \/ /\ ~(d \in Daemon /\ shutdown) /\ ~Locked
          /\ Goto(d, "claim") /\ Write(Without(rows, Duplicates))
    /\ UNCHANGED <<library, shutdown, orphaned, call, tasks, batch, polls, remote>>

Claim(d) ==
    /\ stage[d] = "claim"
    /\ LET queued == InStatus({"QUEUED"})
           ids == {i \in queued : rows[i].track \notin library}
       IN  /\ rows' = [i \in DOMAIN rows |->
                          IF i \in ids THEN [rows[i] EXCEPT !.status = "SEARCHING"]
                          ELSE IF i \in queued THEN [rows[i] EXCEPT !.status = "COMPLETED"]
                          ELSE rows[i]]
           /\ batch' = [batch EXCEPT ![d] = ids] /\ orphaned' = orphaned \ ids
           /\ Goto(d, IF ids = {} THEN "poll" ELSE "dispatch")
    /\ UNCHANGED <<library, shutdown, events, call, tasks, polls, remote>>

\* One task for each claimed row; without a provider the claim is undone.
Dispatch(d) ==
    /\ stage[d] = "dispatch"
    /\ batch' = [batch EXCEPT ![d] = {}]
    /\ \/ /\ TRUE \in ProviderStates
          /\ WithTasks([by : {d}, kind : {"batch"}, row : batch[d]])
          /\ Goto(d, "gather") /\ UNCHANGED rows
       \/ /\ FALSE \in ProviderStates
          /\ rows' = SetAll(batch[d] \cap InStatus({"SEARCHING"}), "QUEUED")
          /\ Goto(d, "poll") /\ UNCHANGED tasks
    /\ UNCHANGED <<envVars, call, polls, remote>>

\* asyncio.gather returns when every search of the batch has ended.
Gather(d) ==
    /\ stage[d] = "gather" /\ BatchTasks(d) = {}
    /\ Goto(d, "poll")
    /\ UNCHANGED <<envVars, rows, call, tasks, batch, polls, remote>>

\* _check_active_downloads: which transfers to ask for, then one at a time.
PollStart(d) ==
    /\ stage[d] = "poll" /\ Goto(d, "polling")
    /\ \/ /\ TRUE \in ProviderStates
          /\ polls' = [polls EXCEPT ![d] = {<<i, rows[i].plugin>> :
                          i \in {j \in InStatus({"DOWNLOADING"}) : rows[j].plugin # "none"}}]
       \/ FALSE \in ProviderStates /\ UNCHANGED polls
    /\ UNCHANGED <<envVars, rows, call, tasks, batch, remote>>

\* What the poll writes comes from its snapshot, not from the row as it is now.
PollItem(d, p) ==
    /\ stage[d] = "polling" /\ p \in polls[d]
    /\ polls' = [polls EXCEPT ![d] = @ \ {p}]
    /\ LET i == p[1]
           c == p[2]
           state == IF c \in Cands THEN remote[c] ELSE "none"
           key == [by |-> d, kind |-> "poll", row |-> i]
       IN  \/ /\ state = "complete"
              /\ rows' = WithStatus(i, "VERIFYING") /\ UNCHANGED <<tasks, remote>>
           \/ /\ state = "active"
              /\ rows' = Downloading(i, c) /\ UNCHANGED <<tasks, remote>>
              \* failed, disappeared, or no answer: cancel and fall back
           \/ /\ key \notin DOMAIN tasks
              /\ rows' = Rejecting(i, c)
              /\ WithTasks({key})
              /\ remote' \in IF c \in Cands THEN {remote, [remote EXCEPT ![c] = "none"]} ELSE {remote}
    /\ UNCHANGED <<envVars, call, stage, batch>>

\* A session for the transfer of p fails: its row is passed over.  The commit of a
\* rejection and the end of its session are two chances to fail; between them the
\* row is SEARCHING and its new task is not created.
PollItemFails(d, p) ==
    /\ stage[d] = "polling" /\ p \in polls[d] /\ Event
    /\ polls' = [polls EXCEPT ![d] = @ \ {p}]
    /\ \/ UNCHANGED <<rows, orphaned>>
       \/ rows' = Rejecting(p[1], p[2]) /\ orphaned' = orphaned \cup ({p[1]} \cap DOMAIN rows)
    /\ remote' \in IF p[2] \in Cands THEN {remote, [remote EXCEPT ![p[2]] = "none"]} ELSE {remote}
    /\ UNCHANGED <<library, call, tasks, stage, batch, shutdown>>

\* The background loop sleeps and goes on; the end of asyncio.run cancels what
\* is left of the tasks that the cycle created.
Rest(d) == /\ Goto(d, IF d \in Daemon THEN "lock" ELSE "idle")
           /\ tasks' = IF d \in Daemon THEN tasks ELSE Without(tasks, {k \in DOMAIN tasks : k.by = d})

PollEnd(d) ==
    /\ stage[d] = "polling" /\ polls[d] = {} /\ Rest(d)
    /\ UNCHANGED <<envVars, rows, call, batch, polls, remote>>

\* A session of the driver's own fails: a cycle ends, and the loop sleeps and goes
\* on.  A batch that could not be undone stays SEARCHING.
DriveFails(d) ==
    /\ stage[d] \in {"requeue", "claim", "dispatch", "poll"} \/ (stage[d] = "recover" /\ d \notin Daemon)
    /\ stage[d] = "dispatch" => FALSE \in ProviderStates
    /\ Event /\ Rest(d)
    /\ batch' = [batch EXCEPT ![d] = {}]
    /\ orphaned' = orphaned \cup (batch[d] \cap InStatus({"SEARCHING"}))
    /\ UNCHANGED <<library, rows, call, polls, remote, shutdown>>

\* Recovery fails before the loop has begun: its task is dead.
LoopDies(d) ==
    /\ d \in Daemon /\ stage[d] = "recover" /\ Event
    /\ Goto(d, "dead")
    /\ UNCHANGED <<library, rows, call, tasks, batch, polls, remote, shutdown, orphaned>>

Drive(d) == \/ StartLoop(d) \/ Requeue(d) \/ Recover(d) \/ Dedupe(d) \/ Purge(d)
            \/ Lock(d) \/ Claim(d) \/ Dispatch(d) \/ Gather(d)
            \/ PollStart(d) \/ (\E p \in polls[d] : PollItem(d, p)) \/ PollEnd(d)

\* The sessions that end what they belong to.
SessionFails ==
    \/ \E k \in DOMAIN tasks : Breaks(k)
    \/ \E d \in Drivers : DriveFails(d) \/ LoopDies(d) \/ \E p \in polls[d] : PollItemFails(d, p)

-----------------------------------------------------------------------------
(* The environment: the library, the provider, web routes and webhooks.    *)

LibraryChanges(t) ==
    /\ Event
    /\ library' = IF t \in library THEN library \ {t} ELSE library \cup {t}
    /\ UNCHANGED <<rows, call, tasks, driverVars, remote, shutdown, orphaned>>

\* The provider cancels what it can of the transfers of deleted rows.
CancelTransfers(S) ==
    remote' = [c \in Cands |-> IF \E i \in S \cap InStatus({"DOWNLOADING"}) : rows[i].plugin = c
                               THEN "none" ELSE remote[c]]

\* _on_track_imported
TrackImported(t) ==
    /\ Event
    /\ t \in library
    /\ LET gone == PagedDelete(InStatus({"QUEUED", "SEARCHING", "DOWNLOADING"}), RowsOf(t)) IN
         /\ CancelTransfers(gone)
         /\ rows' \in {rows, Without(rows, gone)}
    /\ UNCHANGED <<library, call, tasks, driverVars, shutdown, orphaned>>

Transfer(c) ==
    /\ remote[c] = "active"
    /\ \E s \in {"complete", "failed"} : remote' = [remote EXCEPT ![c] = s]
    /\ UNCHANGED <<envVars, rows, call, tasks, driverVars>>

\* A webhook names a transfer; the newest row in a live state that contains its
\* file name, its user or its title somewhere is taken for its row: the row whose
\* candidate it is, or a newer one.
Resolved(c) ==
    LET live == InStatus({"DOWNLOADING", "VERIFYING", "QUEUED", "SEARCHING"})
        exact == {i \in live : c = IF rows[i].active # "none" THEN rows[i].active ELSE rows[i].plugin}
    IN  {i \in live : \A j \in exact : j <= i}

HookComplete(c) ==
    /\ "hook" \in UserOps /\ Event
    /\ remote[c] = "complete"
    /\ \E i \in Resolved(c) : rows' = WithStatus(i, "VERIFYING")
    /\ UNCHANGED <<library, call, tasks, driverVars, remote, shutdown, orphaned>>

\* rotate_candidate: reject the active candidate, take the next of the stack.
Rotated(r) ==
    IF r.stack # <<>> /\ r.retries < 3
    THEN [r EXCEPT !.black = @ \cup ({r.active} \cap Cands), !.status = "RETRYING",
                   !.active = Head(r.stack), !.stack = Tail(r.stack), !.retries = @ + 1]
    ELSE [r EXCEPT !.black = @ \cup ({r.active} \cap Cands), !.status = "FAILED"]

\* handle_verification_failure, and the dispatch of the next candidate if a loop
\* runs in this thread.
HookFailed(c) ==
    /\ "hook" \in UserOps /\ Event
    /\ remote[c] = "failed"
    /\ \E i \in Resolved(c) :
         /\ rows' = [rows EXCEPT ![i] = Rotated(rows[i])]
         /\ \/ /\ TRUE \in ProviderStates /\ rows'[i].status = "RETRYING"
               /\ WithTasks({[by |-> "web", kind |-> "hook", row |-> i]})
            \/ UNCHANGED tasks
    /\ UNCHANGED <<library, call, driverVars, remote, shutdown, orphaned>>

\* Sessions of two threads overlap: the one that commits last writes the JSON of the
\* track back as it has read it, without the candidate that the other one rejected in
\* between (its other columns are written by the step that it belongs to).  The
\* sessions of one loop follow one another: it takes a webhook, the job of a
\* start_now or a second driver.
OneWriter == UserOps \cap {"hook", "start"} = {} /\ \A d, e \in Drivers : d = e

LostUpdate(i, c) ==
    /\ ~OneWriter /\ Event
    /\ c \in rows[i].black
    /\ rows' = [rows EXCEPT ![i].black = @ \ {c}]
    /\ UNCHANGED <<library, call, tasks, driverVars, remote, shutdown, orphaned>>

\* The requeue, pause and cancel routes only write the status.
SetStatus(i, s) ==
    /\ s \in UserOps \cap {"QUEUED", "PAUSED", "CANCELLED"} /\ Event
    /\ rows' = WithStatus(i, s)
    /\ UNCHANGED <<library, call, tasks, driverVars, remote, shutdown, orphaned>>

RequeueAllFailed ==
    /\ "requeue" \in UserOps /\ Event
    /\ rows' = [i \in DOMAIN rows |-> IF rows[i].status # "FAILED" THEN rows[i] ELSE
                   [rows[i] EXCEPT !.status = "QUEUED", !.retries = @ + 1]]
    /\ UNCHANGED <<library, call, tasks, driverVars, remote, shutdown, orphaned>>

DeleteRows(S) ==
    /\ "delete" \in UserOps /\ Event
    /\ CancelTransfers(S)
    /\ rows' \in {rows, Without(rows, S)}
    /\ UNCHANGED <<library, call, tasks, driverVars, shutdown, orphaned>>

\* start_now: requeue the row and run its waterfall as a job of its own.
StartNow(i) ==
    /\ "start" \in UserOps /\ Event
    /\ rows' = [rows EXCEPT ![i] = [rows[i] EXCEPT !.status = "QUEUED", !.retries = @ + 1]]
    /\ LET key == [by |-> "job", kind |-> "single", row |-> i] IN
         \/ TRUE \in ProviderStates /\ WithTasks({key})
         \/ FALSE \in ProviderStates /\ UNCHANGED tasks
    /\ UNCHANGED <<library, call, driverVars, remote, shutdown, orphaned>>

\* stop_background_task: the loop ends when it next looks at the flag.
Stop ==
    /\ Daemon # {} /\ ~shutdown /\ Event
    /\ shutdown' = TRUE
    /\ UNCHANGED <<library, rows, call, tasks, driverVars, remote, orphaned>>

\* The process dies and starts again: rows and transfers survive.
Crash ==
    /\ Event
    /\ call' = [k \in Callers |-> <<>>]
    /\ tasks' = <<>>
    /\ stage' = [d \in Drivers |-> IF d \in Daemon THEN "boot" ELSE "idle"]
    /\ batch' = [d \in Drivers |-> {}] /\ polls' = [d \in Drivers |-> {}]
    /\ shutdown' = FALSE
    /\ UNCHANGED <<library, rows, remote, orphaned>>

Environment ==
    \/ \E k \in Callers, t \in Tracks : QueueFind(k, t)
    \/ \E t \in Tracks : LibraryChanges(t) \/ ("import" \in UserOps /\ TrackImported(t))
    \/ \E c \in Cands : HookComplete(c) \/ HookFailed(c) \/ \E i \in DOMAIN rows : LostUpdate(i, c)
    \/ \E i \in DOMAIN rows, s \in Statuses : SetStatus(i, s)
    \/ RequeueAllFailed
    \/ \E S \in SUBSET DOMAIN rows : DeleteRows(S)
    \/ \E i \in DOMAIN rows : StartNow(i)
    \/ Stop \/ Crash

Next == \/ \E k \in Callers : QueueWrite(k)
        \/ \E k \in DOMAIN tasks : Waterfall(k)
        \/ \E d \in Drivers : StartCycle(d) \/ Drive(d)
        \/ \E c \in Cands : Transfer(c)
        \/ SessionFails
        \/ Environment

Spec == Init /\ [][Next]_vars

\* Threads and event loops run, cycles come again (the 6-hourly job), and a
\* transfer at the provider ends one way or the other.
Fairness == /\ \A k \in Callers : WF_vars(QueueWrite(k))
            /\ \A k \in TaskKeys : WF_vars(k \in DOMAIN tasks /\ Waterfall(k))
            /\ \A d \in Drivers : WF_vars(StartCycle(d)) /\ WF_vars(Drive(d))
            /\ \A c \in Cands : WF_vars(Transfer(c))

FairSpec == Spec /\ Fairness

-----------------------------------------------------------------------------
(* Properties *)

DQTypeOK ==
    /\ library \subseteq Tracks
    /\ DOMAIN rows \subseteq Ids /\ \A i \in DOMAIN rows : rows[i] \in Row
    /\ call \in [Callers -> {<<>>} \cup Tracks \X (Ids \cup {0})]
    /\ DOMAIN tasks \subseteq TaskKeys /\ \A k \in DOMAIN tasks : tasks[k] \in Task
    /\ stage \in [Drivers -> {"boot", "idle", "requeue", "recover", "dedupe", "purge", "lock",
                              "claim", "dispatch", "gather", "poll", "polling", "dead"}]
    /\ batch \in [Drivers -> SUBSET Ids]
    /\ polls \in [Drivers -> SUBSET (Ids \X (Cands \cup {"provider"}))]
    /\ remote \in Transferring
    /\ shutdown \in BOOLEAN /\ events \in 0..MaxEvents /\ orphaned \subseteq Ids

\* Under the background loop a SEARCHING row is never orphaned but by a session that
\* fails: once recovery has run, the batch or a waterfall still holds it (nothing
\* else picks it up: _process_queued_items takes queued rows only).
SearchOwned ==
    \A d \in Daemon : stage[d] \notin {"boot", "recover", "dead"} =>
        \A i \in InStatus({"SEARCHING"}) :
            i \in batch[d] \cup orphaned \/ \E k \in DOMAIN tasks : k.row = i

\* A DOWNLOADING row names a transfer of its own track: the poll gives up a row
\* with no transfer and would ask the provider for whatever else stands there.
DownloadingTraced ==
    \A i \in InStatus({"DOWNLOADING"}) : rows[i].plugin \in Offers[rows[i].track]

\* No two waterfalls work on one row: each would start a transfer of its own.
OneWaterfall == \A k, m \in DOMAIN tasks : k.row = m.row => k = m

\* A waterfall never starts a candidate that its row has rejected, across the
\* poll, the new task, and a restart in between (the blacklist in the row).
RejectedNotStarted ==
    \A k \in DOMAIN tasks : tasks[k].pc = "report" /\ k.row \in DOMAIN rows =>
        Head(tasks[k].left) \notin rows[k.row].black

\* What a row has rejected stays rejected, across polls, waterfalls, recovery and
\* restarts, until the track is queued anew.
RejectedKept ==
    [][\A i \in DOMAIN rows \cap DOMAIN rows' :
         rows[i].black \subseteq rows'[i].black \/ \E k \in Callers : QueueWrite(k)]_vars

\* DownloadLifecycle, seen through the rows and the loop's first steps.
Lifecycle == INSTANCE DownloadLifecycle WITH
    Ids <- Ids,
    status <- [i \in Ids |-> IF i \in DOMAIN rows THEN rows[i].status ELSE "ABSENT"],
    working <- \A d \in Daemon : stage[d] \notin {"boot", "recover", "dead"}

\* The background loop, alone with the calls of queue_download, moves the rows along
\* the edges of DownloadLifecycle: the guarded transitions of DownloadRepository and
\* the manager's own, which those guards do not allow (back to the queue, from the
\* queue or a search to COMPLETED).  It moves none before it has recovered the rows
\* of the process that crashed.
LifecycleSpec == Lifecycle!Spec

\* Under the background loop every queued track is settled, unless a failing session
\* has orphaned it or ended the loop: each fallback rejects one more candidate, so
\* the ladder ends.
Pending(i) == i \in InStatus({"QUEUED", "SEARCHING", "DOWNLOADING"})
LoopEnded == \A d \in Daemon : stage[d] \in {"idle", "dead"}
Settles == \A i \in Ids : Pending(i) ~> (~Pending(i) \/ i \in orphaned \/ LoopEnded)

\* Whatever users, webhooks and the tasks that die with a cycle leave behind, no
\* row stays QUEUED, SEARCHING or DOWNLOADING: some later cycle moves it on.
Unstuck == \A i \in Ids, s \in {"QUEUED", "SEARCHING", "DOWNLOADING"} :
               i \in InStatus({s}) ~> i \notin InStatus({s})
=============================================================================
