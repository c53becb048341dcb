----------------------------- MODULE LibrarySync -----------------------------
(***************************************************************************)
(* LibrarySyncService.sync_library over a directory that changes while it  *)
(* is walked and read, with the cancellation of its job through            *)
(* ProcessSupervisor.kill_with_cleanup.  The library mutex and the job     *)
(* queue allow one sync at a time.                                         *)
(*                                                                         *)
(* A version of a file is named by its modification time.  A row of        *)
(* local_media has the time that was stored and the version whose tags     *)
(* were stored; 0 stands for no time (NULL) and for no tags.  As history it *)
(* has whether the time was asked for after the tags had been read.        *)
(***************************************************************************)
EXTENDS Integers, FiniteSets, Functions

CONSTANTS Files, \* paths of the library directory
          Unnamed, \* those whose name says nothing of the track
          Untagged, \* versions with no tags, or with tags that say nothing
          ChunkSize, \* CHUNK_SIZE
          MaxEvents \* bound on what happens around the sync, the files' first
                    \* versions included

ASSUME SyncAssumption ==
    /\ IsFiniteSet(Files) /\ Unnamed \subseteq Files /\ Untagged \subseteq Nat
    /\ ChunkSize \in Nat \ {0} /\ MaxEvents \in Nat \ {0}

VARIABLES
    disk,   \* the version at each path, 0 if there is no file
    hidden, \* paths whose directory cannot be listed (os.walk skips it)
    flying, \* paths under suppress_path
    events, \* how much has happened; the next version's time
    rows,   \* local_media: a function on the paths that have a row
    sync,   \* the local variables of sync_library
    kill,   \* what the supervisor knows of the run
    steady  \* history: files that were there and listed since the run began

outside == <<disk, hidden, flying, events>>
vars == <<outside, rows, sync, kill, steady>>

Modes == {"incremental", "force_rescan", "full_rebuild"}
Idle == [pc |-> "idle", mode |-> "incremental", known |-> <<>>, unwalked |-> {},
         seen |-> {}, dirty |-> {}, at |-> {}, stamp |-> 0, tags |-> 0, chunk |-> <<>>]
Unregistered == [registered |-> FALSE, flag |-> FALSE]

Listed(f) == disk[f] # 0 /\ f \notin hidden
Cancelled == kill.registered /\ kill.flag

Init ==
    /\ \E S \in SUBSET Files : disk = [f \in Files |-> IF f \in S THEN 1 ELSE 0]
    /\ hidden = {} /\ flying = {} /\ events = 1
    /\ rows = <<>> /\ sync = Idle /\ kill = Unregistered /\ steady = {}

-----------------------------------------------------------------------------
(* Around the sync *)

Happens == events < MaxEvents /\ events' = events + 1

\* A tag editor, the enhancer, the reorganiser or a user writes a file, with a
\* later time than any before.
Write(f) ==
    /\ Happens
    /\ disk' = [disk EXCEPT ![f] = events']
    /\ UNCHANGED <<hidden, flying, rows, sync, kill, steady>>

Delete(f) ==
    /\ Happens /\ disk[f] # 0
    /\ disk' = [disk EXCEPT ![f] = 0]
    /\ steady' = steady \ {f}
    /\ UNCHANGED <<hidden, flying, rows, sync, kill>>

\* A share is unmounted, or is mounted again.
Hide ==
    /\ Happens
    /\ \E S \in SUBSET Files : hidden' = S /\ steady' = steady \ S
    /\ UNCHANGED <<disk, flying, rows, sync, kill>>

TakeOff(f) ==
    /\ Happens /\ f \notin flying
    /\ flying' = flying \cup {f} /\ steady' = steady \ {f}
    /\ UNCHANGED <<disk, hidden, rows, sync, kill>>

Land(f) ==
    /\ f \in flying
    /\ flying' = flying \ {f}
    /\ UNCHANGED <<disk, hidden, events, rows, sync, kill, steady>>

\* kill_with_cleanup sets the event and waits for the thread ...
Kill ==
    /\ Happens /\ kill = [registered |-> TRUE, flag |-> FALSE]
    /\ kill' = [kill EXCEPT !.flag = TRUE]
    /\ UNCHANGED <<disk, hidden, flying, rows, sync, steady>>

\* ... for 3 s at most, after which nobody finds the event any more.
GiveUp ==
    /\ Cancelled
    /\ kill' = Unregistered
    /\ UNCHANGED <<outside, rows, sync, steady>>

-----------------------------------------------------------------------------
(* The run.  A return or an exception ends it, and the job unregisters.      *)

End == sync' = Idle /\ kill' = Unregistered /\ UNCHANGED <<outside, rows, steady>>

Start(mode) ==
    /\ sync.pc = "idle"
    /\ mode # "incremental" => Happens
    /\ mode = "incremental" => UNCHANGED events
    /\ sync' = [Idle EXCEPT !.pc = IF mode = "full_rebuild" THEN "clear" ELSE "read", !.mode = mode]
    /\ kill' = [registered |-> TRUE, flag |-> FALSE]
    /\ steady' = {f \in Files : Listed(f) /\ f \notin flying}
    /\ UNCHANGED <<disk, hidden, flying, rows>>

Clear ==
    /\ sync.pc = "clear"
    /\ rows' = <<>>
    /\ sync' = [sync EXCEPT !.pc = "read"]
    /\ UNCHANGED <<outside, kill, steady>>

\* db_state, with 0.0 for a NULL time; a full rebuild starts from nothing.
Read ==
    /\ sync.pc = "read"
    /\ sync' = [sync EXCEPT !.pc = "walk", !.unwalked = Files,
                            !.known = [f \in DOMAIN rows |-> rows[f].mtime]]
    /\ UNCHANGED <<outside, rows, kill, steady>>

DirtyIfNew(f) == sync.mode # "incremental" \/ f \notin DOMAIN sync.known

Dirty(f) ==
    \/ sync.mode # "incremental" \/ f \notin DOMAIN sync.known
    \/ sync.known[f] < disk[f]

\* A path that cannot be listed, or is in flight, is passed over.
Walk(f) ==
    /\ sync.pc = "walk" /\ f \in sync.unwalked /\ ~Cancelled
    /\ sync' = IF Listed(f) /\ f \notin flying
               THEN [sync EXCEPT !.unwalked = @ \ {f}, !.seen = @ \cup {f},
                                 !.dirty = IF Dirty(f) THEN @ \cup {f} ELSE @]
               ELSE [sync EXCEPT !.unwalked = @ \ {f}]
    /\ UNCHANGED <<outside, rows, kill, steady>>

StatFailsFirst(f) ==
    /\ sync.pc = "walk" /\ f \in sync.unwalked /\ ~Cancelled
    /\ Happens /\ Listed(f) /\ f \notin flying
    /\ sync' = [sync EXCEPT !.unwalked = @ \ {f}]
    /\ UNCHANGED <<disk, hidden, flying, rows, kill, steady>>

\* The path was listed; its time cannot be read.
StatFails(f) ==
    /\ sync.pc = "walk" /\ sync.mode = "incremental"
    /\ f \in sync.unwalked /\ ~Cancelled
    /\ Happens /\ Listed(f) /\ f \notin flying
    /\ sync' = [sync EXCEPT !.unwalked = @ \ {f}, !.seen = @ \cup {f}]
    /\ UNCHANGED <<disk, hidden, flying, rows, kill, steady>>

Orphans == DOMAIN sync.known \ sync.seen

\* All the chunks of the deletion are one transaction.
Prune ==
    /\ sync.pc = "walk" /\ sync.unwalked = {} /\ ~Cancelled
    /\ rows' = IF sync.mode = "full_rebuild" THEN rows ELSE Restrict(rows, DOMAIN rows \ Orphans)
    /\ sync' = [sync EXCEPT !.pc = "extract"]
    /\ UNCHANGED <<outside, kill, steady>>

\* What a look at the path may find: a share that is not mounted has no file.
Looks(f) == {disk[f]} \cup {0 : g \in hidden \cap {f}}

\* parse_file: the native reader takes the file's time first, if it can.
Stamp(f) ==
    /\ sync.pc = "extract" /\ f \in sync.dirty /\ ~Cancelled
    /\ \E v \in Looks(f) : sync' = [sync EXCEPT !.pc = "tags", !.at = {f}, !.stamp = v]
    /\ UNCHANGED <<outside, rows, kill, steady>>

\* Without tags and without a telling name, the file is looked at again.
Parsed(f, time, tags) ==
    sync' = [sync EXCEPT !.pc = IF tags = 0 /\ f \in Unnamed THEN "look" ELSE "time",
                         !.stamp = time, !.tags = tags]

TagsFirst(f) ==
    /\ sync.pc = "tags" /\ f \in sync.at
    /\ Parsed(f, disk[f], sync.stamp)
    /\ UNCHANGED <<outside, rows, kill, steady>>

\* The tags are those of the file as it is by now.
Tags(f) ==
    /\ sync.pc = "tags" /\ f \in sync.at
    /\ \E v \in Looks(f) : Parsed(f, sync.stamp, IF v \in Untagged THEN 0 ELSE v)
    /\ UNCHANGED <<outside, rows, kill, steady>>

\* No format is recognised; or the reader raises, or parse_file finds the flag
\* that the loop did not, and the time is lost as well.
TagsFail(f) ==
    /\ sync.pc = "tags" /\ f \in sync.at
    /\ \/ Cancelled /\ UNCHANGED events
       \/ Happens
    /\ \E time \in {0, sync.stamp} : Parsed(f, time, 0)
    /\ UNCHANGED <<disk, hidden, flying, rows, kill, steady>>

\* An upsert by path: the rows of new replace those of old.
Upserted(new, old) ==
    [f \in DOMAIN new \cup DOMAIN old |-> IF f \in DOMAIN new THEN new[f] ELSE old[f]]

\* The file is done.  At the end, or when it is full, the chunk is due.
Extracted(f, chunk) ==
    LET todo == sync.dirty \ {f}
        due  == chunk # <<>> /\ (todo = {} \/ Cardinality(DOMAIN chunk) >= ChunkSize)
    IN  sync' = [sync EXCEPT !.pc = IF due THEN "upsert" ELSE "extract", !.dirty = todo,
                             !.at = {}, !.stamp = 0, !.tags = 0, !.chunk = chunk]

\* Nothing identifies the file: if it exists it gets a review task and no row.
Look(f) ==
    /\ sync.pc = "look" /\ f \in sync.at
    /\ \E v \in Looks(f) : IF v # 0 THEN Extracted(f, sync.chunk)
                                     ELSE sync' = [sync EXCEPT !.pc = "time"]
    /\ UNCHANGED <<outside, rows, kill, steady>>

\* The row for the next chunk.  A time that is still missing is asked for again,
\* now that the tags have been read (os.stat).
Time(f) ==
    /\ sync.pc = "time" /\ f \in sync.at
    /\ \E v \in IF sync.stamp = 0 THEN Looks(f) ELSE {sync.stamp} :
          LET row == [mtime |-> v, tags |-> sync.tags, late |-> sync.stamp = 0]
          IN  Extracted(f, Upserted([g \in {f} |-> row], sync.chunk))
    /\ UNCHANGED <<outside, rows, kill, steady>>

UpsertKeeping ==
    /\ sync.pc = "upsert" /\ ~Cancelled
    /\ rows' = Upserted(sync.chunk, rows)
    /\ sync' = [sync EXCEPT !.pc = "extract"]
    /\ UNCHANGED <<outside, kill, steady>>

Upsert ==
    /\ sync.pc = "upsert" /\ ~Cancelled
    /\ rows' = Upserted(sync.chunk, rows)
    /\ sync' = [sync EXCEPT !.pc = "extract", !.chunk = <<>>]
    /\ UNCHANGED <<outside, kill, steady>>

\* A cancelled chunk is dropped, and the loop goes on to its next check.
UpsertCancelled ==
    /\ sync.pc = "upsert" /\ Cancelled
    /\ sync' = [sync EXCEPT !.pc = "extract", !.chunk = <<>>]
    /\ UNCHANGED <<outside, rows, kill, steady>>

Finish ==
    \/ sync.pc = "extract" /\ sync.dirty = {} /\ End
    \/ sync.pc \in {"walk", "extract"} /\ Cancelled /\ End

\* No lease, or a locked database: the exception ends the run.
Fail ==
    /\ Happens
    /\ sync.pc \in {"clear", "upsert"} \/ (sync.pc = "walk" /\ sync.unwalked = {})
    /\ sync' = Idle /\ kill' = Unregistered
    /\ UNCHANGED <<disk, hidden, flying, rows, steady>>

-----------------------------------------------------------------------------
Run == \/ Clear \/ Read \/ Prune \/ Upsert \/ UpsertCancelled \/ Finish
       \/ \E f \in Files : Walk(f) \/ Stamp(f) \/ Tags(f) \/ Look(f) \/ Time(f)

Next == \/ Run \/ Fail \/ Hide \/ Kill \/ GiveUp
        \/ \E mode \in Modes : Start(mode)
        \/ \E f \in Files : \/ Write(f) \/ Delete(f) \/ TakeOff(f) \/ Land(f)
                            \/ StatFails(f) \/ TagsFail(f)

Spec == Init /\ [][Next]_vars

\* The run's thread is scheduled, transfers end, and the job comes back every
\* six hours.
FairSpec == /\ Spec
            /\ WF_vars(Run) /\ WF_vars(Start("incremental"))
            /\ \A f \in Files : WF_vars(Land(f))

-----------------------------------------------------------------------------
(* Properties *)

Times == 0..MaxEvents
Row == [mtime : Times, tags : Times, late : BOOLEAN]

SyncTypeOK ==
    /\ disk \in [Files -> Times] /\ hidden \subseteq Files /\ flying \subseteq Files
    /\ DOMAIN rows \subseteq Files /\ \A f \in DOMAIN rows : rows[f] \in Row
    /\ sync.pc \in {"idle", "clear", "read", "walk", "extract", "tags", "look", "time", "upsert"}
    /\ sync.unwalked \cup sync.seen \cup sync.dirty \cup sync.at \subseteq Files
    /\ sync.at \subseteq sync.dirty /\ (sync.at # {}) = (sync.pc \in {"tags", "look", "time"})
    /\ Cardinality(DOMAIN sync.chunk) <= ChunkSize
    /\ sync.pc = "idle" => sync = Idle /\ kill = Unregistered

\* Where the native reader had a file's time, that time is never later than the
\* stored tags: a file that was written while it was read is read again by the
\* next sync.  Where it had none, and the time was asked for after the tags, the
\* code promises no such thing, and a write between the two is never noticed.
NeverBehind == \A f \in DOMAIN rows : rows[f].tags # 0 /\ ~rows[f].late => rows[f].mtime <= rows[f].tags

\* A sync other than a full rebuild keeps the row of every file that was there,
\* listed and not in flight ever since the run began, whatever cannot be read.
PresentKept ==
    [][\A f \in DOMAIN rows \ DOMAIN rows' : sync.mode = "full_rebuild" \/ f \notin steady]_vars

\* However the files changed, whatever was killed, dropped, pruned or not read:
\* once nothing happens any more the rows are those of the files, with their
\* times, and with their tags unless a read failed or the time was late.  A file
\* that nothing identifies is left to its review task, with the row it had.
Current(f) == /\ f \in DOMAIN rows /\ rows[f].mtime = disk[f]
              /\ rows[f].tags \in {0, disk[f]} \/ rows[f].late
Synced == \A f \in Files : IF Listed(f) THEN Current(f) \/ (f \in Unnamed /\ disk[f] \in Untagged)
                                        ELSE f \notin DOMAIN rows
Converges == <>[]Synced
=============================================================================
