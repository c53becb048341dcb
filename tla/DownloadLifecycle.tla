------------------------- MODULE DownloadLifecycle -------------------------
(***************************************************************************)
(* What the statuses of the download queue promise.  DownloadRepository    *)
(* (core/database/repositories/download_repo.py) states them as guarded    *)
(* transitions; the manager writes statuses without looking at the old     *)
(* one.  While the manager works every row moves along the edges below;    *)
(* after a restart nothing moves before one recovery has taken every       *)
(* interrupted row back to the queue.                                      *)
(***************************************************************************)
CONSTANTS Ids
VARIABLES status, working
vars == <<status, working>>

Interrupted == {"SEARCHING", "DOWNLOADING"}

\* Users and other services may add a row, or reuse the row of a past download.
Enqueued(old, new) == old \in {"ABSENT", "FAILED", "COMPLETED"} /\ new = "QUEUED"

Edges == {<<"QUEUED", "SEARCHING">>, <<"RETRYING", "SEARCHING">>, <<"SEARCHING", "DOWNLOADING">>,
          <<"DOWNLOADING", "VERIFYING">>, <<"DOWNLOADING", "SEARCHING">>, <<"SEARCHING", "FAILED">>,
          <<"SEARCHING", "QUEUED">>, <<"QUEUED", "COMPLETED">>, <<"SEARCHING", "COMPLETED">>,
          <<"QUEUED", "ABSENT">>, <<"RETRYING", "ABSENT">>, <<"FAILED", "ABSENT">>}

Statuses == {"ABSENT"} \cup UNION {{e[1], e[2]} : e \in Edges}

\* Whatever an earlier life of the process has left in the table.
Init == status \in [Ids -> Statuses] /\ working = FALSE

Work ==
    /\ working /\ UNCHANGED working
    /\ status' \in [Ids -> Statuses]
    /\ \A i \in Ids : status'[i] = status[i] \/ Enqueued(status[i], status'[i])
                      \/ <<status[i], status'[i]>> \in Edges

Add == /\ ~working /\ UNCHANGED working
       /\ \E i \in Ids : Enqueued(status[i], "QUEUED") /\ status' = [status EXCEPT ![i] = "QUEUED"]

Recover ==
    /\ ~working /\ working' = TRUE
    /\ status' = [i \in Ids |-> IF status[i] \in Interrupted THEN "QUEUED" ELSE status[i]]

Restart == working' = FALSE /\ UNCHANGED status

Next == Work \/ Add \/ Recover \/ Restart

Spec == Init /\ [][Next]_vars
=============================================================================
