---------------------------- MODULE MCDownloads ----------------------------
\* Small instances of DownloadQueue for TLC.
EXTENDS DownloadQueue

LoopOffers == [t \in Tracks |-> IF t = "t1" THEN {"c1", "c2"} ELSE {"c3"}]
Interrupted == <<[Fresh("t2") EXCEPT !.status = "DOWNLOADING", !.plugin = "c3", !.active = "c3"]>>

\* After a restart: c1 goes on at the provider, the peer of c2 is offline.
OneOffer == [t \in Tracks |-> {"c1"}]
Restarted == <<[Fresh("t1") EXCEPT !.status = "DOWNLOADING", !.plugin = "c1",
                                  !.active = "c1", !.stack = <<"c2">>]>>
C3Transfer == [c \in Cands |-> IF c = "c3" THEN "active" ELSE "none"]
C1Transfer == [c \in Cands |-> IF c = "c1" THEN "active" ELSE "none"]
=============================================================================
