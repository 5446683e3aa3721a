---------------------------- MODULE MCDownloader -----------------------------
(***************************************************************************)
(* Two videos that will do, of which one is a live performance, and one    *)
(* that will not; an empty search that passes for a candidate; one job.    *)
(***************************************************************************)
EXTENDS Downloader

CONSTANTS studio, live, other

MCVideos == {studio, live, other}
MCSimilar == {studio, live, Playlist}
MCClean == {studio, other, Playlist}
MCLinked == Entries
MCScore == [e \in Entries |-> IF e = studio THEN 1 ELSE 2]
=============================================================================
